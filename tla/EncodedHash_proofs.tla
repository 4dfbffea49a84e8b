-------------------------- MODULE EncodedHash_proofs --------------------------
(***************************************************************************)
(* EncodedHash: for any contexts, sizes and damage, encode_string stays     *)
(* within its buffer and decode_string within its own; what nobody altered  *)
(* is decoded as the hash that was encoded; and nothing is accepted but     *)
(* what encode_string writes.                                               *)
(***************************************************************************)
EXTENDS EncodedHash, Decoding_proofs

\* What the library wrote or someone altered.
Chars == Alphabet \cup Altered

\* What was decoded is what decode_string makes of the string as it still is.
Outcome(d) ==
    /\ d.saltlen \in Nat /\ d.outlen \in Nat /\ d.type \in Types
    /\ LET r == decode_string(Buffers(d.saltlen, d.outlen), str, d.type)
       IN d.ret = r.ret /\ d.ctx = r.ctx

HashInv ==
    /\ c \in Contexts /\ type \in Types /\ size \in Nat /\ damage \in Nat
    /\ str \in Seq(Chars)
    /\ \/ encoded = NotYet /\ decoded = NotYet /\ damage = 0
       \/ encoded = encode_string(size, c, type)
    /\ encoded # NotYet /\ damage = 0 => str = encoded.dst
    /\ decoded = NotYet \/ (Outcome(decoded) /\ encoded.ret = "OK")

-----------------------------------------------------------------------------

LEMMA ContextsAreHashes ==
    ASSUME NEW ctx \in Contexts
    PROVE  IsHash(ctx)
<1>1. /\ DOMAIN ctx = ContextFields
      /\ ctx.salt \in Seq(0..255) /\ ctx.saltlen = Len(ctx.salt)
      /\ ctx.out \in Seq(0..255) /\ ctx.outlen = Len(ctx.out)
      /\ {ctx.saltlen, ctx.outlen, ctx.t_cost, ctx.m_cost, ctx.lanes, ctx.version}
            \subseteq 0..UINT32_MAX
  BY EncodedAssumption
<1>2. IsBytes(ctx.salt) /\ IsBytes(ctx.out)
  BY <1>1, BytesOfSeq
<1> QED BY <1>1, <1>2 DEF IsHash

\* What the decoder starts from.
LEMMA BuffersFields ==
    ASSUME NEW n, NEW m, DOMAIN c = ContextFields, NEW b, b = Buffers(n, m)
    PROVE  /\ DOMAIN b = ContextFields /\ b.salt = <<>> /\ b.out = <<>>
           /\ b.saltlen = n /\ b.outlen = m /\ b.pwd = c.pwd /\ b.pwdlen = c.pwdlen
<1>1. DOMAIN b = DOMAIN c
  BY DEF Buffers
<1>2. b.salt = <<>> /\ b.out = <<>>
  BY DEF ContextFields, Buffers
<1>3. b.saltlen = n /\ b.outlen = m
  BY DEF ContextFields, Buffers
<1>4. b.pwd = c.pwd /\ b.pwdlen = c.pwdlen
  BY DEF ContextFields, Buffers
<1> QED BY <1>1, <1>2, <1>3, <1>4

\* Its string, with its final 0, has the length that argon2_encodedlen says.
LEMMA NeededIsLength ==
    ASSUME NEW ctx \in Contexts, NEW t \in Types, numlen[ctx.version] = 2
    PROVE  Len(Text(ctx, t)) \in Nat /\ Needed(ctx, t) = Len(Text(ctx, t)) + 1
<1>1. IsHash(ctx)
  BY ContextsAreHashes
<1>2. Len(Text(ctx, t)) =
         15 + Len(type_string(t)) + numlen[ctx.version] + numlen[ctx.m_cost]
            + numlen[ctx.t_cost] + numlen[ctx.lanes] + b64len(ctx.saltlen) + b64len(ctx.outlen)
  BY <1>1, TextWritten
<1>3. Len(Text(ctx, t)) \in Nat
  BY <1>1, TextWritten
<1>4. /\ Len(type_string(t)) \in {2, 3}
      /\ numlen[ctx.m_cost] \in Nat /\ numlen[ctx.t_cost] \in Nat /\ numlen[ctx.lanes] \in Nat
  BY <1>1, FieldsAreText
<1>5. b64len(ctx.saltlen) \in Nat /\ b64len(ctx.outlen) \in Nat
  <2>1. /\ to_base64(ctx.salt) \in Seq(Alphabet) /\ Len(to_base64(ctx.salt)) = b64len(ctx.saltlen)
        /\ to_base64(ctx.out) \in Seq(Alphabet) /\ Len(to_base64(ctx.out)) = b64len(ctx.outlen)
    BY <1>1, FieldsAreText
  <2> QED BY <2>1, LenProperties
<1>6. Needed(ctx, t) =
         15 + Len(type_string(t)) + numlen[ctx.t_cost] + numlen[ctx.m_cost]
            + numlen[ctx.lanes] + b64len(ctx.saltlen) + b64len(ctx.outlen) + 2 + 1
  BY VersionLength DEF Needed, argon2_encodedlen
<1> DEFINE a == Len(type_string(t))
           b == numlen[ctx.m_cost]
           d == numlen[ctx.t_cost]
           e == numlen[ctx.lanes]
           f == b64len(ctx.saltlen)
           g == b64len(ctx.outlen)
           h == Len(Text(ctx, t))
           n == Needed(ctx, t)
<1>7. /\ a \in Nat /\ b \in Nat /\ d \in Nat /\ e \in Nat /\ f \in Nat /\ g \in Nat /\ h \in Nat
      /\ h = 15 + a + 2 + b + d + e + f + g
      /\ n = 15 + a + d + b + e + f + g + 2 + 1
  BY <1>2, <1>3, <1>4, <1>5, <1>6
<1> HIDE DEF a, b, d, e, f, g, h, n
<1>8. n = h + 1
  BY <1>7
<1> QED BY <1>3, <1>8 DEF n, h

LEMMA AlteredIsText ==
    ASSUME NEW s \in Seq(Chars), NEW v \in Variants(s)
    PROVE  v \in Seq(Chars)
<1>1. CASE \E i \in 1..(Len(s) + 1), a \in Altered : v = InsertAt(s, i, a)
  <2>1. PICK i \in 1..(Len(s) + 1), a \in Altered : v = InsertAt(s, i, a)
    BY <1>1
  <2>2. i - 1 \in 0..Len(s) /\ i - 1 \in Nat /\ Len(s) \in Nat /\ i = (i - 1) + 1
    BY LenProperties
  <2> DEFINE x == SubSeq(s, 1, i - 1)
             y == <<a>>
             z == SubSeq(s, i, Len(s))
  <2>3. v = (x \o y) \o z
    BY <2>1 DEF InsertAt
  <2>4. x \in Seq(Chars)
    BY <2>2, FirstFacts
  <2>5. y \in Seq(Chars)
    BY DEF Chars
  <2>6. z \in Seq(Chars)
    <3>1. z = Rest(s, i - 1)
      BY <2>2 DEF Rest
    <3> HIDE DEF z
    <3> QED BY <2>2, <3>1, RestFacts
  <2> HIDE DEF x, y, z
  <2>7. x \o y \in Seq(Chars)
    BY <2>4, <2>5, ConcatProperties
  <2> QED BY <2>3, <2>6, <2>7, ConcatProperties
<1>2. CASE \E i \in DOMAIN s, a \in Altered : v = ReplaceAt(s, i, a)
  <2>1. PICK i \in DOMAIN s, a \in Altered : v = ReplaceAt(s, i, a)
    BY <1>2
  <2>2. v = [s EXCEPT ![i] = a] /\ a \in Chars
    BY <2>1 DEF ReplaceAt, Chars
  <2>3. i \in 1..Len(s)
    BY LenProperties
  <2> QED BY <2>2, <2>3, ExceptSeq
<1>3. CASE \E i \in 0..Len(s), j \in 0..Len(s) : v = Without(s, i, j)
  <2>1. PICK i \in 0..Len(s), j \in 0..Len(s) : v = Without(s, i, j)
    BY <1>3
  <2>2. SubSeq(s, 1, i) \in Seq(Chars)
    BY FirstFacts
  <2>3. Rest(s, j) \in Seq(Chars)
    BY RestFacts, LenProperties
  <2> QED BY <2>1, <2>2, <2>3, ConcatProperties DEF Without
<1>4. \/ v \in {InsertAt(s, i, a) : i \in 1..(Len(s) + 1), a \in Altered}
      \/ v \in {ReplaceAt(s, i, a) : i \in DOMAIN s, a \in Altered}
      \/ v \in {Without(s, i, j) : i \in 0..Len(s), j \in 0..Len(s)}
  BY DEF Variants
<1>5. v \in {InsertAt(s, i, a) : i \in 1..(Len(s) + 1), a \in Altered} => v \in Seq(Chars)
  BY <1>1
<1>6. v \in {ReplaceAt(s, i, a) : i \in DOMAIN s, a \in Altered} => v \in Seq(Chars)
  BY <1>2
<1>7. v \in {Without(s, i, j) : i \in 0..Len(s), j \in 0..Len(s)} => v \in Seq(Chars)
  BY <1>3
<1> QED BY <1>4, <1>5, <1>6, <1>7

-----------------------------------------------------------------------------

LEMMA InitHash == Init => HashInv
<1> SUFFICES ASSUME Init PROVE HashInv
  OBVIOUS
<1>1. <<>> \in Seq(Chars)
  BY EmptySeq
<1>2. size \in Nat /\ c \in Contexts /\ type \in Types /\ damage = 0 /\ str = <<>>
      /\ encoded = NotYet /\ decoded = NotYet
  BY DEF Init
<1> QED BY <1>1, <1>2 DEF HashInv

LEMMA EncodeHash == HashInv /\ Encode => HashInv'
<1> SUFFICES ASSUME HashInv, Encode PROVE HashInv'
  OBVIOUS
<1> DEFINE e == encode_string(size, c, type)
<1>1. /\ c \in Contexts /\ type \in Types /\ size \in Nat /\ damage \in Nat
      /\ c' = c /\ type' = type /\ size' = size /\ damage' = damage /\ decoded' = decoded
      /\ encoded' = e /\ str' = e.dst
  BY DEF HashInv, Encode
<1>2. encoded = NotYet /\ e \notin {NotYet} /\ e.dst \in Seq(Alphabet)
  <2>1. IsHash(c)
    BY <1>1, ContextsAreHashes
  <2>2. e.dst \in Seq(Alphabet) /\ e # [ret |-> "none"]
    BY <1>1, <2>1, EncodeString
  <2> QED BY <2>2 DEF Encode, NotYet
<1>3. e.dst \in Seq(Chars)
  <2>1. Alphabet \subseteq Chars
    BY DEF Chars
  <2> HIDE DEF e
  <2> QED BY <1>2, <2>1, SeqMonotonic
<1> HIDE DEF e
<1>4. decoded = NotYet
  BY <1>2 DEF HashInv, e
<1>5. encoded' = encode_string(size', c', type')
  BY <1>1 DEF e
<1> QED BY <1>1, <1>3, <1>4, <1>5 DEF HashInv

LEMMA AlterHash == HashInv /\ Alter => HashInv'
<1> SUFFICES ASSUME HashInv, Alter PROVE HashInv'
  OBVIOUS
<1>1. /\ c' = c /\ type' = type /\ size' = size /\ encoded' = encoded /\ decoded' = decoded
      /\ damage' = damage + 1 /\ decoded = NotYet /\ encoded.ret = "OK"
      /\ str' \in Variants(str)
  BY DEF Alter
<1>2. c \in Contexts /\ type \in Types /\ size \in Nat /\ damage \in Nat /\ str \in Seq(Chars)
  BY DEF HashInv
<1>3. str' \in Seq(Chars) /\ damage' \in Nat /\ damage' # 0
  BY <1>1, <1>2, AlteredIsText
<1>4. encoded = encode_string(size, c, type)
  BY <1>1 DEF HashInv, NotYet
<1>5. encoded' = encode_string(size', c', type')
  BY <1>1, <1>4
<1> QED BY <1>1, <1>2, <1>3, <1>5 DEF HashInv, Chars

LEMMA DecodeHash ==
    ASSUME NEW t \in Types, NEW n \in BufferSizes \cup {Len(str)}
    PROVE  HashInv /\ Decode(t, n, n) => HashInv'
<1> SUFFICES ASSUME HashInv, Decode(t, n, n) PROVE HashInv'
  OBVIOUS
<1> DEFINE r == decode_string(Buffers(n, n), str, t)
<1>1. /\ c' = c /\ type' = type /\ size' = size /\ encoded' = encoded /\ str' = str
      /\ damage' = damage /\ encoded.ret = "OK"
      /\ decoded' = [ret |-> r.ret, ctx |-> r.ctx, type |-> t, saltlen |-> n, outlen |-> n]
  BY DEF Decode
<1>2. c \in Contexts /\ type \in Types /\ size \in Nat /\ damage \in Nat /\ str \in Seq(Chars)
  BY DEF HashInv
<1>3. n \in Nat
  BY <1>2, EncodedAssumption, LenProperties
<1>4. encoded = encode_string(size, c, type) /\ (encoded # NotYet /\ damage = 0 => str = encoded.dst)
  BY <1>1 DEF HashInv, NotYet
<1>5. /\ decoded'.saltlen = n /\ decoded'.outlen = n /\ decoded'.type = t
      /\ decoded'.ret = r.ret /\ decoded'.ctx = r.ctx
  BY <1>1
<1>6. r = decode_string(Buffers(n, n)', str', t)
  <2>1. Buffers(n, n)' = Buffers(n, n)
    BY <1>1 DEF Buffers
  <2> QED BY <1>1, <2>1
<1> HIDE DEF r
<1>7. Outcome(decoded)'
  BY <1>3, <1>5, <1>6 DEF Outcome
<1>8. encoded'.ret = "OK"
  BY <1>1
<1>9. encoded' = encode_string(size', c', type')
  BY <1>1, <1>4
<1> QED BY <1>1, <1>2, <1>4, <1>7, <1>8, <1>9 DEF HashInv

LEMMA HashInvariant == Spec => []HashInv
<1>1. HashInv /\ [Next]_vars => HashInv'
  <2> SUFFICES ASSUME HashInv, [Next]_vars PROVE HashInv'
    OBVIOUS
  <2>1. CASE Encode
    BY <2>1, EncodeHash
  <2>2. CASE Alter
    BY <2>2, AlterHash
  <2>3. CASE \E t \in Types, n \in BufferSizes \cup {Len(str)} : Decode(t, n, n)
    BY <2>3, DecodeHash
  <2>4. CASE UNCHANGED vars
    BY <2>4 DEF vars, HashInv, Outcome, Chars, Buffers
  <2>5. CASE done
    BY <2>4, <2>5 DEF done
  <2> QED BY <2>1, <2>2, <2>3, <2>4, <2>5 DEF Next
<1> QED BY InitHash, <1>1, PTL DEF Spec

-----------------------------------------------------------------------------

\* encode_string needs exactly the bytes that argon2_encodedlen promises, and
\* writes none, its final 0 included, behind the end of a shorter buffer.
THEOREM EncodingStaysInBuffer == Spec => []EncodesIntoBuffer
<1>1. HashInv => EncodesIntoBuffer
  <2> SUFFICES ASSUME HashInv, encoded # NotYet PROVE EncodesIntoBuffer
    BY DEF EncodesIntoBuffer
  <2>1. /\ c \in Contexts /\ type \in Types /\ size \in Nat
        /\ encoded = encode_string(size, c, type)
    BY DEF HashInv
  <2>2. IsHash(c)
    BY <2>1, ContextsAreHashes
  <2>3. /\ encoded.dst = <<>> \/ Len(encoded.dst) + 1 <= size
        /\ encoded.ret = "OK" <=> validate_inputs(c) = "OK" /\ Len(Text(c, type)) < size
    BY <2>1, <2>2, EncodeString
  <2>4. ASSUME numlen[c.version] = 2
        PROVE  Len(Text(c, type)) < size <=> size >= Needed(c, type)
    <3>1. Len(Text(c, type)) \in Nat /\ Needed(c, type) = Len(Text(c, type)) + 1
      BY <2>1, <2>4, NeededIsLength
    <3> QED BY <2>1, <3>1
  <2> QED BY <2>3, <2>4 DEF EncodesIntoBuffer
<1> QED BY HashInvariant, <1>1, PTL

\* decode_string writes a salt and an output that fit into the buffers it was
\* given, or leaves them as they were, whatever string it reads.
THEOREM DecodingStaysInBuffers == Spec => []DecodesIntoBuffers
<1>1. HashInv => DecodesIntoBuffers
  <2> SUFFICES ASSUME HashInv, decoded # NotYet PROVE DecodesIntoBuffers
    BY DEF DecodesIntoBuffers
  <2> DEFINE b == Buffers(decoded.saltlen, decoded.outlen)
             r == decode_string(b, str, decoded.type)
  <2>1. /\ c \in Contexts /\ str \in Seq(Chars)
        /\ decoded.saltlen \in Nat /\ decoded.outlen \in Nat /\ decoded.ctx = r.ctx
    BY DEF HashInv, Outcome
  <2>2. DOMAIN c = ContextFields
    BY <2>1, ContextsAreHashes DEF IsHash
  <2>3. /\ DOMAIN b = ContextFields /\ b.salt = <<>> /\ b.out = <<>>
        /\ b.saltlen = decoded.saltlen /\ b.outlen = decoded.outlen
    BY <2>2, BuffersFields
  <2> HIDE DEF b
  <2>4. b.saltlen \in Nat /\ b.outlen \in Nat
    BY <2>1, <2>3
  <2>5. /\ r.ctx.salt = b.salt \/ Len(r.ctx.salt) <= b.saltlen
        /\ r.ctx.out = b.out \/ Len(r.ctx.out) <= b.outlen
    BY <2>1, <2>3, <2>4, DecodeString
  <2> HIDE DEF r
  <2>6. Len(b.salt) = 0 /\ Len(b.out) = 0
    BY <2>3
  <2> QED BY <2>1, <2>3, <2>5, <2>6 DEF DecodesIntoBuffers
<1> QED BY HashInvariant, <1>1, PTL

\* A string that nobody altered is decoded as the hash that was encoded, if it is
\* decoded as one of its type and into buffers that are large enough; otherwise
\* decode_string accepts nothing.
THEOREM DecodedAsEncoded == Spec => []DecodesWhatWasEncoded
<1>1. HashInv => DecodesWhatWasEncoded
  <2> SUFFICES ASSUME HashInv, decoded # NotYet, damage = 0 PROVE DecodesWhatWasEncoded
    BY DEF DecodesWhatWasEncoded
  <2> DEFINE b == Buffers(decoded.saltlen, decoded.outlen)
             d == decode_string(b, Text(c, type), decoded.type)
  <2>1. /\ c \in Contexts /\ type \in Types /\ size \in Nat
        /\ Outcome(decoded) /\ encoded.ret = "OK"
    BY DEF HashInv
  <2>2. encoded = encode_string(size, c, type) /\ str = encoded.dst
    BY <2>1 DEF HashInv, NotYet
  <2>3. IsHash(c) /\ DOMAIN c = ContextFields
    BY <2>1, ContextsAreHashes DEF IsHash
  <2>4. str = Text(c, type) /\ validate_inputs(c) = "OK"
    BY <2>1, <2>2, <2>3, EncodeString
  <2>5. /\ decoded.saltlen \in Nat /\ decoded.outlen \in Nat /\ decoded.type \in Types
        /\ decoded.ret = d.ret /\ decoded.ctx = d.ctx
    BY <2>1, <2>4 DEF Outcome
  <2>6. /\ DOMAIN b = ContextFields
        /\ b.saltlen = decoded.saltlen /\ b.outlen = decoded.outlen
        /\ b.pwd = c.pwd /\ b.pwdlen = c.pwdlen
    BY <2>3, BuffersFields
  <2> HIDE DEF b
  <2>7. b.saltlen \in Nat /\ b.outlen \in Nat
    BY <2>5, <2>6
  <2>8. IF decoded.type = type /\ c.saltlen <= b.saltlen /\ c.outlen <= b.outlen
        THEN d.ret = "OK" /\ DecodedAs(d.ctx, c, b)
        ELSE d.ret # "OK"
    <3>1. ValidBuffer(b.pwd, b.pwdlen, 0)
      BY <2>4, <2>6, ValidateInputs DEF Valid
    <3> QED BY <2>1, <2>3, <2>4, <2>5, <2>6, <2>7, <3>1, DecodeEncoded
  <2> HIDE DEF d
  <2>9. c.saltlen \in Nat /\ c.outlen \in Nat
    BY <2>3, LenProperties DEF IsHash, IsBytes
  <2>10. CASE decoded.type = type /\ c.saltlen <= b.saltlen /\ c.outlen <= b.outlen
    <3>1. d.ret = "OK" /\ SameHash(c, d.ctx) /\ d.ctx.flags = {}
      <4>1. /\ SubSeq(c.salt, 1, c.saltlen) = c.salt /\ SubSeq(c.out, 1, c.outlen) = c.out
        BY <2>1, <2>3, FieldsAreText
      <4> QED BY <2>8, <2>10, <4>1 DEF SameHash, DecodedAs
    <3> QED BY <2>5, <2>6, <2>7, <2>9, <2>10, <3>1 DEF DecodesWhatWasEncoded
  <2>11. CASE ~ (decoded.type = type /\ c.saltlen <= b.saltlen /\ c.outlen <= b.outlen)
    BY <2>5, <2>6, <2>7, <2>8, <2>9, <2>11 DEF DecodesWhatWasEncoded
  <2> QED BY <2>10, <2>11
<1> QED BY HashInvariant, <1>1, PTL

LEMMA Regroup ==
    ASSUME NEW S, NEW a \in Seq(S), NEW b \in Seq(S), NEW z \in Seq(S)
    PROVE  a \o (b \o z) = (a \o b) \o z
BY SMTT(30), ConcatAssociative

LEMMA JoinedLength ==
    ASSUME NEW S, NEW a \in Seq(S), NEW b \in Seq(S)
    PROVE  Len(a \o b) = Len(a) + Len(b)
BY ConcatProperties

\* The text without the version is that with it, less five characters.
LEMMA VersionCut ==
    ASSUME NEW x, IsHash(x), x.version = Version10, NEW t \in Types,
           NEW s, s = Text(x, t), NEW u, u = UnversionedText(x, t)
    PROVE  Len(s) \in Nat /\ Len(u) \in Nat /\ Len(s) = Len(u) + 5 /\ u = WithoutVersion(s, t)
<1> DEFINE S == Alphabet
           one == <<"$">>
           y == type_string(t)
           a == one \o y
           p == <<"$", "v", "=">>
           q == Decimal[x.version]
           v == p \o q
           m == MemoryText(x)
           k == Len(y)
<1>1. s = one \o (y \o (p \o (q \o m)))
  BY TextFromItsEnd, Zenon DEF VersionText
<1>2. u = one \o (y \o m)
  BY Zenon DEF UnversionedText
<1>3. one \in Seq(S) /\ Len(one) = 1 /\ p \in Seq(S) /\ Len(p) = 3
  BY SeparatorsAreText, Zenon
<1>4. y \in Seq(S) /\ k \in Nat /\ m \in Seq(S)
  BY FieldsAreText, TextsBegin, LenProperties
<1>5. q \in Seq(S) /\ Len(q) = 2
  <2>1. 16 \in 0..UINT32_MAX
    BY SizesAreNumbers
  <2>2. numlen[16] = 2
    <3>1. 1 \in 0..UINT32_MAX /\ 16 \div 10 = 1 /\ ~ (16 < 10) /\ 1 < 10
      BY SizesAreNumbers
    <3>2. numlen[16] = 1 + numlen[1] /\ numlen[1] = 1
      BY <2>1, <3>1, DecimalFacts DEF LengthsUpTo
    <3> QED BY <3>2
  <2>3. q \in Seq(S) /\ Len(q) = numlen[x.version]
    BY FieldsAreText
  <2> QED BY <2>2, <2>3 DEF Version10
<1> HIDE DEF S, one, y, p, q, m, k
<1>6. a \in Seq(S) /\ Len(a) = k + 1
  <2>1. a \in Seq(S) /\ Len(a) = Len(one) + Len(y)
    BY <1>3, <1>4, ConcatProperties
  <2> HIDE DEF a
  <2>2. Len(a) = 1 + k
    BY <1>3, <2>1 DEF k
  <2> QED BY <1>4, <2>1, <2>2
<1>7. v \in Seq(S) /\ Len(v) = 5
  <2>1. v \in Seq(S) /\ Len(v) = Len(p) + Len(q)
    BY <1>3, <1>5, ConcatProperties
  <2> QED BY <1>3, <1>5, <2>1
<1>8. u = a \o m
  BY SMTT(30), <1>2, <1>3, <1>4, Regroup
<1>9. s = a \o (v \o m)
  <2>1. p \o (q \o m) = v \o m
    <3>1. p \in Seq(S) /\ q \in Seq(S) /\ m \in Seq(S)
      BY <1>3, <1>4, <1>5
    <3>2. p \o (q \o m) = (p \o q) \o m
      BY <3>1, Regroup
    <3> QED BY <3>2
  <2> DEFINE w == v \o m
  <2>2. w \in Seq(S)
    BY <1>4, <1>7, ConcatProperties
  <2>3. s = one \o (y \o w)
    BY <1>1, <2>1, Zenon
  <2> HIDE DEF w, v
  <2>4. one \o (y \o w) = (one \o y) \o w
    BY SMTT(30), <1>3, <1>4, <2>2, Regroup
  <2> QED BY <2>3, <2>4, Zenon DEF w
<1> HIDE DEF a, v
<1>10. s = (a \o v) \o m
  BY <1>4, <1>6, <1>7, <1>9, Regroup
<1> DEFINE w == v \o m
           b == a \o v
<1>11. w \in Seq(S) /\ b \in Seq(S) /\ Len(b) = Len(a) + Len(v) /\ Len(w) = Len(v) + Len(m)
       /\ Len(u) = Len(a) + Len(m) /\ Len(s) = Len(b) + Len(m)
  <2>1. w \in Seq(S) /\ b \in Seq(S) /\ Len(b) = Len(a) + Len(v) /\ Len(w) = Len(v) + Len(m)
        /\ Len(u) = Len(a) + Len(m)
    BY ZenonT(30), <1>4, <1>6, <1>7, <1>8, ConcatProperties
  <2> HIDE DEF b, w
  <2>2. s = b \o m
    BY <1>10 DEF b
  <2>3. Len(s) = Len(b) + Len(m)
    <3>1. Len(b \o m) = Len(b) + Len(m)
      BY <1>4, <2>1, JoinedLength
    <3> QED BY <2>2, <3>1
  <2> QED BY <2>1, <2>3
<1> HIDE DEF b, w
<1>12. SubSeq(s, 1, k + 1) = a
  <2>1. s = a \o w
    BY <1>9 DEF w
  <2>2. SubSeq(a \o w, 1, Len(a)) = a
    BY <1>6, <1>11, Split
  <2> QED BY <1>6, <2>1, <2>2
<1>13. Rest(s, (k + 1) + 5) = m
  <2>1. s = b \o m
    BY <1>10 DEF b
  <2>2. Rest(b \o m, Len(b)) = m
    BY <1>4, <1>11, Split
  <2>3. Len(b) = (k + 1) + 5
    BY <1>6, <1>7, <1>11
  <2> QED BY <2>1, <2>2, <2>3
<1>14. WithoutVersion(s, t) = SubSeq(s, 1, k + 1) \o Rest(s, (k + 1) + 5)
  BY DEF WithoutVersion, Without, k, y
<1>15. u = WithoutVersion(s, t)
  BY <1>8, <1>12, <1>13, <1>14
<1>16. Len(m) \in Nat /\ Len(a) \in Nat
  BY <1>4, <1>6, LenProperties
<1> QED BY <1>6, <1>7, <1>11, <1>15, <1>16

\* Whatever string is decoded, altered or not, nothing but what encode_string
\* writes is accepted, or that without the version 0x10 it does not have to say.
THEOREM EncodedOnce == Spec => []OneEncodingPerHash
<1>1. HashInv => OneEncodingPerHash
  <2> SUFFICES ASSUME HashInv, decoded.ret = "OK" PROVE OneEncodingPerHash
    BY DEF OneEncodingPerHash
  <2> DEFINE b == Buffers(decoded.saltlen, decoded.outlen)
             d == decode_string(b, str, decoded.type)
             x == decoded.ctx
             t == decoded.type
             again == encode_string(Len(str) + 6, x, t)
  <2>1. decoded # NotYet
    BY DEF NotYet
  <2>2. c \in Contexts /\ str \in Seq(Chars) /\ Outcome(decoded)
    BY <2>1 DEF HashInv
  <2>3. decoded.saltlen \in Nat /\ decoded.outlen \in Nat /\ d.ret = "OK" /\ d.ctx = x
    BY <2>2 DEF Outcome
  <2>4. DOMAIN c = ContextFields
    BY <2>2, ContextsAreHashes DEF IsHash
  <2>5. DOMAIN b = ContextFields /\ b.saltlen \in Nat /\ b.outlen \in Nat
    BY <2>3, <2>4, BuffersFields
  <2> HIDE DEF b
  <2>6. Alphabet \subseteq Chars
    BY DEF Chars
  <2>7. d = decode_string(b, str, t)
    OBVIOUS
  <2> HIDE DEF d
  <2>8. /\ t \in Types /\ IsHash(x) /\ validate_inputs(x) = "OK"
        /\ str = Text(x, t) \/ (x.version = Version10 /\ str = UnversionedText(x, t))
    <3>1. /\ t \in Types /\ IsHash(d.ctx) /\ DecodedAs(d.ctx, d.ctx, b)
          /\ str = Text(d.ctx, t) \/ (d.ctx.version = Version10 /\ str = UnversionedText(d.ctx, t))
      BY <2>2, <2>3, <2>5, <2>6, <2>7, DecodedIsEncoded
    <3> QED BY <2>3, <3>1 DEF DecodedAs
  <2>9. Len(str) \in Nat
    BY <2>2, LenProperties
  <2>10. Len(Text(x, t)) < Len(str) + 6
    BY <2>8, <2>9, VersionCut
  <2> HIDE DEF x, t
  <2>11. again.dst = Text(x, t)
    <3>1. Len(str) + 6 \in Nat
      BY <2>9
    <3> HIDE DEF again
    <3>2. again.ret = "OK"
      BY <2>8, <2>10, <3>1, EncodeString DEF again
    <3> QED BY <2>8, <3>1, <3>2, EncodeString DEF again
  <2>12. str = again.dst \/ (x.version = Version10 /\ str = WithoutVersion(again.dst, t))
    BY <2>8, <2>11, VersionCut
  <2> QED BY <2>12 DEF OneEncodingPerHash, x, t
<1> QED BY HashInvariant, <1>1, PTL
=============================================================================
