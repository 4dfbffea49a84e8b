--------------------------- MODULE Decoding_proofs ---------------------------
(***************************************************************************)
(* What decode_string accepts, of all strings: only what encode_string      *)
(* writes.  And what one changed character can do to a string.              *)
(***************************************************************************)
EXTENDS Encoding_proofs

-----------------------------------------------------------------------------
(* What was read is what would be written.                                  *)

\* All but the last, and the last.
LEMMA FrontAndLast ==
    ASSUME NEW S, NEW n \in Nat, NEW x \in Seq(S), Len(x) = n + 1
    PROVE  /\ SubSeq(x, 1, n) \in Seq(S) /\ Len(SubSeq(x, 1, n)) = n /\ x[n + 1] \in S
           /\ x = Append(SubSeq(x, 1, n), x[n + 1])
           /\ n > 0 => SubSeq(x, 1, n)[1] = x[1]
<1> DEFINE y == SubSeq(x, 1, n)
           m == n + 1
           z == Append(y, x[m])
<1>1. n \in 0..Len(x) /\ m \in 1..Len(x) /\ m \in Nat
  OBVIOUS
<1>2. y \in Seq(S) /\ Len(y) = n /\ \A i \in 1..n : y[i] = x[i]
  BY <1>1, FirstFacts
<1>3. x[m] \in S
  BY <1>1, ElementOfSeq
<1> HIDE DEF y
<1>4. z \in Seq(S) /\ Len(z) = n + 1 /\ z[n + 1] = x[m] /\ \A i \in 1..n : z[i] = y[i]
  BY <1>2, <1>3, AppendProperties
<1> HIDE DEF z
<1>5. ASSUME NEW i \in 1..Len(x) PROVE z[i] = x[i]
  <2>1. i \in 1..n \/ i = m
    OBVIOUS
  <2> QED BY <1>2, <1>4, <2>1
<1>6. z = x
  BY <1>4, <1>5, SeqEqual
<1>7. n > 0 => y[1] = x[1]
  BY <1>2
<1> QED BY <1>2, <1>3, <1>6, <1>7 DEF y, z, m

LEMMA CutInTwo ==
    ASSUME NEW S, NEW str \in Seq(S), NEW k \in 0..Len(str)
    PROVE  /\ SubSeq(str, 1, k) \in Seq(S) /\ Rest(str, k) \in Seq(S)
           /\ str = SubSeq(str, 1, k) \o Rest(str, k)
<1> DEFINE x == SubSeq(str, 1, k)
           y == Rest(str, k)
           z == x \o y
           m == Len(str)
<1>1. k \in Nat /\ k <= m /\ m \in Nat
  BY LenProperties
<1>2. x \in Seq(S) /\ Len(x) = k /\ \A i \in 1..k : x[i] = str[i]
  BY FirstFacts
<1>3. y \in Seq(S) /\ Len(y) = m - k /\ \A i \in 1..(m - k) : y[i] = str[k + i]
  BY <1>1, RestFacts
<1> HIDE DEF x, y
<1>4. /\ z \in Seq(S) /\ Len(z) = k + (m - k)
      /\ \A i \in 1..(k + (m - k)) : z[i] = IF i <= k THEN x[i] ELSE y[i - k]
  <2>1. /\ z \in Seq(S) /\ Len(z) = Len(x) + Len(y)
        /\ \A i \in 1..(Len(x) + Len(y)) : z[i] = IF i <= Len(x) THEN x[i] ELSE y[i - Len(x)]
    BY <1>2, <1>3, ConcatProperties
  <2> HIDE DEF z
  <2> QED BY <1>2, <1>3, <2>1
<1> HIDE DEF z
<1>5. ASSUME NEW i \in 1..m PROVE z[i] = str[i]
  <2>1. i \in 1..(k + (m - k))
    BY <1>1
  <2>2. CASE i <= k
    BY <1>1, <1>2, <1>4, <2>1, <2>2
  <2>3. CASE ~ (i <= k)
    <3>1. i - k \in 1..(m - k) /\ k + (i - k) = i
      BY <1>1, <2>3
    <3> QED BY <1>3, <1>4, <2>1, <2>3, <3>1
  <2> QED BY <2>2, <2>3
<1>6. Len(z) = m
  BY <1>1, <1>4
<1>7. z = str
  BY <1>4, <1>5, <1>6, SeqEqual DEF m
<1> QED BY <1>2, <1>3, <1>7 DEF x, y, z

LEMMA DigitOfValue ==
    ASSUME NEW c \in Digits
    PROVE  /\ DigitValue(c) \in 0..9 /\ Base64[53 + DigitValue(c)] = c
           /\ c = "0" <=> DigitValue(c) = 0
<1>1. PICK i \in 53..62 : c = Base64[i]
  BY DEF Digits
<1>2. i - 53 \in 0..9 /\ 53 + (i - 53) = i
  OBVIOUS
<1>3. DigitValue(c) = i - 53
  BY <1>1, <1>2, DigitAt
<1> QED BY <1>1, <1>2, <1>3, DigitAt

LEMMA AddedDigit ==
    ASSUME NEW a \in Nat \cup {-1}, NEW c \in Digits, NEW v, v = AddDigit(a, c), v # -1
    PROVE  a \in Nat /\ v = a * 10 + DigitValue(c) /\ v \in Nat
<1>1. DigitValue(c) \in 0..9
  BY DigitOfValue
<1>2. a # -1 /\ v = a * 10 + DigitValue(c)
  BY DEF AddDigit
<1> HIDE DEF DigitValue
<1> QED BY <1>1, <1>2

\* These digits are the only way to write their value.
IsNumeral(x) ==
    LET v == addDigits(x)[Len(x)] IN
    /\ v \in Nat \cup {-1}
    /\ v \in 0..UINT32_MAX /\ (x[1] = "0" => Len(x) = 1) =>
          Decimal[v] = x /\ (x[1] # "0" => v >= 1)

LEMMA OneDigit ==
    ASSUME NEW c \in Digits
    PROVE  IsNumeral(<<c>>)
<1> DEFINE v == AddDigit(0, c)
           k == DigitValue(c)
<1>1. addDigits(<<c>>)[1] = v
  <2>1. <<>> \in Seq(Digits) /\ Append(<<>>, c) = <<c>> /\ Len(<<>>) = 0 /\ 0 + 1 = 1
    OBVIOUS
  <2>2. addDigits(Append(<<>>, c))[Len(<<>>) + 1] = AddDigit(addDigits(<<>>)[Len(<<>>)], c)
    BY <2>1, OneDigitMore
  <2> QED BY <2>1, <2>2, NoDigit
<1>2. k \in 0..9 /\ Base64[53 + k] = c /\ (c = "0" <=> k = 0)
  BY DigitOfValue
<1>3. v # -1 => v = 0 * 10 + k
  BY AddedDigit
<1> HIDE DEF v, k
<1>4. v \in Nat \cup {-1} /\ (v # -1 => v = k)
  BY <1>2, <1>3
<1>5. Len(<<c>>) = 1 /\ <<c>>[1] = c
  OBVIOUS
<1>6. ASSUME v \in 0..UINT32_MAX PROVE Decimal[v] = <<c>> /\ (c # "0" => v >= 1)
  <2>1. v = k /\ v < 10
    BY <1>2, <1>4, <1>6
  <2>2. Decimal[v] = <<Base64[53 + v]>>
    BY <1>6, <2>1, DecimalAt
  <2> QED BY <1>2, <2>1, <2>2
<1> QED BY <1>1, <1>4, <1>5, <1>6 DEF IsNumeral

LEMMA OneMoreDigit ==
    ASSUME NEW y \in Seq(Digits), Len(y) >= 1, IsNumeral(y), NEW c \in Digits
    PROVE  IsNumeral(Append(y, c))
<1> DEFINE x == Append(y, c)
           n == Len(y)
           a == addDigits(y)[n]
           v == AddDigit(a, c)
           k == DigitValue(c)
<1>1. n \in Nat /\ n >= 1 /\ Len(x) = n + 1 /\ x[1] = y[1]
  BY AppendProperties, LenProperties
<1>2. addDigits(x)[n + 1] = v
  BY OneDigitMore
<1>3. /\ a \in Nat \cup {-1}
      /\ a \in 0..UINT32_MAX /\ y[1] # "0" => Decimal[a] = y /\ a >= 1
  BY DEF IsNumeral
<1>4. k \in 0..9 /\ Base64[53 + k] = c
  BY DigitOfValue
<1> HIDE DEF a
<1>5. v # -1 => a \in Nat /\ v = a * 10 + k /\ v \in Nat
  BY <1>3, AddedDigit
<1> HIDE DEF v, k, n
<1>6. ASSUME v \in 0..UINT32_MAX, x[1] = "0" => Len(x) = 1
      PROVE  Decimal[v] = x /\ v >= 1
  <2>1. y[1] # "0"
    BY <1>1, <1>6
  <2>2. a \in Nat /\ v = a * 10 + k /\ v \in Nat /\ v <= UINT32_MAX /\ UINT32_MAX \in Nat
    BY <1>5, <1>6, SizesAreNumbers
  <2>3. a \in 0..UINT32_MAX
    BY <1>4, <2>2
  <2>4. Decimal[a] = y /\ a >= 1
    BY <1>3, <2>1, <2>3
  <2>5. v >= 10 /\ ~ (v < 10) /\ v \div 10 = a /\ v % 10 = k
    BY <1>4, <2>2, <2>4
  <2>6. Decimal[v] = Append(Decimal[v \div 10], Base64[53 + (v % 10)])
    BY <1>6, <2>5, DecimalAt
  <2>7. Decimal[v] = Append(y, c)
    BY <1>4, <2>4, <2>5, <2>6
  <2>8. v >= 1
    BY <2>2, <2>5
  <2> QED BY <2>7, <2>8
<1>7. v \in Nat \cup {-1}
  BY <1>5
<1> HIDE DEF x
<1>8. addDigits(x)[Len(x)] = v
  BY <1>1, <1>2
<1>9. IsNumeral(x)
  BY <1>6, <1>7, <1>8 DEF IsNumeral
<1> QED BY <1>9 DEF x

LEMMA Numerals ==
    ASSUME NEW x \in Seq(Digits), Len(x) >= 1
    PROVE  IsNumeral(x)
<1> DEFINE T == {n \in Nat : \A s \in Seq(Digits) : Len(s) = n + 1 => IsNumeral(s)}
<1>1. 0 \in T
  <2> SUFFICES ASSUME NEW s \in Seq(Digits), Len(s) = 0 + 1 PROVE IsNumeral(s)
    OBVIOUS
  <2>1. /\ SubSeq(s, 1, 0) \in Seq(Digits) /\ Len(SubSeq(s, 1, 0)) = 0
        /\ s[0 + 1] \in Digits /\ s = Append(SubSeq(s, 1, 0), s[0 + 1])
    BY FrontAndLast
  <2>2. SubSeq(s, 1, 0) = <<>> /\ 0 + 1 = 1
    BY <2>1, EmptySeq
  <2>3. s = <<s[1]>> /\ s[1] \in Digits
    BY <2>1, <2>2
  <2> QED BY <2>3, OneDigit
<1>2. ASSUME NEW n \in Nat, n \in T PROVE n + 1 \in T
  <2> SUFFICES ASSUME NEW s \in Seq(Digits), Len(s) = (n + 1) + 1 PROVE IsNumeral(s)
    OBVIOUS
  <2> DEFINE m == n + 1
             y == SubSeq(s, 1, m)
             c == s[m + 1]
  <2>1. m \in Nat /\ Len(s) = m + 1 /\ m >= 1
    OBVIOUS
  <2> HIDE DEF m
  <2>2. y \in Seq(Digits) /\ Len(y) = m /\ c \in Digits /\ s = Append(y, c)
    BY <2>1, FrontAndLast
  <2> HIDE DEF y, c
  <2>3. IsNumeral(y)
    BY <1>2, <2>2 DEF m
  <2>4. IsNumeral(Append(y, c))
    BY <2>1, <2>2, <2>3, OneMoreDigit
  <2> QED BY <2>2, <2>4
<1>3. Nat \subseteq T
  <2> HIDE DEF T
  <2> QED BY <1>1, <1>2, AllNumbers
<1>4. Len(x) - 1 \in Nat /\ Len(x) = (Len(x) - 1) + 1
  BY LenProperties
<1> QED BY <1>3, <1>4

\* A number that decode_decimal reads was written as sprintf writes it.
LEMMA DecimalWritten ==
    ASSUME NEW S, NEW str \in Seq(S), NEW d, d = decode_decimal(str),
           ~ d.null, d.v \in 0..UINT32_MAX
    PROVE  /\ d.str \in Seq(S) /\ Decimal[d.v] \in Seq(S)
           /\ str = Decimal[d.v] \o d.str
<1> DEFINE n == Span(str, Digits)
           x == SubSeq(str, 1, n)
           v == addDigits(x)[n]
<1>1. /\ d.null = (v = -1 \/ n = 0 \/ (str[1] = "0" /\ n # 1))
      /\ d.v = v /\ d.str = Rest(str, n)
  BY DEF decode_decimal
<1>2. n \in 0..Len(str) /\ \A i \in 1..n : str[i] \in Digits
  BY SpanFacts
<1> HIDE DEF n
<1>3. x \in Seq(S) /\ d.str \in Seq(S) /\ str = x \o d.str
  BY <1>1, <1>2, CutInTwo
<1>4. Len(x) = n /\ \A i \in 1..n : x[i] = str[i]
  BY <1>2, FirstFacts
<1> HIDE DEF x
<1>5. n \in Nat /\ n # 0 /\ (str[1] = "0" => n = 1) /\ v \in 0..UINT32_MAX
  <2>1. ~ (v = -1 \/ n = 0 \/ (str[1] = "0" /\ n # 1)) /\ v \in 0..UINT32_MAX
    BY <1>1, Zenon
  <2>2. n \in Nat
    BY <1>2, LenProperties
  <2> HIDE DEF v
  <2> QED BY <2>1, <2>2
<1>6. x \in Seq(Digits)
  BY <1>2, <1>3, <1>4, <1>5
<1>7. x[1] = str[1]
  BY <1>4, <1>5
<1>8. IsNumeral(x)
  BY <1>4, <1>5, <1>6, Numerals
<1>9. addDigits(x)[Len(x)] = v
  BY <1>4
<1> HIDE DEF v
<1>10. Decimal[v] = x
  BY <1>4, <1>5, <1>7, <1>8, <1>9 DEF IsNumeral
<1> QED BY <1>1, <1>3, <1>10

-----------------------------------------------------------------------------
(* Base64 that was read is what to_base64 writes of the bytes.               *)

LEMMA SameBytes ==
    ASSUME NEW s, NEW t, NEW n \in Nat, NEW m \in Nat, n <= m, NEW g, NEW h,
           InBytes(g, s, n), InBytes(h, t, m), \A i \in 1..n : s[i] = t[i]
    PROVE  g[n] = h[n]
<1> DEFINE T == {j \in Nat : j <= n => g[j] = h[j]}
<1>1. 0 \in T
  BY DEF InBytes
<1>2. ASSUME NEW j \in Nat, j \in T PROVE j + 1 \in T
  <2> SUFFICES ASSUME j + 1 <= n PROVE g[j + 1] = h[j + 1]
    OBVIOUS
  <2>1. j + 1 \in 0..n /\ j + 1 \in 0..m /\ j + 1 \in 1..n /\ j + 1 # 0 /\ (j + 1) - 1 = j
    OBVIOUS
  <2>2. g[j] = h[j] /\ s[j + 1] = t[j + 1]
    BY <1>2, <2>1
  <2>3. g[j + 1] = PutByte(g[j], s[j + 1])
    BY <2>1 DEF InBytes
  <2>4. h[j + 1] = PutByte(h[j], t[j + 1])
    BY <2>1 DEF InBytes
  <2> QED BY <2>2, <2>3, <2>4
<1>3. Nat \subseteq T
  <2> HIDE DEF T
  <2> QED BY <1>1, <1>2, AllNumbers
<1> QED BY <1>3

\* What the encoder holds after all of these bytes.
Held(src) == putBytes(src)[Len(src)]

LEMMA OneByteHeld ==
    ASSUME NEW s, IsBytes(s), NEW y, IsByte(y)
    PROVE  Held(Append(s, y)) = PutByte(Held(s), y)
<1> DEFINE t == Append(s, y)
           n == Len(s)
           m == n + 1
           g == putBytes(s)
           h == putBytes(t)
<1>1. n \in Nat /\ m \in Nat /\ Len(t) = m /\ t[m] = y /\ \A i \in 1..n : s[i] = t[i]
  <2>1. s \in Seq(Int) /\ y \in Int
    BY DEF IsBytes, IsByte
  <2> QED BY <2>1, LenProperties, AppendProperties
<1> HIDE DEF t, n
<1>2. InBytes(g, s, n) /\ InBytes(h, t, m)
  BY <1>1, putBytesFacts DEF n
<1> HIDE DEF g, h
<1>3. g[n] = h[n]
  BY <1>1, <1>2, SameBytes
<1>4. m \in 0..m /\ m # 0 /\ m - 1 = n
  BY <1>1
<1> HIDE DEF m
<1>5. h[m] = PutByte(h[n], t[m])
  BY <1>2, <1>4 DEF InBytes
<1>6. h[m] = PutByte(g[n], y)
  BY <1>1, <1>3, <1>5
<1> QED BY <1>1, <1>6 DEF t, n, g, h, Held

LEMMA NothingHeld ==
    /\ Held(<<>>).acc = 0 /\ Held(<<>>).acc_len = 0 /\ Held(<<>>).out = <<>>
<1>1. Len(<<>>) = 0 /\ 0 \in Nat
  OBVIOUS
<1>2. InBytes(putBytes(<<>>), <<>>, 0)
  BY <1>1, putBytesFacts
<1>3. putBytes(<<>>)[0] = [acc |-> 0, acc_len |-> 0, out |-> <<>>]
  BY <1>2 DEF InBytes
<1>4. Held(<<>>) = [acc |-> 0, acc_len |-> 0, out |-> <<>>]
  BY <1>1, <1>3 DEF Held
<1> QED BY <1>4

LEMMA HeldHolds ==
    ASSUME NEW s, IsBytes(s)
    PROVE  /\ Holds(Held(s), Len(s))
           /\ Held(s).acc \in Nat /\ Held(s).acc_len \in {0, 2, 4}
           /\ Held(s).out \in Seq(Base64Chars)
<1>1. Len(s) \in Nat
  BY LenProperties DEF IsBytes
<1>2. Holds(Held(s), Len(s))
  BY <1>1, putBytesHolds DEF IsBytes, Held
<1> QED BY <1>2 DEF Holds

\* What the encoder still holds of p bytes: the bits that belong to the last
\* character read, of which the decoder holds the others.
Waiting(d, e, s) ==
    LET y == e.acc % 256 IN
    \/ d.acc_len = 0 /\ e.acc_len = 0 /\ s = e.out
    \/ d.acc_len = 6 /\ e.acc_len = 0 /\ s = Append(e.out, b64_byte_to_char(d.acc % 64))
    \/ d.acc_len = 4 /\ e.acc_len = 2
          /\ s = Append(e.out, b64_byte_to_char((y % 4) * 16 + (d.acc % 16)))
    \/ d.acc_len = 2 /\ e.acc_len = 4
          /\ s = Append(e.out, b64_byte_to_char((y % 16) * 4 + (d.acc % 4)))

\* The decoder after the characters s, and the encoder after its bytes.
Matched(d, n, s) ==
    \/ d.full
    \/ Decoder(d, n, d.acc_len, d.buf) /\ IsBytes(d.buf) /\ Waiting(d, Held(d.buf), s)

LEMMA CharOfValue ==
    ASSUME NEW c \in Base64Chars
    PROVE  /\ b64_char_to_byte[c] \in Nat /\ b64_char_to_byte[c] < 64
           /\ c = b64_byte_to_char(b64_char_to_byte[c])
<1>1. PICK i \in 1..64 : c = Base64[i]
  BY Base64Facts DEF Base64Chars
<1>2. b64_char_to_byte[c] = i - 1
  BY <1>1, CharToByte
<1>3. i - 1 \in Nat /\ i - 1 < 64 /\ (i - 1) + 1 = i
  OBVIOUS
<1> QED BY <1>1, <1>2, <1>3 DEF b64_byte_to_char

\* A byte made of the bits that wait and those of the next character.
LEMMA ByteOfTwo ==
    ASSUME NEW u \in Nat, NEW v \in Nat, v < 64
    PROVE  /\ u < 64 => \E y, z : z \in Nat /\ IsByte(y) /\ y \div 4 = u 
                                         /\ (y % 4) * 16 + z = v /\ z < 16
           /\ u < 16 => \E y, z : z \in Nat /\ IsByte(y) /\ y \div 16 = u
                                         /\ (y % 16) * 4 + z = v /\ z < 4
           /\ u < 4  => \E y : IsByte(y) /\ y \div 64 = u /\ y % 64 = v
<1>1. ASSUME u < 64
      PROVE  \E y, z : z \in Nat /\ IsByte(y) /\ y \div 4 = u /\ (y % 4) * 16 + z = v /\ z < 16
  <2>1. PICK a \in Nat, z \in Nat : a < 4 /\ z < 16 /\ a * 16 + z = v
    <3> DEFINE a == v \div 16
               z == v % 16
    <3>1. a \in Nat /\ a < 4 /\ z \in Nat /\ z < 16 /\ a * 16 + z = v
      OBVIOUS
    <3> HIDE DEF a, z
    <3> QED BY <3>1
  <2>2. PICK y \in Nat : y = u * 4 + a
    OBVIOUS
  <2>3. y < 256 /\ y \div 4 = u /\ y % 4 = a
    BY <1>1, <2>1, <2>2
  <2>4. z \in Nat /\ IsByte(y) /\ y \div 4 = u /\ (y % 4) * 16 + z = v /\ z < 16
    BY <2>1, <2>3 DEF IsByte
  <2> QED BY <2>4, Zenon
<1>2. ASSUME u < 16
      PROVE  \E y, z : z \in Nat /\ IsByte(y) /\ y \div 16 = u /\ (y % 16) * 4 + z = v /\ z < 4
  <2>1. PICK a \in Nat, z \in Nat : a < 16 /\ z < 4 /\ a * 4 + z = v
    <3> DEFINE a == v \div 4
               z == v % 4
    <3>1. a \in Nat /\ a < 16 /\ z \in Nat /\ z < 4 /\ a * 4 + z = v
      OBVIOUS
    <3> HIDE DEF a, z
    <3> QED BY <3>1
  <2>2. PICK y \in Nat : y = u * 16 + a
    OBVIOUS
  <2>3. y < 256 /\ y \div 16 = u /\ y % 16 = a
    BY <1>2, <2>1, <2>2
  <2>4. z \in Nat /\ IsByte(y) /\ y \div 16 = u /\ (y % 16) * 4 + z = v /\ z < 4
    BY <2>1, <2>3 DEF IsByte
  <2> QED BY <2>4, Zenon
<1>3. ASSUME u < 4
      PROVE  \E y : IsByte(y) /\ y \div 64 = u /\ y % 64 = v
  <2>1. PICK y \in Nat : y = u * 64 + v
    OBVIOUS
  <2>2. IsByte(y) /\ y \div 64 = u /\ y % 64 = v
    BY <1>3, <2>1 DEF IsByte
  <2> QED BY <2>2, Zenon
<1> QED BY <1>1, <1>2, <1>3

\* The next byte of the encoder, in terms of the byte before.
LEMMA NextPut0 ==
    ASSUME NEW i, NEW e, Holds(e, i), e.acc_len = 0, NEW x, IsByte(x), NEW r, r = PutByte(e, x)
    PROVE  r.acc % 256 = x /\ r.acc_len = 2 /\ r.out = Append(e.out, b64_byte_to_char(x \div 4))
<1> DEFINE acc == Shifted(e.acc, x)
           y == e.acc % 256
           o == Append(e.out, b64_byte_to_char(x \div 4))
<1>1. acc \in Nat /\ acc % 256 = x /\ (acc \div 4) % 64 = x \div 4
  BY WrittenByte
<1>2. r = [acc |-> acc, acc_len |-> 2, out |-> Append(e.out, b64_byte_to_char((acc \div 4) % 64))]
  BY ZenonT(30), PutByteCases
<1>3. r = [acc |-> acc, acc_len |-> 2, out |-> o]
  BY <1>1, <1>2
<1> HIDE DEF acc, o
<1>4. r.acc = acc /\ r.acc_len = 2 /\ r.out = o
  BY <1>3
<1> QED BY <1>1, <1>4 DEF o

LEMMA NextPut2 ==
    ASSUME NEW i, NEW e, Holds(e, i), e.acc_len = 2, NEW x, IsByte(x), NEW r, r = PutByte(e, x),
           NEW y, y = e.acc % 256
    PROVE  /\ r.acc % 256 = x /\ r.acc_len = 4
           /\ r.out = Append(e.out, b64_byte_to_char((y % 4) * 16 + x \div 16))
<1> DEFINE acc == Shifted(e.acc, x)
           o == Append(e.out, b64_byte_to_char((y % 4) * 16 + x \div 16))
<1>1. acc \in Nat /\ acc % 256 = x /\ (acc \div 16) % 64 = (y % 4) * 16 + x \div 16
  BY WrittenByte
<1>2. r = [acc |-> acc, acc_len |-> 4, out |-> Append(e.out, b64_byte_to_char((acc \div 16) % 64))]
  BY PutByteCases
<1>3. r = [acc |-> acc, acc_len |-> 4, out |-> o]
  BY <1>1, <1>2
<1> HIDE DEF acc, o
<1>4. r.acc = acc /\ r.acc_len = 4 /\ r.out = o
  BY <1>3
<1> QED BY <1>1, <1>4 DEF o

LEMMA NextPut4 ==
    ASSUME NEW i, NEW e, Holds(e, i), e.acc_len = 4, NEW x, IsByte(x), NEW r, r = PutByte(e, x),
           NEW y, y = e.acc % 256, NEW c, c = b64_byte_to_char((y % 16) * 4 + x \div 64),
           NEW l, l = b64_byte_to_char(x % 64)
    PROVE  r.acc_len = 0 /\ r.out = Append(Append(e.out, c), l)
<1> DEFINE acc == Shifted(e.acc, x)
           a == b64_byte_to_char((acc \div 64) % 64)
           b == b64_byte_to_char((acc \div 1) % 64)
           o == e.out \o <<a, b>>
<1>1. (acc \div 64) % 64 = (y % 16) * 4 + x \div 64 /\ (acc \div 1) % 64 = x % 64
  BY WrittenByte
<1>2. r = [acc |-> acc, acc_len |-> 0, out |-> o]
  BY SMTT(30), PutByteCases
<1>3. a = c /\ b = l
  BY <1>1
<1> HIDE DEF acc, a, b
<1>4. o = Append(Append(e.out, c), l)
  <2>1. e.out \in Seq(Base64Chars)
    BY DEF Holds
  <2>2. o = Append(Append(e.out, a), b)
    BY SMTT(30), <2>1
  <2> HIDE DEF o
  <2> QED BY <1>3, <2>2
<1> HIDE DEF o
<1>5. r.acc_len = 0 /\ r.out = o
  BY <1>2
<1> QED BY <1>4, <1>5

\* There is no room, or there is.
LEMMA NoRoom ==
    ASSUME NEW d, NEW n, NEW len \in {2, 4, 6}, Decoder(d, n, len, d.buf), IsBytes(d.buf), n \in Nat,
           NEW c, ~ (Len(d.buf) < n)
    PROVE  GetChar(d, c).full
<1>1. Len(d.buf) >= d.dst_len
  <2>1. Len(d.buf) \in Nat /\ d.dst_len = n
    BY LenProperties DEF IsBytes, Decoder
  <2> QED BY <2>1
<1>2. GetChar(d, c) = [d EXCEPT !.full = TRUE]
  BY <1>1, GetCharCases DEF Decoder
<1> QED BY <1>2 DEF Decoder

LEMMA OneByteMoreIsBytes ==
    ASSUME NEW s, IsBytes(s), NEW y, IsByte(y)
    PROVE  IsBytes(Append(s, y))
<1>1. s \in Seq(Int) /\ y \in Int /\ Len(s) \in Nat
  BY LenProperties DEF IsBytes, IsByte
<1> DEFINE t == Append(s, y)
           m == Len(s) + 1
<1>2. t \in Seq(Int) /\ Len(t) = m /\ t[m] = y /\ \A i \in 1..Len(s) : t[i] = s[i]
  BY <1>1, AppendProperties
<1> HIDE DEF t
<1>3. ASSUME NEW i \in 1..Len(t) PROVE IsByte(t[i])
  <2>1. i = m \/ i \in 1..Len(s)
    BY <1>1, <1>2
  <2> QED BY <1>2, <2>1 DEF IsBytes
<1>4. IsBytes(t)
  BY <1>2, <1>3 DEF IsBytes
<1> QED BY <1>4 DEF t

LEMMA WaitingCases ==
    ASSUME NEW d, NEW e, NEW s, Waiting(d, e, s), NEW q, q = e.acc % 256
    PROVE  /\ d.acc_len \in {0, 2, 4, 6}
           /\ d.acc_len = 0 => e.acc_len = 0 /\ s = e.out
           /\ d.acc_len = 6 => e.acc_len = 0 /\ s = Append(e.out, b64_byte_to_char(d.acc % 64))
           /\ d.acc_len = 4 => e.acc_len = 2
                 /\ s = Append(e.out, b64_byte_to_char((q % 4) * 16 + (d.acc % 16)))
           /\ d.acc_len = 2 => e.acc_len = 4
                 /\ s = Append(e.out, b64_byte_to_char((q % 16) * 4 + (d.acc % 4)))
<1> DEFINE s6 == Append(e.out, b64_byte_to_char(d.acc % 64))
           s4 == Append(e.out, b64_byte_to_char((q % 4) * 16 + (d.acc % 16)))
           s2 == Append(e.out, b64_byte_to_char((q % 16) * 4 + (d.acc % 4)))
<1>1. \/ d.acc_len = 0 /\ e.acc_len = 0 /\ s = e.out
      \/ d.acc_len = 6 /\ e.acc_len = 0 /\ s = s6
      \/ d.acc_len = 4 /\ e.acc_len = 2 /\ s = s4
      \/ d.acc_len = 2 /\ e.acc_len = 4 /\ s = s2
  BY Zenon DEF Waiting
<1> HIDE DEF s6, s4, s2
<1>2. /\ d.acc_len \in {0, 2, 4, 6}
      /\ d.acc_len = 0 => e.acc_len = 0 /\ s = e.out
      /\ d.acc_len = 6 => e.acc_len = 0 /\ s = s6
      /\ d.acc_len = 4 => e.acc_len = 2 /\ s = s4
      /\ d.acc_len = 2 => e.acc_len = 4 /\ s = s2
  BY <1>1
<1> QED BY <1>2 DEF s6, s4, s2

LEMMA Matched0 ==
    ASSUME NEW d, NEW n \in Nat, NEW s, NEW c \in Base64Chars,
           Decoder(d, n, 0, d.buf), IsBytes(d.buf), Waiting(d, Held(d.buf), s)
    PROVE  Matched(GetChar(d, c), n, Append(s, c))
<1> DEFINE v == b64_char_to_byte[c]
           e == Held(d.buf)
           r == GetChar(d, b64_byte_to_char(v))
<1>1. v \in Nat /\ v < 64 /\ c = b64_byte_to_char(v)
  BY CharOfValue
<1> HIDE DEF v
<1>2. d.acc_len = 0 /\ e.acc_len = 0 /\ s = e.out
  BY DEF Waiting, Decoder
<1>3. Decoder(r, n, 6, d.buf) /\ r.acc % 64 = v
  BY <1>1, CharDecodes0
<1> HIDE DEF r
<1>4. r.acc_len = 6 /\ r.buf = d.buf /\ Decoder(r, n, r.acc_len, r.buf)
  BY <1>3 DEF Decoder
<1>5. Append(s, c) = Append(e.out, b64_byte_to_char(r.acc % 64))
  BY <1>1, <1>2, <1>3
<1>6. Waiting(r, Held(r.buf), Append(s, c))
  BY <1>2, <1>4, <1>5 DEF Waiting
<1>7. Matched(r, n, Append(s, c))
  BY <1>4, <1>6 DEF Matched
<1> QED BY <1>1, <1>7 DEF r

LEMMA Matched6 ==
    ASSUME NEW d, NEW n \in Nat, NEW s, NEW c \in Base64Chars,
           Decoder(d, n, 6, d.buf), IsBytes(d.buf), Waiting(d, Held(d.buf), s)
    PROVE  Matched(GetChar(d, c), n, Append(s, c))
<1>0. CASE ~ (Len(d.buf) < n)
  BY <1>0, NoRoom DEF Matched
<1>a. CASE Len(d.buf) < n
  <2> DEFINE v == b64_char_to_byte[c]
             u == d.acc % 64
             e == Held(d.buf)
             q == e.acc % 256
  <2>1. v \in Nat /\ v < 64 /\ c = b64_byte_to_char(v)
    BY CharOfValue
  <2>2. u \in Nat /\ u < 64
    BY DEF Decoder
  <2>3. d.acc_len = 6 /\ Waiting(d, e, s)
    BY DEF Decoder
  <2> HIDE DEF v, e
  <2>4. e.acc_len = 0 /\ s = Append(e.out, b64_byte_to_char(d.acc % 64))
    BY <2>3, WaitingCases
  <2> HIDE DEF u
  <2>5. PICK y, z : z \in Nat /\ IsByte(y) /\ y \div 4 = u /\ (y % 4) * 16 + z = v /\ z < 16
    BY <2>1, <2>2, ByteOfTwo
  <2> DEFINE r == GetChar(d, b64_byte_to_char((y % 4) * 16 + z))
             f == Held(Append(d.buf, y))
  <2>6. Len(d.buf) \in Nat
    BY LenProperties DEF IsBytes
  <2>7. d.acc % 64 = y \div 4
    BY <2>5 DEF u
  <2>8. Decoder(r, n, 4, Append(d.buf, y)) /\ r.acc % 16 = z
    BY <1>a, <2>5, <2>6, <2>7, CharDecodes6
  <2>9. r = GetChar(d, c)
    BY <2>1, <2>5
  <2> HIDE DEF r
  <2>10. Holds(e, Len(d.buf)) /\ e.out \in Seq(Base64Chars)
    BY HeldHolds DEF e
  <2>11. f = PutByte(e, y)
    BY <2>5, OneByteHeld DEF e
  <2> HIDE DEF f, q
  <2>12. f.acc % 256 = y /\ f.acc_len = 2 /\ f.out = Append(e.out, b64_byte_to_char(y \div 4))
    BY SMTT(30), <2>4, <2>5, <2>10, <2>11, NextPut0 DEF q
  <2>13. f.out = s
    BY <2>4, <2>5, <2>12 DEF u
  <2>14. r.acc_len = 4 /\ r.buf = Append(d.buf, y) /\ Decoder(r, n, r.acc_len, r.buf)
    BY <2>8 DEF Decoder
  <2>15. Append(s, c) = Append(f.out, b64_byte_to_char(((f.acc % 256) % 4) * 16 + (r.acc % 16)))
    <3>1. ((f.acc % 256) % 4) * 16 + (r.acc % 16) = v
      BY <2>5, <2>8, <2>12
    <3> QED BY <2>1, <2>13, <3>1
  <2>16. Waiting(r, f, Append(s, c))
    BY <2>12, <2>14, <2>15, Zenon DEF Waiting
  <2>17. IsBytes(r.buf) /\ f = Held(r.buf)
    BY <2>5, <2>14, OneByteMoreIsBytes DEF f
  <2>18. Matched(r, n, Append(s, c))
    BY <2>14, <2>16, <2>17 DEF Matched
  <2> QED BY <2>9, <2>18
<1> QED BY <1>0, <1>a

LEMMA Matched4 ==
    ASSUME NEW d, NEW n \in Nat, NEW s, NEW c \in Base64Chars,
           Decoder(d, n, 4, d.buf), IsBytes(d.buf), Waiting(d, Held(d.buf), s)
    PROVE  Matched(GetChar(d, c), n, Append(s, c))
<1>0. CASE ~ (Len(d.buf) < n)
  BY <1>0, NoRoom DEF Matched
<1>a. CASE Len(d.buf) < n
  <2> DEFINE v == b64_char_to_byte[c]
             u == d.acc % 16
             e == Held(d.buf)
             q == e.acc % 256
  <2>1. v \in Nat /\ v < 64 /\ c = b64_byte_to_char(v)
    BY CharOfValue
  <2>2. u \in Nat /\ u < 16
    BY DEF Decoder
  <2>3. d.acc_len = 4 /\ Waiting(d, e, s)
    BY DEF Decoder
  <2> HIDE DEF v, e
  <2>4. e.acc_len = 2 /\ s = Append(e.out, b64_byte_to_char((q % 4) * 16 + (d.acc % 16)))
    BY <2>3, WaitingCases
  <2> HIDE DEF u
  <2>5. PICK y, z : z \in Nat /\ IsByte(y) /\ y \div 16 = u /\ (y % 16) * 4 + z = v /\ z < 4
    BY <2>1, <2>2, ByteOfTwo
  <2> DEFINE r == GetChar(d, b64_byte_to_char((y % 16) * 4 + z))
             f == Held(Append(d.buf, y))
  <2>6. Len(d.buf) \in Nat
    BY LenProperties DEF IsBytes
  <2>7. d.acc % 16 = y \div 16
    BY <2>5 DEF u
  <2>8. Decoder(r, n, 2, Append(d.buf, y)) /\ r.acc % 4 = z
    BY <1>a, <2>5, <2>6, <2>7, CharDecodes4
  <2>9. r = GetChar(d, c)
    BY <2>1, <2>5
  <2> HIDE DEF r
  <2>10. Holds(e, Len(d.buf)) /\ e.out \in Seq(Base64Chars)
    BY HeldHolds DEF e
  <2>11. f = PutByte(e, y)
    BY <2>5, OneByteHeld DEF e
  <2> HIDE DEF f, q
  <2>12. f.acc % 256 = y /\ f.acc_len = 4 /\ f.out = Append(e.out, b64_byte_to_char((q % 4) * 16 + y \div 16))
    BY <2>4, <2>5, <2>10, <2>11, NextPut2 DEF q
  <2>13. f.out = s
    BY <2>4, <2>5, <2>12 DEF u
  <2>14. r.acc_len = 2 /\ r.buf = Append(d.buf, y) /\ Decoder(r, n, r.acc_len, r.buf)
    BY <2>8 DEF Decoder
  <2>15. Append(s, c) = Append(f.out, b64_byte_to_char(((f.acc % 256) % 16) * 4 + (r.acc % 4)))
    <3>1. ((f.acc % 256) % 16) * 4 + (r.acc % 4) = v
      BY <2>5, <2>8, <2>12
    <3> QED BY <2>1, <2>13, <3>1
  <2>16. Waiting(r, f, Append(s, c))
    BY <2>12, <2>14, <2>15, Zenon DEF Waiting
  <2>17. IsBytes(r.buf) /\ f = Held(r.buf)
    BY <2>5, <2>14, OneByteMoreIsBytes DEF f
  <2>18. Matched(r, n, Append(s, c))
    BY <2>14, <2>16, <2>17 DEF Matched
  <2> QED BY <2>9, <2>18
<1> QED BY <1>0, <1>a

LEMMA Matched2 ==
    ASSUME NEW d, NEW n \in Nat, NEW s, NEW c \in Base64Chars,
           Decoder(d, n, 2, d.buf), IsBytes(d.buf), Waiting(d, Held(d.buf), s)
    PROVE  Matched(GetChar(d, c), n, Append(s, c))
<1>0. CASE ~ (Len(d.buf) < n)
  BY <1>0, NoRoom DEF Matched
<1>a. CASE Len(d.buf) < n
  <2> DEFINE v == b64_char_to_byte[c]
             u == d.acc % 4
             e == Held(d.buf)
             q == e.acc % 256
  <2>1. v \in Nat /\ v < 64 /\ c = b64_byte_to_char(v)
    BY CharOfValue
  <2>2. u \in Nat /\ u < 4
    BY DEF Decoder
  <2>3. d.acc_len = 2 /\ Waiting(d, e, s)
    BY DEF Decoder
  <2> HIDE DEF v, e
  <2>4. e.acc_len = 4 /\ s = Append(e.out, b64_byte_to_char((q % 16) * 4 + (d.acc % 4)))
    BY <2>3, WaitingCases
  <2> HIDE DEF u
  <2>5. PICK y : IsByte(y) /\ y \div 64 = u /\ y % 64 = v
    BY <2>1, <2>2, ByteOfTwo
  <2> DEFINE r == GetChar(d, b64_byte_to_char(y % 64))
             f == Held(Append(d.buf, y))
  <2>6. Len(d.buf) \in Nat
    BY LenProperties DEF IsBytes
  <2>7. d.acc % 4 = y \div 64
    BY <2>5 DEF u
  <2>8. Decoder(r, n, 0, Append(d.buf, y))
    BY <1>a, <2>5, <2>6, <2>7, CharDecodes2
  <2>9. r = GetChar(d, c)
    BY <2>1, <2>5
  <2> HIDE DEF r
  <2>10. Holds(e, Len(d.buf)) /\ e.out \in Seq(Base64Chars)
    BY HeldHolds DEF e
  <2>11. f = PutByte(e, y)
    BY <2>5, OneByteHeld DEF e
  <2> HIDE DEF f, q
  <2>12. PICK a, b : /\ a = b64_byte_to_char((q % 16) * 4 + y \div 64) /\ b = b64_byte_to_char(y % 64)
                     /\ f.acc_len = 0 /\ f.out = Append(Append(e.out, a), b)
    <3> DEFINE a == b64_byte_to_char((q % 16) * 4 + y \div 64)
               b == b64_byte_to_char(y % 64)
    <3>1. a = b64_byte_to_char((q % 16) * 4 + y \div 64) /\ b = b64_byte_to_char(y % 64)
      OBVIOUS
    <3> HIDE DEF a, b
    <3>2. f.acc_len = 0 /\ f.out = Append(Append(e.out, a), b)
      BY SMTT(30), <2>4, <2>5, <2>10, <2>11, <3>1, NextPut4 DEF q
    <3> QED BY <3>1, <3>2
  <2>13. s = Append(e.out, a) /\ b = c
    BY <2>1, <2>4, <2>5, <2>7, <2>12
  <2>14. r.acc_len = 0 /\ r.buf = Append(d.buf, y) /\ Decoder(r, n, r.acc_len, r.buf)
    BY <2>8 DEF Decoder
  <2>15. Append(s, c) = f.out
    BY <2>12, <2>13
  <2>16. Waiting(r, f, Append(s, c))
    BY <2>12, <2>14, <2>15 DEF Waiting
  <2>17. IsBytes(r.buf) /\ f = Held(r.buf)
    BY <2>5, <2>14, OneByteMoreIsBytes DEF f
  <2>18. Matched(r, n, Append(s, c))
    BY <2>14, <2>16, <2>17 DEF Matched
  <2> QED BY <2>9, <2>18
<1> QED BY <1>0, <1>a

LEMMA MatchedNext ==
    ASSUME NEW d, NEW n \in Nat, NEW s, NEW c \in Base64Chars, Matched(d, n, s)
    PROVE  Matched(GetChar(d, c), n, Append(s, c))
<1>1. CASE d.full
  <2>1. GetChar(d, c) = d
    BY <1>1, GetCharCases
  <2> QED BY <1>1, <2>1 DEF Matched
<1>2. CASE ~ d.full
  <2>1. Decoder(d, n, d.acc_len, d.buf) /\ IsBytes(d.buf) /\ Waiting(d, Held(d.buf), s)
    BY <1>2 DEF Matched
  <2>2. d.acc_len \in {0, 2, 4, 6}
    BY <2>1 DEF Waiting
  <2>3. CASE d.acc_len = 0
    BY <2>1, <2>3, Matched0
  <2>4. CASE d.acc_len = 6
    BY <2>1, <2>4, Matched6
  <2>5. CASE d.acc_len = 4
    BY <2>1, <2>5, Matched4
  <2>6. CASE d.acc_len = 2
    BY <2>1, <2>6, Matched2
  <2> QED BY <2>2, <2>3, <2>4, <2>5, <2>6
<1> QED BY <1>1, <1>2

LEMMA AllMatched ==
    ASSUME NEW n \in Nat, NEW s \in Seq(Base64Chars)
    PROVE  Matched(After(n, s), n, s)
<1> DEFINE T == {k \in Nat : \A t \in Seq(Base64Chars) : Len(t) = k => Matched(After(n, t), n, t)}
<1>1. 0 \in T
  <2> SUFFICES ASSUME NEW t \in Seq(Base64Chars), Len(t) = 0 PROVE Matched(After(n, t), n, t)
    OBVIOUS
  <2>1. t = <<>>
    BY EmptySeq
  <2> DEFINE d == After(n, <<>>)
  <2>2. Decoder(d, n, 0, <<>>)
    BY NoChar
  <2> HIDE DEF d
  <2>3. d.acc_len = 0 /\ d.buf = <<>> /\ Decoder(d, n, d.acc_len, d.buf)
    BY <2>2 DEF Decoder
  <2>4. IsBytes(<<>>)
    BY DEF IsBytes
  <2>5. Waiting(d, Held(<<>>), <<>>)
    BY <2>3, NothingHeld DEF Waiting
  <2>6. Matched(d, n, <<>>)
    BY <2>3, <2>4, <2>5 DEF Matched
  <2> QED BY <2>1, <2>6 DEF d
<1>2. ASSUME NEW k \in Nat, k \in T PROVE k + 1 \in T
  <2> SUFFICES ASSUME NEW t \in Seq(Base64Chars), Len(t) = k + 1 PROVE Matched(After(n, t), n, t)
    OBVIOUS
  <2> DEFINE y == SubSeq(t, 1, k)
             c == t[k + 1]
  <2>1. y \in Seq(Base64Chars) /\ Len(y) = k /\ c \in Base64Chars /\ t = Append(y, c)
    BY FrontAndLast
  <2> HIDE DEF y, c
  <2>2. Matched(After(n, y), n, y)
    BY <1>2, <2>1
  <2>3. Matched(GetChar(After(n, y), c), n, Append(y, c))
    BY <2>1, <2>2, MatchedNext
  <2>4. After(n, Append(y, c)) = GetChar(After(n, y), c)
    BY <2>1, OneCharMore
  <2> QED BY <2>1, <2>3, <2>4
<1>3. Nat \subseteq T
  <2> HIDE DEF T
  <2> QED BY <1>1, <1>2, AllNumbers
<1> QED BY <1>3, LenProperties

LEMMA LastBits ==
    ASSUME NEW a \in Nat
    PROVE  /\ ((a % 256) % 4) * 16 = (a * 16) % 64
           /\ ((a % 256) % 16) * 4 = (a * 4) % 64
<1>1. (a % 256) % 4 = a % 4
  OBVIOUS
<1>2. (a % 256) % 16 = a % 16
  OBVIOUS
<1>3. (a * 16) % 64 = (a % 4) * 16
  OBVIOUS
<1>4. (a * 4) % 64 = (a % 16) * 4
  OBVIOUS
<1> QED BY <1>1, <1>2, <1>3, <1>4

\* Characters that are read as bytes, with nothing left, are their base64.
LEMMA Base64Written ==
    ASSUME NEW n \in Nat, NEW s \in Seq(Base64Chars), NEW d, d = After(n, s),
           ~ d.full, ~ leftover(d)
    PROVE  IsBytes(d.buf) /\ to_base64(d.buf) = s
<1> DEFINE e == Held(d.buf)
           q == e.acc % 256
<1>1. Decoder(d, n, d.acc_len, d.buf) /\ IsBytes(d.buf) /\ Waiting(d, Held(d.buf), s)
  BY AllMatched DEF Matched
<1>2. e.acc \in Nat /\ e.acc_len \in {0, 2, 4}
  BY <1>1, HeldHolds
<1>3. d.acc \in Nat
  BY <1>1 DEF Decoder
<1>4. /\ to_base64(d.buf) = IF e.acc_len = 0 THEN e.out
                            ELSE Append(e.out, b64_byte_to_char((e.acc * 2^(6 - e.acc_len)) % 64))
  BY DEF to_base64, Held
<1>5. ~ (d.acc_len > 4) /\ d.acc % 2^d.acc_len = 0
  BY DEF leftover
<1>6. Waiting(d, e, s)
  BY <1>1
<1> HIDE DEF e
<1>7. CASE d.acc_len = 0
  <2>1. e.acc_len = 0 /\ s = e.out
    BY <1>6, <1>7, WaitingCases
  <2> QED BY <1>1, <1>4, <2>1
<1>8. CASE d.acc_len = 6
  BY <1>5, <1>8
<1>9. CASE d.acc_len = 4
  <2>1. e.acc_len = 2 /\ s = Append(e.out, b64_byte_to_char((q % 4) * 16 + (d.acc % 16)))
    BY <1>6, <1>9, WaitingCases
  <2>2. d.acc % 16 = 0
    BY <1>5, <1>9, Powers
  <2>3. 2^(6 - e.acc_len) = 16
    <3> DEFINE k == 6 - e.acc_len
    <3>1. k = 4
      BY <2>1
    <3> HIDE DEF k
    <3>2. 2^k = 16
      BY <3>1, Powers
    <3> QED BY <3>2 DEF k
  <2>4. (q % 4) * 16 + (d.acc % 16) = (e.acc * 16) % 64
    <3> DEFINE k == (e.acc * 16) % 64
    <3>1. (q % 4) * 16 = k /\ k \in Nat
      <4>1. ((e.acc % 256) % 4) * 16 = (e.acc * 16) % 64
        BY <1>2, LastBits, Zenon
      <4>2. (e.acc * 16) % 64 \in Nat
        BY <1>2
      <4> QED BY <4>1, <4>2, Zenon
    <3> HIDE DEF q, k
    <3>2. k + (d.acc % 16) = k
      BY <2>2, <3>1
    <3> QED BY <3>1, <3>2 DEF k
  <2> HIDE DEF q
  <2>5. to_base64(d.buf) = Append(e.out, b64_byte_to_char((e.acc * 16) % 64))
    BY <1>4, <2>1, <2>3
  <2> QED BY <1>1, <2>1, <2>4, <2>5
<1>10. CASE d.acc_len = 2
  <2>1. e.acc_len = 4 /\ s = Append(e.out, b64_byte_to_char((q % 16) * 4 + (d.acc % 4)))
    BY <1>6, <1>10, WaitingCases
  <2>2. d.acc % 4 = 0
    BY <1>5, <1>10, Powers
  <2>3. 2^(6 - e.acc_len) = 4
    <3> DEFINE k == 6 - e.acc_len
    <3>1. k = 2
      BY <2>1
    <3> HIDE DEF k
    <3>2. 2^k = 4
      BY <3>1, Powers
    <3> QED BY <3>2 DEF k
  <2>4. (q % 16) * 4 + (d.acc % 4) = (e.acc * 4) % 64
    <3> DEFINE k == (e.acc * 4) % 64
    <3>1. (q % 16) * 4 = k /\ k \in Nat
      <4>1. ((e.acc % 256) % 16) * 4 = (e.acc * 4) % 64
        BY <1>2, LastBits, Zenon
      <4>2. (e.acc * 4) % 64 \in Nat
        BY <1>2
      <4> QED BY <4>1, <4>2, Zenon
    <3> HIDE DEF q, k
    <3>2. k + (d.acc % 4) = k
      BY <2>2, <3>1
    <3> QED BY <3>1, <3>2 DEF k
  <2> HIDE DEF q
  <2>5. to_base64(d.buf) = Append(e.out, b64_byte_to_char((e.acc * 4) % 64))
    BY <1>4, <2>1, <2>3
  <2> QED BY <1>1, <2>1, <2>4, <2>5
<1>11. d.acc_len \in {0, 2, 4, 6}
  BY <1>6, WaitingCases
<1> QED BY <1>7, <1>8, <1>9, <1>10, <1>11

Joins(str, x, y) == str = x \o y

LEMMA Base64Read ==
    ASSUME NEW S, NEW str \in Seq(S), NEW n \in Nat, NEW b, b = from_base64(n, str), ~ b.null
    PROVE  /\ IsBytes(b.buf) /\ b.str \in Seq(S)
           /\ to_base64(b.buf) \in Seq(S) /\ to_base64(b.buf) \in Seq(Base64Chars)
           /\ Joins(str, to_base64(b.buf), b.str)
<1> DEFINE k == Span(str, Base64Chars)
           x == SubSeq(str, 1, k)
           d == After(n, x)
<1>1. k \in 0..Len(str) /\ \A i \in 1..k : str[i] \in Base64Chars
  BY SpanFacts
<1>2. k \in Nat
  BY <1>1, LenProperties
<1> HIDE DEF k
<1>3. Len(x) = k /\ \A i \in 1..k : x[i] = str[i]
  BY <1>1, FirstFacts
<1>4. x \in Seq(S) /\ Rest(str, k) \in Seq(S) /\ str = x \o Rest(str, k)
  BY <1>1, CutInTwo
<1>5. b.null = (d.full \/ leftover(d)) /\ b.buf = d.buf /\ b.str = Rest(str, k)
  <2>1. d = getChars(n, x)[k]
    BY <1>3 DEF After
  <2> HIDE DEF d
  <2> QED BY <2>1 DEF from_base64, k
<1> HIDE DEF x
<1>6. x \in Seq(Base64Chars)
  BY <1>1, <1>2, <1>3, <1>4
<1> HIDE DEF d
<1>7. b.buf = d.buf /\ b.str = Rest(str, k)
  BY <1>5
<1>8. ~ d.full /\ ~ leftover(d)
  BY <1>5, Zenon
<1>9. IsBytes(d.buf) /\ to_base64(d.buf) = x
  BY <1>6, <1>8, Base64Written DEF d
<1> QED BY <1>4, <1>6, <1>7, <1>9 DEF Joins

-----------------------------------------------------------------------------
(* A string that decode_string accepts is what encode_string writes.         *)

\* The parse q went on from p, which had this text before the rest of q, and
\* changed no other fields than these.
Back(p, q, text, F, S) ==
    /\ p.ret = "OK" /\ IsParse(q, S) /\ p.str = text \o q.str
    /\ \A f \in ContextFields \ F : q.ctx[f] = p.ctx[f]

LEMMA FailedStays ==
    ASSUME NEW S, NEW p, IsParse(p, S)
    PROVE  DecodingFail(p).ret # "OK"
BY DEF IsParse, DecodingFail

LEMMA PrefixBack ==
    ASSUME NEW S, NEW p, IsParse(p, S), NEW x \in Seq(S), NEW q, q = CC(p, x), q.ret = "OK"
    PROVE  Back(p, q, x, {}, S)
<1> DEFINE n == Len(x)
           r == Rest(p.str, n)
           y == SubSeq(p.str, 1, n)
<1>1. DecodingFail(p).ret # "OK"
  BY FailedStays
<1>2. p.ret = "OK" /\ IsPrefix(x, p.str) /\ q = [p EXCEPT !.str = r]
  BY <1>1 DEF CC
<1>3. p.str \in Seq(S) /\ n \in Nat /\ Len(p.str) \in Nat
  BY LenProperties DEF IsParse
<1>4. n <= Len(p.str) /\ y = x
  <2>1. SubSeq(x, 1, Len(x)) = x
    BY SubSeqFull
  <2> QED BY <1>2, <2>1 DEF IsPrefix
<1>5. n \in 0..Len(p.str)
  BY <1>3, <1>4
<1> HIDE DEF n
<1>6. r \in Seq(S) /\ p.str = y \o r
  BY <1>3, <1>5, CutInTwo
<1> HIDE DEF r, y
<1>7. DOMAIN q = {"str", "ctx", "ret"} /\ q.str = r /\ q.ctx = p.ctx
  BY <1>2 DEF IsParse
<1>8. IsParse(q, S)
  BY <1>6, <1>7 DEF IsParse
<1> QED BY <1>2, <1>4, <1>6, <1>7, <1>8 DEF Back

LEMMA NumberBack ==
    ASSUME NEW S, NEW p, IsParse(p, S), NEW f \in Numbers, NEW q, q = DECIMAL_U32(p, f),
           q.ret = "OK"
    PROVE  q.ctx[f] \in 0..UINT32_MAX /\ Back(p, q, Decimal[q.ctx[f]], {f}, S)
<1> DEFINE d == decode_decimal(p.str)
           ctx == [p.ctx EXCEPT ![f] = d.v]
<1>1. DecodingFail(p).ret # "OK"
  BY FailedStays
<1>2. q = IF p.ret # "OK" THEN p
          ELSE IF d.null \/ d.v \notin 0..UINT32_MAX THEN DecodingFail(p)
          ELSE [p EXCEPT !.str = d.str, !.ctx = [@ EXCEPT ![f] = d.v]]
  BY DEF DECIMAL_U32
<1>3. p.str \in Seq(S) /\ DOMAIN p = {"str", "ctx", "ret"} /\ DOMAIN p.ctx = ContextFields
  BY DEF IsParse
<1>4. d.null \in BOOLEAN \/ TRUE
  OBVIOUS
<1> HIDE DEF d
<1>5. p.ret = "OK" /\ ~ d.null /\ d.v \in 0..UINT32_MAX
      /\ q = [p EXCEPT !.str = d.str, !.ctx = ctx]
  BY <1>1, <1>2
<1>6. d.str \in Seq(S) /\ p.str = Decimal[d.v] \o d.str
  BY <1>3, <1>5, DecimalWritten DEF d
<1>7. f \in ContextFields
  BY DEF Numbers, ContextFields
<1>8. /\ DOMAIN ctx = ContextFields /\ ctx[f] = d.v
      /\ \A g \in ContextFields \ {f} : ctx[g] = p.ctx[g]
  BY <1>3, <1>7
<1> HIDE DEF ctx
<1>9. DOMAIN q = {"str", "ctx", "ret"} /\ q.str = d.str /\ q.ctx = ctx
  BY <1>3, <1>5
<1>10. IsParse(q, S)
  BY <1>6, <1>8, <1>9 DEF IsParse
<1> QED BY <1>5, <1>6, <1>8, <1>9, <1>10 DEF Back

Versioned(str, x, v, y) == str = x \o (Decimal[v] \o y)

LEMMA VersionBack ==
    ASSUME NEW S, NEW p, IsParse(p, S), NEW x \in Seq(S), NEW q, q = CC_opt(p, x),
           q.ret = "OK"
    PROVE  /\ p.ret = "OK" /\ IsParse(q, S) /\ q.ctx.version \in 0..UINT32_MAX
           /\ \A f \in ContextFields \ {"version"} : q.ctx[f] = p.ctx[f]
           /\ \/ Versioned(p.str, x, q.ctx.version, q.str)
              \/ q.ctx.version = Version10 /\ p.str = q.str
<1> DEFINE r == CC(p, x)
           ctx == [p.ctx EXCEPT !.version = Version10]
           old == [p EXCEPT !.ctx.version = Version10]
<1>1. CASE p.ret = "OK" /\ IsPrefix(x, p.str)
  <2>1. q = DECIMAL_U32(r, "version")
    BY <1>1 DEF CC_opt
  <2>2. "version" \in Numbers
    BY DEF Numbers
  <2>3. Len(x) \in Nat
    BY LenProperties
  <2>4. IsParse(r, S)
    BY <2>3, CCReads DEF Reads
  <2> DEFINE v == q.ctx["version"]
  <2>5. v \in 0..UINT32_MAX /\ Back(r, q, Decimal[v], {"version"}, S)
    BY <2>1, <2>2, <2>4, NumberBack
  <2>6. r.ret = "OK"
    BY <2>5 DEF Back
  <2>7. Back(p, r, x, {}, S)
    BY <2>6, PrefixBack
  <2> HIDE DEF r, v
  <2>8. IsParse(q, S) /\ r.str = Decimal[v] \o q.str /\ p.str = x \o r.str
    BY <2>5, <2>7 DEF Back
  <2>9. \A f \in ContextFields \ {"version"} : q.ctx[f] = p.ctx[f]
    BY <2>5, <2>7 DEF Back
  <2> QED BY <1>1, <2>5, <2>8, <2>9 DEF v, Versioned
<1>2. CASE p.ret = "OK" /\ ~ IsPrefix(x, p.str)
  <2>1. q = old
    BY <1>2 DEF CC_opt
  <2>2. p.str \in Seq(S) /\ DOMAIN p = {"str", "ctx", "ret"} /\ DOMAIN p.ctx = ContextFields
    BY DEF IsParse
  <2>3. q.str = p.str /\ q.ctx = ctx /\ DOMAIN q = {"str", "ctx", "ret"}
    BY <2>1, <2>2
  <2>4. /\ DOMAIN ctx = ContextFields /\ ctx.version = Version10
        /\ \A f \in ContextFields \ {"version"} : ctx[f] = p.ctx[f]
    BY <2>2 DEF ContextFields
  <2> HIDE DEF ctx
  <2>5. IsParse(q, S)
    BY <2>2, <2>3, <2>4 DEF IsParse
  <2>6. Version10 \in 0..UINT32_MAX
    BY SizesAreNumbers DEF Version10
  <2> QED BY <1>2, <2>3, <2>4, <2>5, <2>6
<1>3. CASE p.ret # "OK"
  BY <1>3 DEF CC_opt
<1> QED BY <1>1, <1>2, <1>3

LEMMA BytesBack ==
    ASSUME NEW S, Alphabet \subseteq S, NEW p, IsParse(p, S),
           NEW f \in {"salt", "out"}, NEW len \in {"saltlen", "outlen"}, p.ctx[len] \in Nat,
           NEW q, q = BIN(p, f, len), q.ret = "OK"
    PROVE  /\ IsBytes(q.ctx[f]) /\ q.ctx[len] = Len(q.ctx[f]) /\ q.ctx[len] \in 0..UINT32_MAX
           /\ Back(p, q, to_base64(q.ctx[f]), {f, len}, S)
<1> DEFINE b == from_base64(p.ctx[len], p.str)
           ctx1 == [p.ctx EXCEPT ![f] = b.buf]
           q1 == [p EXCEPT !.ctx = ctx1]
           ctx2 == [ctx1 EXCEPT ![len] = Len(b.buf)]
           q2 == [q1 EXCEPT !.str = b.str, !.ctx = ctx2]
<1>1. p.str \in Seq(S) /\ DOMAIN p = {"str", "ctx", "ret"} /\ DOMAIN p.ctx = ContextFields
  BY DEF IsParse
<1>2. q = IF p.ret # "OK" THEN p
          ELSE IF b.null \/ Len(b.buf) > UINT32_MAX THEN DecodingFail(q1) ELSE q2
  BY DEF BIN
<1>3. ~ b.null => IsBytes(b.buf) /\ b.str \in Seq(S) /\ Joins(p.str, to_base64(b.buf), b.str)
  BY <1>1, Base64Read
<1> HIDE DEF b
<1>4. f \in ContextFields /\ len \in ContextFields /\ f # len
  BY DEF ContextFields
<1>5. /\ DOMAIN ctx1 = ContextFields /\ ctx1[f] = b.buf
      /\ \A g \in ContextFields \ {f} : ctx1[g] = p.ctx[g]
  BY <1>1, <1>4
<1> HIDE DEF ctx1
<1>6. q1.ctx = ctx1 /\ q1.str = p.str /\ DOMAIN q1 = {"str", "ctx", "ret"}
  BY <1>1
<1>7. /\ DOMAIN ctx2 = ContextFields /\ ctx2[f] = b.buf /\ ctx2[len] = Len(b.buf)
      /\ \A g \in ContextFields \ {f, len} : ctx2[g] = p.ctx[g]
  BY <1>4, <1>5
<1> HIDE DEF ctx2
<1>8. q2.ctx = ctx2 /\ q2.str = b.str /\ DOMAIN q2 = {"str", "ctx", "ret"}
  BY <1>6
<1> HIDE DEF q1, q2
<1>9. DecodingFail(q1).ret # "OK"
  BY <1>6 DEF DecodingFail
<1>10. p.ret = "OK" /\ ~ b.null /\ ~ (Len(b.buf) > UINT32_MAX) /\ q = q2
  BY <1>2, <1>9
<1>11. Len(b.buf) \in 0..UINT32_MAX
  <2>1. Len(b.buf) \in Nat
    BY <1>3, <1>10, LenProperties DEF IsBytes
  <2> QED BY <1>10, <2>1, SizesAreNumbers
<1>12. IsParse(q, S)
  BY <1>3, <1>7, <1>8, <1>10 DEF IsParse
<1> QED BY <1>3, <1>7, <1>8, <1>10, <1>11, <1>12 DEF Back, Joins

\* The text of a hash, and the form that decode_string also accepts: the old
\* version is not named.
VersionedText(c, type) == <<"$">> \o (type_string(type) \o VersionText(c))

UnversionedText(c, type) == <<"$">> \o (type_string(type) \o MemoryText(c))

Encodes(str, c, type) ==
    \/ str = VersionedText(c, type)
    \/ c.version = Version10 /\ str = UnversionedText(c, type)

\* Two contexts with these fields in common.
SameFields(c, x, F) == \A f \in F : c[f] = x[f]

\* What Parameters accepted, with the fields that it read.
LEMMA ParametersBack ==
    ASSUME NEW S, Alphabet \subseteq S, NEW p, IsParse(p, S), NEW type \in Types,
           NEW q, q = Parameters(p, type), q.ret = "OK",
           NEW c, SameFields(c, q.ctx, Numbers), q.str = SaltText(c)
    PROVE  /\ p.ret = "OK" /\ IsParse(q, S) /\ \A f \in Numbers : c[f] \in 0..UINT32_MAX
           /\ SameFields(q.ctx, p.ctx, ContextFields \ Numbers)
           /\ Encodes(p.str, c, type)
<1> DEFINE x1 == <<"$">>
           x2 == type_string(type)
           x3 == <<"$", "v", "=">>
           x4 == <<"$", "m", "=">>
           x6 == <<",", "t", "=">>
           x8 == <<",", "p", "=">>
           p1 == CC(p, x1)
           p2 == CC(p1, x2)
           p3 == CC_opt(p2, x3)
           p4 == CC(p3, x4)
           p5 == DECIMAL_U32(p4, "m_cost")
           p6 == CC(p5, x6)
           p7 == DECIMAL_U32(p6, "t_cost")
           p8 == CC(p7, x8)
           p9 == DECIMAL_U32(p8, "lanes")
           n3 == Decimal[c.version]
           n5 == Decimal[c.m_cost]
           n7 == Decimal[c.t_cost]
           n9 == Decimal[c.lanes]
<1>0. q = p9
  BY DEF Parameters
<1>t. /\ MemoryText(c) = x4 \o (n5 \o TimeText(c)) /\ TimeText(c) = x6 \o (n7 \o LanesText(c))
      /\ LanesText(c) = x8 \o (n9 \o SaltText(c)) /\ VersionText(c) = x3 \o (n3 \o MemoryText(c))
  BY Zenon DEF MemoryText, TimeText, LanesText, VersionText
<1>n. {"version", "m_cost", "t_cost", "lanes"} = Numbers
  BY DEF Numbers
<1>x. /\ x1 \in Seq(S) /\ x2 \in Seq(S) /\ x3 \in Seq(S) /\ x4 \in Seq(S)
      /\ x6 \in Seq(S) /\ x8 \in Seq(S)
  <2>1. /\ x1 \in Seq(Alphabet) /\ x3 \in Seq(Alphabet) /\ x4 \in Seq(Alphabet)
        /\ x6 \in Seq(Alphabet) /\ x8 \in Seq(Alphabet)
    BY SeparatorsAreText, Zenon
  <2>2. x2 \in Seq(Alphabet)
    <3>1. {"argon2", "d", "i"} \subseteq Alphabet
      BY DEF Alphabet
    <3>2. /\ <<"argon2", "d">> \in Seq(Alphabet) /\ <<"argon2", "i">> \in Seq(Alphabet)
          /\ <<"argon2", "i", "d">> \in Seq(Alphabet)
      BY <3>1
    <3>3. \/ type_string(type) = <<"argon2", "d">>
          \/ type_string(type) = <<"argon2", "i">>
          \/ type_string(type) = <<"argon2", "i", "d">>
      BY DEF type_string, Types
    <3> QED BY <3>2, <3>3
  <2> HIDE DEF x1, x2, x3, x4, x6, x8
  <2> QED BY <2>1, <2>2, SeqMonotonic
<1> HIDE DEF x1, x2, x3, x4, x6, x8
<1>l. /\ Len(x1) \in Nat /\ Len(x2) \in Nat /\ Len(x3) \in Nat /\ Len(x4) \in Nat
      /\ Len(x6) \in Nat /\ Len(x8) \in Nat
  BY <1>x, LenProperties
<1>1. IsParse(p1, S)
  BY <1>l, CCReads DEF Reads
<1> HIDE DEF p1
<1>2. IsParse(p2, S)
  BY <1>l, <1>1, CCReads DEF Reads
<1> HIDE DEF p2
<1>3. IsParse(p3, S)
  BY <1>l, <1>2, VersionReads DEF Reads
<1> HIDE DEF p3
<1>4. IsParse(p4, S)
  BY <1>l, <1>3, CCReads DEF Reads
<1> HIDE DEF p4
<1>5. IsParse(p5, S)
  BY <1>4, DecimalReads DEF Reads
<1> HIDE DEF p5
<1>6. IsParse(p6, S)
  BY <1>l, <1>5, CCReads DEF Reads
<1> HIDE DEF p6
<1>7. IsParse(p7, S)
  BY <1>6, DecimalReads DEF Reads
<1> HIDE DEF p7
<1>8. IsParse(p8, S)
  BY <1>l, <1>7, CCReads DEF Reads
<1> HIDE DEF p8
<1>9. /\ q.ctx["lanes"] \in 0..UINT32_MAX
      /\ Back(p8, q, Decimal[q.ctx["lanes"]], {"lanes"}, S)
  BY <1>0, <1>8, <1>n, NumberBack
<1> HIDE DEF p9
<1>10. Back(p7, p8, x8, {}, S)
  <2>1. p8.ret = "OK"
    BY <1>9 DEF Back
  <2> QED BY <1>7, <1>x, <2>1, PrefixBack DEF p8
<1>11. /\ p7.ctx["t_cost"] \in 0..UINT32_MAX
       /\ Back(p6, p7, Decimal[p7.ctx["t_cost"]], {"t_cost"}, S)
  <2>1. p7.ret = "OK"
    BY <1>10 DEF Back
  <2> QED BY <2>1, <1>6, <1>n, NumberBack DEF p7
<1>12. Back(p5, p6, x6, {}, S)
  <2>1. p6.ret = "OK"
    BY <1>11 DEF Back
  <2> QED BY <1>5, <1>x, <2>1, PrefixBack DEF p6
<1>13. /\ p5.ctx["m_cost"] \in 0..UINT32_MAX
       /\ Back(p4, p5, Decimal[p5.ctx["m_cost"]], {"m_cost"}, S)
  <2>1. p5.ret = "OK"
    BY <1>12 DEF Back
  <2> QED BY <2>1, <1>4, <1>n, NumberBack DEF p5
<1>14. Back(p3, p4, x4, {}, S)
  <2>1. p4.ret = "OK"
    BY <1>13 DEF Back
  <2> QED BY <1>3, <1>x, <2>1, PrefixBack DEF p4
<1>15. /\ p2.ret = "OK" /\ p3.ctx.version \in 0..UINT32_MAX
       /\ \A f \in ContextFields \ {"version"} : p3.ctx[f] = p2.ctx[f]
       /\ \/ Versioned(p2.str, x3, p3.ctx.version, p3.str)
          \/ p3.ctx.version = Version10 /\ p2.str = p3.str
  <2>1. p3.ret = "OK"
    BY <1>14 DEF Back
  <2> QED BY <2>1, <1>2, <1>x, VersionBack DEF p3
<1>16. Back(p1, p2, x2, {}, S)
  BY <1>1, <1>15, <1>x, PrefixBack DEF p2
<1>17. Back(p, p1, x1, {}, S)
  <2>1. p1.ret = "OK"
    BY <1>16 DEF Back
  <2> QED BY <1>x, <2>1, PrefixBack DEF p1
<1>18. {"version", "m_cost", "t_cost", "lanes"} \subseteq ContextFields
  BY DEF ContextFields
<1>19. \A f \in ContextFields \ Numbers : q.ctx[f] = p.ctx[f]
  <2> SUFFICES ASSUME NEW f \in ContextFields \ Numbers PROVE q.ctx[f] = p.ctx[f]
    OBVIOUS
  <2>1. f \notin {"version", "m_cost", "t_cost", "lanes"}
    BY <1>n
  <2>2. q.ctx[f] = p8.ctx[f] /\ p8.ctx[f] = p7.ctx[f] /\ p7.ctx[f] = p6.ctx[f]
        /\ p6.ctx[f] = p5.ctx[f]
    BY <1>9, <1>10, <1>11, <1>12, <2>1 DEF Back
  <2>3. p5.ctx[f] = p4.ctx[f] /\ p4.ctx[f] = p3.ctx[f] /\ p3.ctx[f] = p2.ctx[f]
        /\ p2.ctx[f] = p1.ctx[f] /\ p1.ctx[f] = p.ctx[f]
    BY <1>13, <1>14, <1>15, <1>16, <1>17, <2>1 DEF Back
  <2> QED BY <2>2, <2>3
<1>20. c.lanes = q.ctx["lanes"] /\ c.t_cost = p7.ctx["t_cost"] /\ c.m_cost = p5.ctx["m_cost"]
       /\ c.version = p3.ctx["version"]
  <2>1. /\ c.lanes = q.ctx["lanes"] /\ c.t_cost = q.ctx["t_cost"] /\ c.m_cost = q.ctx["m_cost"]
        /\ c.version = q.ctx["version"]
    BY <1>n DEF SameFields
  <2>2. \A f \in {"t_cost", "m_cost", "version"} : q.ctx[f] = p7.ctx[f]
    BY <1>9, <1>10, <1>18 DEF Back
  <2>3. \A f \in {"m_cost", "version"} : p7.ctx[f] = p5.ctx[f]
    BY <1>11, <1>12, <1>18 DEF Back
  <2>4. p5.ctx["version"] = p3.ctx["version"]
    BY <1>13, <1>14, <1>18 DEF Back
  <2> QED BY <2>1, <2>2, <2>3, <2>4
<1>21. \A f \in Numbers : c[f] \in 0..UINT32_MAX
  BY <1>9, <1>11, <1>13, <1>15, <1>20, <1>n
<1>22. /\ p8.str = n9 \o q.str /\ p7.str = x8 \o p8.str /\ p6.str = n7 \o p7.str
       /\ p5.str = x6 \o p6.str /\ p4.str = n5 \o p5.str /\ p3.str = x4 \o p4.str
       /\ p1.str = x2 \o p2.str /\ p.str = x1 \o p1.str
  BY <1>9, <1>10, <1>11, <1>12, <1>13, <1>14, <1>16, <1>17, <1>20 DEF Back
<1>23. \/ p2.str = x3 \o (n3 \o p3.str)
       \/ c.version = Version10 /\ p2.str = p3.str
  BY <1>15, <1>20, Zenon DEF Versioned
<1>24. p3.str = MemoryText(c)
  <2> HIDE DEF n3, n5, n7, n9
  <2>1. p7.str = LanesText(c)
    BY <1>22, <1>t, Zenon
  <2>2. p5.str = TimeText(c)
    BY <1>22, <1>t, <2>1, Zenon
  <2> QED BY <1>22, <1>t, <2>2, Zenon
<1> HIDE DEF n3, n5, n7, n9
<1>25. \/ p.str = x1 \o (x2 \o VersionText(c))
       \/ c.version = Version10 /\ p.str = x1 \o (x2 \o MemoryText(c))
  BY <1>22, <1>23, <1>24, <1>t, Zenon
<1>26. p.ret = "OK" /\ IsParse(q, S)
  BY <1>9, <1>17 DEF Back
<1>27. p.str = VersionedText(c, type) \/ (c.version = Version10 /\ p.str = UnversionedText(c, type))
  BY <1>25, Zenon DEF x1, x2, VersionedText, UnversionedText
<1> QED BY <1>19, <1>21, <1>26, <1>27 DEF SameFields, Encodes

LEMMA SaltAndOutputBack ==
    ASSUME NEW S, Alphabet \subseteq S, NEW p, IsParse(p, S),
           p.ctx.saltlen \in Nat, p.ctx.outlen \in Nat,
           NEW q, q = SaltAndOutput(p), q.ret = "OK", q.str = <<>>,
           NEW c, SameFields(c, q.ctx, {"salt", "saltlen", "out", "outlen"})
    PROVE  /\ p.ret = "OK" /\ IsParse(q, S) /\ p.str = SaltText(c)
           /\ IsBytes(c.salt) /\ c.saltlen = Len(c.salt) /\ c.saltlen \in 0..UINT32_MAX
           /\ IsBytes(c.out) /\ c.outlen = Len(c.out) /\ c.outlen \in 0..UINT32_MAX
           /\ SameFields(q.ctx, p.ctx, ContextFields \ {"salt", "saltlen", "out", "outlen"})
<1> DEFINE x == <<"$">>
           p1 == CC(p, x)
           p2 == BIN(p1, "salt", "saltlen")
           p3 == CC(p2, x)
           p4 == BIN(p3, "out", "outlen")
           y == to_base64(c.salt)
           z == to_base64(c.out)
<1>0. q = p4
  BY DEF SaltAndOutput
<1>t. SaltText(c) = x \o (y \o OutputText(c)) /\ OutputText(c) = x \o (z \o <<>>)
  BY Zenon DEF SaltText, OutputText
<1>x. x \in Seq(S) /\ Len(x) \in Nat
  <2>1. x \in Seq(Alphabet)
    BY SeparatorsAreText, Zenon
  <2> HIDE DEF x
  <2> QED BY <2>1, SeqMonotonic, LenProperties
<1> HIDE DEF x
<1>1. Reads(p, p1, S, {}) /\ IsParse(p1, S)
  BY <1>x, CCReads DEF Reads
<1> HIDE DEF p1
<1>a. p1.ctx["saltlen"] \in Nat /\ p1.ctx["outlen"] \in Nat
  BY <1>1 DEF Reads
<1>2. Reads(p1, p2, S, {"salt", "saltlen"}) /\ IsParse(p2, S)
  <2>1. Reads(p1, p2, S, {"salt", "saltlen"})
    BY <1>1, <1>a, BINReads
  <2> QED BY <2>1 DEF Reads
<1> HIDE DEF p2
<1>3. Reads(p2, p3, S, {}) /\ IsParse(p3, S)
  BY <1>x, <1>2, CCReads DEF Reads
<1> HIDE DEF p3
<1>b. p3.ctx["outlen"] \in Nat
  <2>1. p3.ctx["outlen"] = p2.ctx["outlen"]
    BY <1>3 DEF Reads
  <2>2. p2.ctx["outlen"] = p1.ctx["outlen"]
    BY <1>2 DEF Reads
  <2> QED BY <1>a, <2>1, <2>2
<1>4. /\ IsBytes(q.ctx["out"]) /\ q.ctx["outlen"] = Len(q.ctx["out"])
      /\ q.ctx["outlen"] \in 0..UINT32_MAX
      /\ Back(p3, q, to_base64(q.ctx["out"]), {"out", "outlen"}, S)
  BY <1>0, <1>3, <1>b, BytesBack
<1> HIDE DEF p4
<1>5. Back(p2, p3, x, {}, S)
  <2>1. p3.ret = "OK"
    BY <1>4 DEF Back
  <2> QED BY <1>x, <1>2, <2>1, PrefixBack DEF p3
<1>6. /\ IsBytes(p2.ctx["salt"]) /\ p2.ctx["saltlen"] = Len(p2.ctx["salt"])
      /\ p2.ctx["saltlen"] \in 0..UINT32_MAX
      /\ Back(p1, p2, to_base64(p2.ctx["salt"]), {"salt", "saltlen"}, S)
  <2>1. p2.ret = "OK"
    BY <1>5 DEF Back
  <2> QED BY <1>1, <1>a, <2>1, BytesBack DEF p2
<1>7. Back(p, p1, x, {}, S)
  <2>1. p1.ret = "OK"
    BY <1>6 DEF Back
  <2> QED BY <1>x, <2>1, PrefixBack DEF p1
<1>8. {"salt", "saltlen", "out", "outlen"} \subseteq ContextFields
  BY DEF ContextFields
<1>9. q.ctx["salt"] = p2.ctx["salt"] /\ q.ctx["saltlen"] = p2.ctx["saltlen"]
  BY <1>4, <1>5, <1>8 DEF Back
<1>10. /\ c.salt = p2.ctx["salt"] /\ c.saltlen = p2.ctx["saltlen"]
       /\ c.out = q.ctx["out"] /\ c.outlen = q.ctx["outlen"]
  BY <1>9 DEF SameFields
<1>11. /\ IsBytes(c.salt) /\ c.saltlen = Len(c.salt) /\ c.saltlen \in 0..UINT32_MAX
       /\ IsBytes(c.out) /\ c.outlen = Len(c.out) /\ c.outlen \in 0..UINT32_MAX
  BY <1>4, <1>6, <1>10
<1>12. /\ p3.str = z \o q.str /\ p2.str = x \o p3.str /\ p1.str = y \o p2.str /\ p.str = x \o p1.str
  BY <1>4, <1>5, <1>6, <1>7, <1>10 DEF Back
<1> HIDE DEF y, z
<1>13. p.str = SaltText(c)
  BY <1>12, <1>t, Zenon
<1>14. \A f \in ContextFields \ {"salt", "saltlen", "out", "outlen"} : q.ctx[f] = p.ctx[f]
  BY <1>4, <1>5, <1>6, <1>7 DEF Back
<1>15. p.ret = "OK" /\ IsParse(q, S)
  BY <1>4, <1>7 DEF Back
<1> QED BY <1>11, <1>13, <1>14, <1>15 DEF SameFields

\* What decode_string accepts is what encode_string writes for the hash that it
\* returns, or that without its version, which then is the old one: no other
\* digits, no other base64, nothing more and nothing less.
THEOREM DecodedIsEncoded ==
    ASSUME NEW S, Alphabet \subseteq S, NEW str \in Seq(S),
           NEW b, DOMAIN b = ContextFields, b.saltlen \in Nat, b.outlen \in Nat,
           NEW t, NEW d, d = decode_string(b, str, t), d.ret = "OK"
    PROVE  /\ t \in Types /\ IsHash(d.ctx) /\ DecodedAs(d.ctx, d.ctx, b)
           /\ \/ str = Text(d.ctx, t)
              \/ d.ctx.version = Version10 /\ str = UnversionedText(d.ctx, t)
<1> DEFINE start == [str |-> str, ctx |-> b, ret |-> "OK"]
           p     == Parameters(start, t)
           q     == SaltAndOutput(p)
           c     == Defaults(q.ctx)
           read  == [q EXCEPT !.ctx = c]
           code  == validate_inputs(c)
<1>1. t \in Types
  BY DEF decode_string
<1>2. d = IF q.ret # "OK" THEN q ELSE Validated(read)
  BY <1>1 DEF decode_string
<1>3. IsParse(start, S) /\ start.str = str /\ start.ctx = b
  <2>1. DOMAIN start = {"str", "ctx", "ret"} /\ start.str = str /\ start.ctx = b
    OBVIOUS
  <2> HIDE DEF start
  <2> QED BY <2>1 DEF IsParse
<1> HIDE DEF start
<1>4. Reads(start, p, S, {}) /\ IsParse(p, S)
  BY <1>1, <1>3, ParametersRead DEF Reads
<1> HIDE DEF p
<1>5. p.ctx["saltlen"] = b.saltlen /\ p.ctx["outlen"] = b.outlen
  BY <1>3, <1>4 DEF Reads
<1>6. IsParse(q, S)
  BY <1>4, <1>5, SaltAndOutputRead
<1> HIDE DEF q
<1>7. /\ DOMAIN read = {"str", "ctx", "ret"} /\ read.ctx = c /\ read.str = q.str
  BY <1>6 DEF IsParse
<1> HIDE DEF c, read, code
<1>8. q.ret = "OK" /\ d = Validated(read)
  BY <1>2
<1>9. d.ctx = c /\ code = "OK" /\ q.str = <<>>
  <2>1. Validated(read) = [read EXCEPT !.ret = IF code # "OK" THEN code
                             ELSE IF q.str # <<>> THEN "DECODING_FAIL" ELSE "OK"]
    BY <1>7 DEF Validated, code
  <2> QED BY <1>7, <1>8, <2>1
<1>10. DOMAIN q.ctx = ContextFields
  BY <1>6 DEF IsParse
<1>11. /\ c.out = q.ctx.out /\ c.outlen = q.ctx.outlen /\ c.salt = q.ctx.salt
       /\ c.saltlen = q.ctx.saltlen /\ c.pwd = q.ctx.pwd /\ c.pwdlen = q.ctx.pwdlen
       /\ c.version = q.ctx.version /\ c.t_cost = q.ctx.t_cost /\ c.m_cost = q.ctx.m_cost
       /\ c.lanes = q.ctx.lanes
  BY <1>10, DefaultsFields DEF c
<1>12. /\ c.secret = NULL /\ c.secretlen = 0 /\ c.ad = NULL /\ c.adlen = 0 /\ c.flags = {}
       /\ DOMAIN c = ContextFields
  BY <1>10, DefaultsRest DEF c
<1>13. \A f \in {"salt", "saltlen", "out", "outlen"} : c[f] = q.ctx[f]
  BY <1>11
<1>14. /\ p.ret = "OK" /\ p.str = SaltText(c)
       /\ IsBytes(c.salt) /\ c.saltlen = Len(c.salt) /\ c.saltlen \in 0..UINT32_MAX
       /\ IsBytes(c.out) /\ c.outlen = Len(c.out) /\ c.outlen \in 0..UINT32_MAX
       /\ \A f \in ContextFields \ {"salt", "saltlen", "out", "outlen"} : q.ctx[f] = p.ctx[f]
  <2>1. p.ctx.saltlen \in Nat /\ p.ctx.outlen \in Nat
    BY <1>5
  <2>2. /\ IsParse(p, S) /\ q = SaltAndOutput(p) /\ q.ret = "OK" /\ q.str = <<>>
        /\ SameFields(c, q.ctx, {"salt", "saltlen", "out", "outlen"})
    BY <1>4, <1>8, <1>9, <1>13 DEF q, SameFields
  <2>3. p.ret = "OK" /\ p.str = SaltText(c)
    BY <2>1, <2>2, SaltAndOutputBack
  <2>4. /\ IsBytes(c.salt) /\ c.saltlen = Len(c.salt) /\ c.saltlen \in 0..UINT32_MAX
        /\ IsBytes(c.out) /\ c.outlen = Len(c.out) /\ c.outlen \in 0..UINT32_MAX
    BY <2>1, <2>2, SaltAndOutputBack
  <2>5. SameFields(q.ctx, p.ctx, ContextFields \ {"salt", "saltlen", "out", "outlen"})
    BY <2>1, <2>2, SaltAndOutputBack
  <2> QED BY <2>3, <2>4, <2>5 DEF SameFields
<1>15. \A f \in Numbers : c[f] = p.ctx[f]
  <2>1. \A f \in Numbers : f \in ContextFields \ {"salt", "saltlen", "out", "outlen"}
    BY DEF Numbers, ContextFields
  <2>2. \A f \in Numbers : c[f] = q.ctx[f]
    BY <1>11 DEF Numbers
  <2> QED BY <1>14, <2>1, <2>2
<1>16. /\ \A f \in Numbers : c[f] \in 0..UINT32_MAX
       /\ \A f \in ContextFields \ Numbers : p.ctx[f] = b[f]
       /\ \/ str = VersionedText(c, t)
          \/ c.version = Version10 /\ str = UnversionedText(c, t)
  <2>1. IsParse(start, S) /\ t \in Types /\ p = Parameters(start, t) /\ p.ret = "OK"
        /\ p.str = SaltText(c) /\ SameFields(c, p.ctx, Numbers)
    BY <1>1, <1>3, <1>14, <1>15 DEF p, SameFields
  <2>2. SameFields(p.ctx, start.ctx, ContextFields \ Numbers)
    BY <2>1, ParametersBack
  <2>3. \A f \in Numbers : c[f] \in 0..UINT32_MAX
    BY <2>1, ParametersBack
  <2>4. Encodes(start.str, c, t)
    BY <2>1, ParametersBack
  <2> QED BY <1>3, <2>2, <2>3, <2>4 DEF SameFields, Encodes
<1>17. {c.saltlen, c.outlen, c.t_cost, c.m_cost, c.lanes, c.version} \subseteq 0..UINT32_MAX
  <2>1. "t_cost" \in Numbers /\ "m_cost" \in Numbers /\ "lanes" \in Numbers /\ "version" \in Numbers
    BY DEF Numbers
  <2>2. c["t_cost"] \in 0..UINT32_MAX /\ c["m_cost"] \in 0..UINT32_MAX
        /\ c["lanes"] \in 0..UINT32_MAX /\ c["version"] \in 0..UINT32_MAX
    BY <1>16, <2>1, Zenon
  <2> QED BY <1>14, <2>2
<1>18. IsHash(c)
  BY <1>12, <1>14, <1>17 DEF IsHash
<1>19. c.pwd = b.pwd /\ c.pwdlen = b.pwdlen
  <2>1. \A f \in {"pwd", "pwdlen"} : f \in ContextFields \ Numbers
                                     /\ f \notin {"salt", "saltlen", "out", "outlen"}
    BY DEF Numbers, ContextFields
  <2>2. \A f \in {"pwd", "pwdlen"} : q.ctx[f] = b[f]
    <3>1. \A f \in ContextFields \ Numbers : p.ctx[f] = b[f]
      BY <1>16, Zenon
    <3> QED BY <1>14, <2>1, <3>1
  <2> QED BY <1>11, <2>2
<1>20. DecodedAs(c, c, b)
  BY <1>9, <1>12, <1>19 DEF DecodedAs, code
<1>21. str = Text(c, t) \/ (c.version = Version10 /\ str = UnversionedText(c, t))
  BY <1>1, <1>16, <1>18, TextFromItsEnd, Zenon DEF VersionedText
<1> QED BY <1>1, <1>9, <1>18, <1>20, <1>21

-----------------------------------------------------------------------------
(* A string with one character changed.                                     *)

\* str is s but for the character at one place.
OneChange(s, str) ==
    /\ Len(str) = Len(s) /\ DOMAIN s = 1..Len(s) /\ DOMAIN str = 1..Len(s)
    /\ \E i \in 1..Len(s) : \A j \in 1..Len(s) : j # i => str[j] = s[j]

\* A number from e, base64 from f and base64 from g to the end of s.
Fields(s, e, f, g) ==
    /\ e \in 1..Len(s) /\ f \in 1..Len(s) /\ g \in 1..Len(s) /\ e < f /\ f < g
    /\ s[e] = "=" /\ s[f] = "$" /\ s[g] = "$"
    /\ \A i \in 1..Len(s) : e < i /\ i # f /\ i # g => s[i] \in Base64Chars

\* The text u is the last of those fields.
Ended(s, u) ==
    \E e, f, g \in Nat :
        /\ Fields(s, e, f, g) /\ Len(s) = g + Len(u)
        /\ \A n \in 1..Len(u) : s[g + n] = u[n]

\* Two texts that differ in one place at most.
SameButOne(u, v) == \E i \in Int : \A n \in 1..Len(u) : n # i => u[n] = v[n]

LEMMA SeparatorsAreNoChars == "$" \notin Base64Chars /\ "=" \notin Base64Chars
<1>1. ASSUME NEW i \in 1..64 PROVE Base64[i] # "="
  BY DEF Base64
<1>2. "=" \notin Base64Chars
  BY <1>1, Base64Facts DEF Base64Chars
<1> QED BY <1>2, SeparatorIsNoChar

\* One changed character does not move the end of the salt towards the end.
LEMMA NotLater ==
    ASSUME NEW s, NEW str, Len(s) \in Nat, Len(str) = Len(s),
           NEW i \in 1..Len(s), \A j \in 1..Len(s) : j # i => str[j] = s[j],
           NEW e, NEW f, NEW g, Fields(s, e, f, g),
           NEW x, NEW y, NEW z, Fields(str, x, y, z)
    PROVE  z <= g
<1> DEFINE n == Len(s)
<1>1. /\ n \in Nat /\ i \in 1..n /\ \A j \in 1..n : j # i => str[j] = s[j]
      /\ e \in 1..n /\ f \in 1..n /\ g \in 1..n /\ e < f /\ f < g
      /\ s[e] = "=" /\ s[f] = "$" /\ s[g] = "$"
      /\ \A j \in 1..n : e < j /\ j # f /\ j # g => s[j] \in Base64Chars
      /\ x \in 1..n /\ y \in 1..n /\ z \in 1..n /\ x < y /\ y < z
      /\ str[x] = "=" /\ str[y] = "$" /\ str[z] = "$"
      /\ \A j \in 1..n : x < j /\ j # y /\ j # z => str[j] \in Base64Chars
  BY DEF Fields
<1> HIDE DEF n
<1>2. "$" \notin Base64Chars /\ "=" \notin Base64Chars /\ "$" # "="
  BY SeparatorsAreNoChars
<1> SUFFICES ASSUME g < z PROVE FALSE
  BY <1>1
<1>3. i = z
  <2>1. s[z] \in Base64Chars
    BY <1>1
  <2> QED BY <1>1, <1>2, <2>1
<1>4. str[g] = "$" /\ str[f] = "$" /\ str[e] = "=" /\ s[x] = "=" /\ s[y] = "$"
  BY <1>1, <1>3
<1>5. g = y \/ g < x
  <2>1. ~ (x < g /\ g # y /\ g # z)
    BY <1>1, <1>2, <1>4
  <2>2. g # x
    BY <1>1, <1>2, <1>4
  <2> QED BY <1>1, <2>1, <2>2
<1>6. CASE g = y
  <2>1. ~ (x < f /\ f # y /\ f # z)
    BY <1>1, <1>2, <1>4
  <2>2. f # x /\ f # y /\ f # z
    BY <1>1, <1>2, <1>4, <1>6
  <2>3. f < x /\ x < g
    BY <1>1, <1>6, <2>1, <2>2
  <2>4. s[x] \in Base64Chars
    BY <1>1, <2>3
  <2> QED BY <1>2, <1>4, <2>4
<1>7. CASE g < x
  <2>1. s[x] \in Base64Chars
    BY <1>1, <1>7
  <2> QED BY <1>2, <1>4, <2>1
<1> QED BY <1>5, <1>6, <1>7

\* The last field, read from the end, stays where it is, with one change at most.
LEMMA LastField ==
    ASSUME NEW s, NEW str, Len(s) \in Nat, OneChange(s, str),
           NEW u, NEW v, Len(u) \in Nat, Len(v) \in Nat, Ended(s, u), Ended(str, v)
    PROVE  SameButOne(u, v)
<1>1. PICK i \in 1..Len(s) : \A j \in 1..Len(s) : j # i => str[j] = s[j]
  BY DEF OneChange
<1>2. Len(str) = Len(s)
  BY DEF OneChange
<1>3. PICK e, f, g \in Nat :
        /\ Fields(s, e, f, g) /\ Len(s) = g + Len(u)
        /\ \A n \in 1..Len(u) : s[g + n] = u[n]
  BY DEF Ended
<1>4. PICK x, y, z \in Nat :
        /\ Fields(str, x, y, z) /\ Len(str) = z + Len(v)
        /\ \A n \in 1..Len(v) : str[z + n] = v[n]
  BY DEF Ended
<1>5. z <= g
  BY <1>1, <1>2, <1>3, <1>4, NotLater
<1>6. g <= z
  <2>1. i \in 1..Len(str) /\ \A j \in 1..Len(str) : j # i => s[j] = str[j]
    BY <1>1, <1>2
  <2> QED BY <1>2, <1>3, <1>4, <2>1, NotLater
<1>7. g = z /\ Len(u) = Len(v)
  BY <1>2, <1>3, <1>4, <1>5, <1>6
<1> DEFINE h == i - g
           n == Len(s)
           m == Len(u)
<1>8. h \in Int
  OBVIOUS
<1>9. ASSUME NEW k \in 1..Len(u), k # h PROVE u[k] = v[k]
  <2>0. n \in Nat /\ m \in Nat /\ n = g + m /\ g \in Nat /\ i \in 1..n /\ k \in 1..m
    BY <1>3
  <2>1. g + k \in 1..n /\ g + k # i
    <3> HIDE DEF n, m
    <3> QED BY <1>9, <2>0
  <2>2. str[g + k] = s[g + k]
    BY <1>1, <2>1
  <2>3. s[g + k] = u[k] /\ str[g + k] = v[k]
    BY <1>3, <1>4, <1>7
  <2> QED BY <2>2, <2>3
<1> QED BY <1>8, <1>9 DEF SameButOne

\* What comes before does not matter.
LEMMA EndedLater ==
    ASSUME NEW S, NEW y \in Seq(S), NEW z \in Seq(S), NEW u, Len(u) \in Nat,
           Ended(z, u)
    PROVE  Ended(y \o z, u)
<1> DEFINE w == y \o z
           k == Len(y)
           n == Len(z)
           m == Len(u)
<1>1. PICK e, f, g \in Nat :
        /\ Fields(z, e, f, g) /\ Len(z) = g + Len(u)
        /\ \A i \in 1..Len(u) : z[g + i] = u[i]
  BY DEF Ended
<1>2. /\ w \in Seq(S) /\ Len(w) = k + n /\ k \in Nat /\ n \in Nat
      /\ \A i \in 1..(k + n) : w[i] = IF i <= k THEN y[i] ELSE z[i - k]
  BY ConcatProperties, LenProperties
<1>3. /\ e \in 1..n /\ f \in 1..n /\ g \in 1..n /\ e < f /\ f < g
      /\ z[e] = "=" /\ z[f] = "$" /\ z[g] = "$"
      /\ \A i \in 1..n : e < i /\ i # f /\ i # g => z[i] \in Base64Chars
      /\ n = g + m /\ \A i \in 1..m : z[g + i] = u[i]
  BY <1>1 DEF Fields
<1>m. m \in Nat
  OBVIOUS
<1> HIDE DEF w, k, n, m
<1>4. \A i \in 1..n : w[k + i] = z[i]
  <2> SUFFICES ASSUME NEW i \in 1..n PROVE w[k + i] = z[i]
    OBVIOUS
  <2>1. k + i \in 1..(k + n) /\ ~ (k + i <= k) /\ (k + i) - k = i
    BY <1>2
  <2> QED BY <1>2, <2>1
<1> DEFINE e1 == k + e
           f1 == k + f
           g1 == k + g
<1>5. /\ e1 \in 1..Len(w) /\ f1 \in 1..Len(w) /\ g1 \in 1..Len(w) /\ e1 < f1 /\ f1 < g1
      /\ e1 \in Nat /\ f1 \in Nat /\ g1 \in Nat
  BY SMTT(30), <1>2, <1>3
<1>6. w[e1] = "=" /\ w[f1] = "$" /\ w[g1] = "$"
  BY <1>3, <1>4
<1>7. ASSUME NEW i \in 1..Len(w), e1 < i, i # f1, i # g1 PROVE w[i] \in Base64Chars
  <2>1. i - k \in 1..n /\ k + (i - k) = i /\ e < i - k /\ i - k # f /\ i - k # g
    BY <1>2, <1>3, <1>7
  <2> QED BY <1>3, <1>4, <2>1
<1>8. Fields(w, e1, f1, g1)
  BY <1>5, <1>6, <1>7 DEF Fields
<1>9. Len(w) = g1 + m
  BY <1>2, <1>3, <1>5, <1>m
<1>10. ASSUME NEW i \in 1..m PROVE w[g1 + i] = u[i]
  <2>1. g + i \in 1..n /\ g1 + i = k + (g + i)
    BY <1>2, <1>3, <1>m
  <2> QED BY <1>3, <1>4, <2>1
<1> QED BY ZenonT(30), <1>5, <1>8, <1>9, <1>10 DEF Ended, w, m

\* A separator, a field and the rest, place by place.
ThreeParts(w, p, a, z) == w = p \o (a \o z)

HasPlaces(w, p, a, z) ==
    /\ Len(w) = Len(p) + Len(a) + Len(z)
    /\ Len(p) \in Nat /\ Len(a) \in Nat /\ Len(z) \in Nat
    /\ \A i \in 1..Len(p) : w[i] = p[i]
    /\ \A i \in 1..Len(a) : w[Len(p) + i] = a[i]
    /\ \A i \in 1..Len(z) : w[Len(p) + Len(a) + i] = z[i]

LEMMA Places ==
    ASSUME NEW S, NEW p \in Seq(S), NEW a \in Seq(S), NEW z \in Seq(S),
           NEW w, ThreeParts(w, p, a, z)
    PROVE  w \in Seq(S) /\ HasPlaces(w, p, a, z)
<1> DEFINE v == a \o z
           k == Len(p)
           m == Len(a)
           n == Len(z)
<1>1. /\ v \in Seq(S) /\ Len(v) = m + n /\ m \in Nat /\ n \in Nat
      /\ \A i \in 1..(m + n) : v[i] = IF i <= m THEN a[i] ELSE z[i - m]
  BY ConcatProperties, LenProperties
<1>2. w = p \o v
  BY Zenon DEF ThreeParts
<1> HIDE DEF v
<1> DEFINE r == p \o v
<1>3. /\ w \in Seq(S) /\ Len(w) = k + Len(v) /\ k \in Nat
      /\ \A i \in 1..(k + Len(v)) : w[i] = IF i <= k THEN p[i] ELSE v[i - k]
  <2>1. /\ r \in Seq(S) /\ Len(r) = k + Len(v) /\ k \in Nat
        /\ \A i \in 1..(k + Len(v)) : r[i] = IF i <= k THEN p[i] ELSE v[i - k]
    <3>1. v \in Seq(S)
      BY <1>1
    <3> QED BY <3>1, ConcatProperties, LenProperties DEF k
  <2>2. w = r
    BY <1>2
  <2> HIDE DEF r
  <2> QED BY <2>1, <2>2
<1> HIDE DEF k, m, n
<1>4. Len(w) = k + m + n
  BY <1>1, <1>3
<1>5. ASSUME NEW i \in 1..k PROVE w[i] = p[i]
  <2>1. i \in 1..(k + Len(v)) /\ i <= k
    BY <1>1, <1>3
  <2> QED BY <1>3, <2>1
<1>6. ASSUME NEW i \in 1..m PROVE w[k + i] = a[i]
  <2>1. k + i \in 1..(k + Len(v)) /\ ~ (k + i <= k) /\ (k + i) - k = i /\ i \in 1..(m + n) /\ i <= m
    BY <1>1, <1>3
  <2> QED BY <1>1, <1>3, <2>1
<1>7. ASSUME NEW i \in 1..n PROVE w[k + m + i] = z[i]
  <2>1. /\ k + m + i \in 1..(k + Len(v)) /\ ~ (k + m + i <= k) /\ (k + m + i) - k = m + i
        /\ m + i \in 1..(m + n) /\ ~ (m + i <= m) /\ (m + i) - m = i
    BY <1>1, <1>3
  <2> QED BY <1>1, <1>3, <2>1
<1> QED BY <1>1, <1>3, <1>4, <1>5, <1>6, <1>7 DEF HasPlaces, k, m, n

\* The lanes, the salt and the output end the text of a hash.
LEMMA LanesEnd ==
    ASSUME NEW c, IsHash(c)
    PROVE  Ended(LanesText(c), to_base64(c.out))
<1> DEFINE S == Alphabet
           a == Decimal[c.lanes]
           b == to_base64(c.salt)
           d == to_base64(c.out)
           one == <<"$">>
           p == <<",", "p", "=">>
           w3 == OutputText(c)
           w2 == SaltText(c)
           w1 == LanesText(c)
           e == Len(p)
           f == Len(p) + Len(a) + 1
           g == Len(p) + Len(a) + 1 + Len(b) + 1
<1>1. a \in Seq(S) /\ b \in Seq(S) /\ d \in Seq(S) /\ <<>> \in Seq(S)
  <2>1. "d" \in Types
    BY DEF Types
  <2> QED BY <2>1, FieldsAreText
<1>2. a \in Seq(Base64Chars) /\ b \in Seq(Base64Chars) /\ d \in Seq(Base64Chars)
  <2>1. IsDecimal(c.lanes)
    BY DecimalLength DEF IsHash
  <2>2. a \in Seq(Base64Chars)
    BY <2>1, Base64Facts, SeqMonotonic DEF IsDecimal
  <2>3. ASSUME NEW s, IsBytes(s) PROVE to_base64(s) \in Seq(Base64Chars)
    BY <2>3, LenProperties, Base64Length DEF IsBytes
  <2> QED BY <2>2, <2>3 DEF IsHash
<1>3. one \in Seq(S) /\ p \in Seq(S) /\ Len(one) = 1 /\ Len(p) = 3
  BY SeparatorsAreText, Zenon
<1>4. one[1] = "$" /\ p[3] = "="
  BY Zenon
<1>5. ThreeParts(w3, one, d, <<>>) /\ ThreeParts(w2, one, b, w3) /\ ThreeParts(w1, p, a, w2)
  BY Zenon DEF ThreeParts, OutputText, SaltText, LanesText
<1>6. \A i \in 1..Len(a) : a[i] \in Base64Chars
  BY <1>2, ElementOfSeq
<1>7. \A i \in 1..Len(b) : b[i] \in Base64Chars
  BY <1>2, ElementOfSeq
<1>8. \A i \in 1..Len(d) : d[i] \in Base64Chars
  BY <1>2, ElementOfSeq
<1> HIDE DEF S, a, b, d, one, p, w1, w2, w3
<1>9. /\ w3 \in Seq(S) /\ Len(w3) = 1 + Len(d) /\ Len(d) \in Nat
      /\ w3[1] = "$" /\ \A i \in 1..Len(d) : w3[1 + i] = d[i]
  <2>1. Len(<<>>) = 0
    OBVIOUS
  <2>0. w3 \in Seq(S) /\ HasPlaces(w3, one, d, <<>>)
    BY <1>1, <1>3, <1>5, Places
  <2>2. /\ w3 \in Seq(S) /\ Len(w3) = Len(one) + Len(d) + Len(<<>>)
        /\ Len(d) \in Nat
        /\ \A i \in 1..Len(one) : w3[i] = one[i]
        /\ \A i \in 1..Len(d) : w3[Len(one) + i] = d[i]
    BY <2>0 DEF HasPlaces
  <2>3. 1 \in 1..1
    OBVIOUS
  <2> QED BY <1>3, <1>4, <2>1, <2>2, <2>3
<1>10. /\ w2 \in Seq(S) /\ Len(w2) = 1 + Len(b) + Len(w3) /\ Len(b) \in Nat
       /\ w2[1] = "$" /\ \A i \in 1..Len(b) : w2[1 + i] = b[i]
       /\ \A i \in 1..Len(w3) : w2[1 + Len(b) + i] = w3[i]
  <2>0. w2 \in Seq(S) /\ HasPlaces(w2, one, b, w3)
    BY <1>1, <1>3, <1>5, <1>9, Places
  <2>1. /\ w2 \in Seq(S) /\ Len(w2) = Len(one) + Len(b) + Len(w3) /\ Len(b) \in Nat
        /\ \A i \in 1..Len(one) : w2[i] = one[i]
        /\ \A i \in 1..Len(b) : w2[Len(one) + i] = b[i]
        /\ \A i \in 1..Len(w3) : w2[Len(one) + Len(b) + i] = w3[i]
    BY <2>0 DEF HasPlaces
  <2>2. 1 \in 1..1
    OBVIOUS
  <2> QED BY <1>3, <1>4, <2>1, <2>2
<1>11. /\ w1 \in Seq(S) /\ Len(w1) = 3 + Len(a) + Len(w2) /\ Len(a) \in Nat
       /\ w1[3] = "=" /\ \A i \in 1..Len(a) : w1[3 + i] = a[i]
       /\ \A i \in 1..Len(w2) : w1[3 + Len(a) + i] = w2[i]
  <2>0. w1 \in Seq(S) /\ HasPlaces(w1, p, a, w2)
    BY <1>1, <1>3, <1>5, <1>10, Places
  <2>1. /\ w1 \in Seq(S) /\ Len(w1) = Len(p) + Len(a) + Len(w2) /\ Len(a) \in Nat
        /\ \A i \in 1..Len(p) : w1[i] = p[i]
        /\ \A i \in 1..Len(a) : w1[Len(p) + i] = a[i]
        /\ \A i \in 1..Len(w2) : w1[Len(p) + Len(a) + i] = w2[i]
    BY <2>0 DEF HasPlaces
  <2>2. 3 \in 1..3
    OBVIOUS
  <2> QED BY <1>3, <1>4, <2>1, <2>2
<1> DEFINE k == Len(a)
           l == Len(b)
           m == Len(d)
<1>12. /\ k \in Nat /\ l \in Nat /\ m \in Nat
       /\ Len(w1) = 3 + k + 1 + l + 1 + m
       /\ Len(w2) = 1 + l + 1 + m /\ Len(w3) = 1 + m
       /\ e = 3 /\ f = 3 + k + 1 /\ g = 3 + k + 1 + l + 1
  BY <1>3, <1>9, <1>10, <1>11
<1> HIDE DEF k, l, m, e, f, g
<1>13. /\ w1[e] = "="
       /\ \A i \in 1..k : w1[3 + i] \in Base64Chars
       /\ w1[f] = "$"
       /\ \A i \in 1..l : w1[3 + k + 1 + i] \in Base64Chars
       /\ w1[g] = "$"
       /\ \A i \in 1..m : w1[g + i] = d[i]
  <2>1. \A i \in 1..k : w1[3 + i] \in Base64Chars
    BY <1>6, <1>11 DEF k
  <2>2. \A i \in 1..(1 + l + 1 + m) : w1[3 + k + i] = w2[i]
    BY <1>11, <1>12 DEF k
  <2>3. \A i \in 1..(1 + m) : w2[1 + l + i] = w3[i]
    BY <1>10, <1>12 DEF l
  <2>4. w1[f] = "$"
    <3>1. 1 \in 1..(1 + l + 1 + m)
      BY <1>12
    <3> QED BY <1>10, <1>12, <2>2, <3>1
  <2>5. ASSUME NEW i \in 1..l PROVE w1[3 + k + 1 + i] \in Base64Chars
    <3>1. 1 + i \in 1..(1 + l + 1 + m) /\ 3 + k + 1 + i = 3 + k + (1 + i)
      BY <1>12
    <3>2. w2[1 + i] = b[i] /\ b[i] \in Base64Chars
      BY <1>7, <1>10 DEF l
    <3> QED BY <2>2, <3>1, <3>2
  <2>6. ASSUME NEW i \in 1..(1 + m) PROVE w1[3 + k + 1 + l + i] = w3[i]
    <3>1. 1 + l + i \in 1..(1 + l + 1 + m) /\ 3 + k + 1 + l + i = 3 + k + (1 + l + i)
      BY <1>12
    <3> QED BY <2>2, <2>3, <3>1
  <2>7. w1[g] = "$"
    <3>1. 1 \in 1..(1 + m)
      BY <1>12
    <3> QED BY <1>9, <1>12, <2>6, <3>1
  <2>8. ASSUME NEW i \in 1..m PROVE w1[g + i] = d[i]
    <3>1. 1 + i \in 1..(1 + m) /\ g + i = 3 + k + 1 + l + (1 + i)
      BY <1>12
    <3>2. w3[1 + i] = d[i]
      BY <1>9 DEF m
    <3> QED BY <2>6, <3>1, <3>2
  <2> QED BY <1>11, <1>12, <2>1, <2>4, <2>5, <2>7, <2>8
<1>14. ASSUME NEW i \in 1..Len(w1), e < i, i # f, i # g PROVE w1[i] \in Base64Chars
  <2>1. \/ i - 3 \in 1..k /\ 3 + (i - 3) = i
        \/ i - (3 + k + 1) \in 1..l /\ 3 + k + 1 + (i - (3 + k + 1)) = i
        \/ i - g \in 1..m /\ g + (i - g) = i
    BY <1>12, <1>14
  <2>2. \A j \in 1..m : d[j] \in Base64Chars
    BY <1>8 DEF m
  <2> QED BY <1>13, <2>1, <2>2
<1>15. /\ e \in 1..Len(w1) /\ f \in 1..Len(w1) /\ g \in 1..Len(w1) /\ e < f /\ f < g
       /\ e \in Nat /\ f \in Nat /\ g \in Nat /\ Len(w1) = g + m
  BY <1>12
<1>16. Fields(w1, e, f, g)
  BY <1>13, <1>14, <1>15 DEF Fields
<1>17. \A n \in 1..Len(d) : w1[g + n] = d[n]
  BY <1>13 DEF m
<1> QED BY <1>15, <1>16, <1>17 DEF Ended, w1, d, m

\* So they do with the version named or not.
LEMMA TextEnded ==
    ASSUME NEW c, IsHash(c), NEW t \in Types
    PROVE  /\ Ended(Text(c, t), to_base64(c.out))
           /\ Ended(UnversionedText(c, t), to_base64(c.out))
           /\ Len(UnversionedText(c, t)) < Len(Text(c, t))
<1> DEFINE S == Alphabet
           u == to_base64(c.out)
           one == <<"$">>
           v == <<"$", "v", "=">>
           m == <<"$", "m", "=">>
           s == <<",", "t", "=">>
           h == type_string(t)
           dv == Decimal[c.version]
           dm == Decimal[c.m_cost]
           dt == Decimal[c.t_cost]
           w1 == LanesText(c)
           w2 == TimeText(c)
           w3 == MemoryText(c)
           w4 == VersionText(c)
           x3 == UnversionedText(c, t)
           x4 == Text(c, t)
<1>1. /\ h \in Seq(S) /\ dv \in Seq(S) /\ dm \in Seq(S) /\ dt \in Seq(S) /\ u \in Seq(S)
  BY FieldsAreText
<1>2. w1 \in Seq(S) /\ w2 \in Seq(S) /\ w3 \in Seq(S) /\ w4 \in Seq(S)
  BY TextsBegin
<1>3. one \in Seq(S) /\ v \in Seq(S) /\ m \in Seq(S) /\ s \in Seq(S) /\ Len(v) = 3
  BY SeparatorsAreText, Zenon
<1>4. /\ ThreeParts(w2, s, dt, w1) /\ ThreeParts(w3, m, dm, w2) /\ ThreeParts(w4, v, dv, w3)
      /\ ThreeParts(x3, one, h, w3)
  BY Zenon DEF ThreeParts, TimeText, MemoryText, VersionText, UnversionedText
<1>5. ThreeParts(x4, one, h, w4)
  BY TextFromItsEnd, Zenon DEF ThreeParts
<1>6. Ended(w1, u)
  BY LanesEnd
<1>7. Len(u) \in Nat
  BY <1>1, LenProperties
<1> HIDE DEF S, u, one, v, m, s, h, dv, dm, dt, w1, w2, w3, w4, x3, x4
<1>8. ASSUME NEW x \in Seq(S), NEW y \in Seq(S), NEW z \in Seq(S), Ended(z, u),
             NEW w, ThreeParts(w, x, y, z)
      PROVE  Ended(w, u)
  <2> DEFINE r == y \o z
  <2>1. r \in Seq(S) /\ Ended(r, u)
    BY <1>7, <1>8, ConcatProperties, EndedLater
  <2>2. w = x \o r
    BY <1>8, Zenon DEF ThreeParts
  <2> HIDE DEF r
  <2>3. Ended(x \o r, u)
    BY <1>7, <2>1, EndedLater
  <2> QED BY <2>2, <2>3, Zenon
<1>9. Ended(w2, u)
  BY <1>1, <1>2, <1>3, <1>4, <1>6, <1>8
<1>10. Ended(w3, u)
  BY <1>1, <1>2, <1>3, <1>4, <1>9, <1>8
<1>11. Ended(w4, u)
  BY <1>1, <1>2, <1>3, <1>4, <1>10, <1>8
<1>12. Ended(x4, u) /\ Ended(x3, u)
  BY <1>1, <1>2, <1>3, <1>4, <1>5, <1>10, <1>11, <1>8
<1>13. Len(x3) < Len(x4)
  <2>1. HasPlaces(w4, v, dv, w3)
    BY <1>1, <1>2, <1>3, <1>4, Places
  <2>2. HasPlaces(x3, one, h, w3)
    BY <1>1, <1>2, <1>3, <1>4, Places
  <2>3. HasPlaces(x4, one, h, w4)
    BY <1>1, <1>2, <1>3, <1>5, Places
  <2> QED BY <1>3, <2>1, <2>2, <2>3 DEF HasPlaces
<1> QED BY <1>12, <1>13 DEF u, x3, x4

-----------------------------------------------------------------------------
(* The tag of an ideal hash is one byte, again and again.                   *)

\* The characters that bytes k begin with.
SextetChar(x) == b64_byte_to_char(x % 64)

Starts(o, k) ==
    /\ Len(o) \in Nat /\ Len(o) >= 4
    /\ o[1] = SextetChar(k \div 4)
    /\ o[2] = SextetChar((k * 257) \div 16)
    /\ o[4] = SextetChar(k * 257)

LEMMA SixBits ==
    ASSUME NEW q \in Nat, NEW r \in 0..63
    PROVE  (64 * q + r) % 64 = r
OBVIOUS

\* Each pair of bits of a byte that repeats is in two of three of its characters.
LEMMA BitsOfTag ==
    ASSUME NEW k \in 0..255
    PROVE  \E a, b, c, d \in 0..3 :
              /\ k = 64 * a + 16 * b + 4 * c + d
              /\ (k \div 4) % 64 = 16 * a + 4 * b + c
              /\ ((k * 257) \div 16) % 64 = 16 * d + 4 * a + b
              /\ (k * 257) % 64 = 16 * b + 4 * c + d
<1> DEFINE a == k \div 64
           b == (k \div 16) % 4
           c == (k \div 4) % 4
           d == k % 4
<1>1. a \in 0..3 /\ b \in 0..3 /\ c \in 0..3 /\ d \in 0..3 /\ k = 64 * a + 16 * b + 4 * c + d
  OBVIOUS
<1> HIDE DEF a, b, c, d
<1>2. (k \div 4) % 64 = 16 * a + 4 * b + c
  BY <1>1
<1>3. (k * 257) % 64 = 16 * b + 4 * c + d
  <2>1. k * 257 = 64 * (4 * k + a) + (16 * b + 4 * c + d) /\ 16 * b + 4 * c + d \in 0..63
    BY <1>1
  <2> QED BY <1>1, <2>1
<1>4. ((k * 257) \div 16) % 64 = 16 * d + 4 * a + b
  <2>1. (k * 257) \div 16 = 16 * k + 4 * a + b
    <3>1. k * 257 = 16 * (16 * k + 4 * a + b) + (4 * c + d) /\ 4 * c + d \in 0..15
      BY <1>1
    <3> QED BY <1>1, <3>1
  <2>2. 16 * k + 4 * a + b = 64 * (16 * a + 4 * b + c) + (16 * d + 4 * a + b)
    BY <1>1
  <2> DEFINE r == 16 * d + 4 * a + b
             q == 16 * a + 4 * b + c
  <2>3. r \in 0..63 /\ q \in Nat
    BY <1>1
  <2>4. (k * 257) \div 16 = 64 * q + r
    BY <2>1, <2>2
  <2> HIDE DEF q, r
  <2>5. (64 * q + r) % 64 = r
    BY <2>3, SixBits
  <2>6. ((k * 257) \div 16) % 64 = r
    BY <2>4, <2>5
  <2> QED BY <2>6 DEF r
<1> QED BY <1>1, <1>2, <1>3, <1>4

\* A character tells the six bits.
LEMMA SameSextet ==
    ASSUME NEW x \in Nat, NEW y \in Nat, SextetChar(x) = SextetChar(y)
    PROVE  x % 64 = y % 64
<1>1. (x % 64) + 1 \in 1..64 /\ (y % 64) + 1 \in 1..64
  OBVIOUS
<1>2. Base64[(x % 64) + 1] = Base64[(y % 64) + 1]
  BY DEF SextetChar, b64_byte_to_char
<1>3. (x % 64) + 1 = (y % 64) + 1
  BY <1>1, <1>2, CharsDiffer
<1> QED BY <1>1, <1>3

\* Two of the characters tell the byte.
LEMMA SameTag ==
    ASSUME NEW k \in 0..255, NEW p \in 0..255, NEW u, NEW v, Starts(u, k), Starts(v, p),
           SameButOne(u, v)
    PROVE  k = p
<1>0. PICK i \in Int : \A n \in 1..Len(u) : n # i => u[n] = v[n]
  BY DEF SameButOne
<1>1. PICK a, b, c, d \in 0..3 :
              /\ k = 64 * a + 16 * b + 4 * c + d
              /\ (k \div 4) % 64 = 16 * a + 4 * b + c
              /\ ((k * 257) \div 16) % 64 = 16 * d + 4 * a + b
              /\ (k * 257) % 64 = 16 * b + 4 * c + d
  BY BitsOfTag
<1>2. PICK a1, b1, c1, d1 \in 0..3 :
              /\ p = 64 * a1 + 16 * b1 + 4 * c1 + d1
              /\ (p \div 4) % 64 = 16 * a1 + 4 * b1 + c1
              /\ ((p * 257) \div 16) % 64 = 16 * d1 + 4 * a1 + b1
              /\ (p * 257) % 64 = 16 * b1 + 4 * c1 + d1
  BY BitsOfTag
<1>3. /\ k \div 4 \in Nat /\ (k * 257) \div 16 \in Nat /\ k * 257 \in Nat
      /\ p \div 4 \in Nat /\ (p * 257) \div 16 \in Nat /\ p * 257 \in Nat
  OBVIOUS
<1>4. 1 \in 1..Len(u) /\ 2 \in 1..Len(u) /\ 4 \in 1..Len(u)
  BY DEF Starts
<1>5. ASSUME i # 1 PROVE 16 * a + 4 * b + c = 16 * a1 + 4 * b1 + c1
  <2>1. SextetChar(k \div 4) = SextetChar(p \div 4)
    BY <1>0, <1>4, <1>5 DEF Starts
  <2> QED BY <1>1, <1>2, <1>3, <2>1, SameSextet
<1>6. ASSUME i # 2 PROVE 16 * d + 4 * a + b = 16 * d1 + 4 * a1 + b1
  <2>1. SextetChar((k * 257) \div 16) = SextetChar((p * 257) \div 16)
    BY <1>0, <1>4, <1>6 DEF Starts
  <2> QED BY <1>1, <1>2, <1>3, <2>1, SameSextet
<1>7. ASSUME i # 4 PROVE 16 * b + 4 * c + d = 16 * b1 + 4 * c1 + d1
  <2>1. SextetChar(k * 257) = SextetChar(p * 257)
    BY <1>0, <1>4, <1>7 DEF Starts
  <2> QED BY ZenonT(30), <1>1, <1>2, <1>3, <2>1, SameSextet
<1>8. a = a1 /\ b = b1 /\ c = c1 /\ d = d1
  BY <1>5, <1>6, <1>7
<1> QED BY <1>1, <1>2, <1>8

LEMMA StartsStay ==
    ASSUME NEW S, NEW o \in Seq(S), NEW x \in Seq(S), NEW k, Starts(o, k)
    PROVE  Starts(o \o x, k)
<1> DEFINE w == o \o x
           n == Len(o)
           m == Len(x)
<1>1. /\ Len(w) = n + m /\ m \in Nat /\ n \in Nat
      /\ \A i \in 1..(n + m) : w[i] = IF i <= n THEN o[i] ELSE x[i - n]
  BY ConcatProperties, LenProperties
<1>2. n >= 4
  BY DEF Starts
<1> HIDE DEF w, n, m
<1>3. w[1] = o[1] /\ w[2] = o[2] /\ w[4] = o[4] /\ Len(w) \in Nat /\ Len(w) >= 4
  BY <1>1, <1>2
<1>4. Starts(w, k)
  BY <1>3 DEF Starts
<1> QED BY <1>4 DEF w

\* Whatever byte follows.
LEMMA PutByteStarts ==
    ASSUME NEW b, NEW i \in Nat, Holds(b, i), NEW byte, IsByte(byte), NEW k, Starts(b.out, k)
    PROVE  Starts(PutByte(b, byte).out, k)
<1> DEFINE acc == Shifted(b.acc, byte)
           x1 == b64_byte_to_char((acc \div 4) % 64)
           x2 == b64_byte_to_char((acc \div 16) % 64)
           x3 == b64_byte_to_char((acc \div 64) % 64)
           x4 == b64_byte_to_char((acc \div 1) % 64)
           S == Base64Chars
           o == b.out
<1>1. acc \in Nat
  BY DEF Holds, Shifted, IsByte, AccSize
<1>2. x1 \in S /\ x2 \in S /\ x3 \in S /\ x4 \in S
  BY <1>1, SextetIsChar
<1>3. /\ b.acc_len = 0 => PutByte(b, byte).out = Append(o, x1)
      /\ b.acc_len = 2 => PutByte(b, byte).out = Append(o, x2)
      /\ b.acc_len = 4 => PutByte(b, byte).out = o \o <<x3, x4>>
  BY PutByteCases
<1>4. o \in Seq(S) /\ b.acc_len \in {0, 2, 4}
  BY DEF Holds
<1> HIDE DEF acc, x1, x2, x3, x4, S, o
<1>5. <<x1>> \in Seq(S) /\ <<x2>> \in Seq(S) /\ <<x3, x4>> \in Seq(S)
  BY <1>2
<1>6. Append(o, x1) = o \o <<x1>> /\ Append(o, x2) = o \o <<x2>>
  BY <1>2, <1>4, AppendIsConcat
<1>7. Starts(o, k)
  BY DEF o
<1>8. Starts(o \o <<x1>>, k) /\ Starts(o \o <<x2>>, k) /\ Starts(o \o <<x3, x4>>, k)
  BY <1>4, <1>5, <1>7, StartsStay
<1> QED BY <1>3, <1>4, <1>6, <1>8

TwoMoreChars(u, t, c, l) == u = t \o <<c, l>>

LEMMA LastTwo ==
    ASSUME NEW e, e.acc_len = 4, NEW x,
           NEW c, c = b64_byte_to_char((Shifted(e.acc, x) \div 64) % 64),
           NEW l, l = b64_byte_to_char((Shifted(e.acc, x) \div 1) % 64),
           NEW r, r = PutByte(e, x)
    PROVE  TwoMoreChars(r.out, e.out, c, l)
<1> DEFINE acc == Shifted(e.acc, x)
           a == b64_byte_to_char((acc \div 64) % 64)
           b == b64_byte_to_char((acc \div 1) % 64)
           o == e.out \o <<a, b>>
<1>1. r = [acc |-> acc, acc_len |-> 0, out |-> o]
  BY PutByteCases
<1>2. a = c /\ b = l
  OBVIOUS
<1> HIDE DEF acc, a, b
<1>3. o = e.out \o <<c, l>>
  BY <1>2
<1> HIDE DEF o
<1>4. r.out = o
  BY <1>1
<1> QED BY <1>3, <1>4, Zenon DEF TwoMoreChars

BeginsWith(u, x1, x2, x4) == Len(u) = 4 /\ u[1] = x1 /\ u[2] = x2 /\ u[4] = x4

\* Four characters, put one by one and two at a time.
LEMMA FourChars ==
    ASSUME NEW x1, NEW x2, NEW x3, NEW x4, NEW s, s = Append(<<>>, x1),
           NEW t, t = Append(s, x2), NEW u, TwoMoreChars(u, t, x3, x4)
    PROVE  BeginsWith(u, x1, x2, x4)
<1> DEFINE S == {x1, x2, x3, x4}
           v == <<x3, x4>>
<1>1. x1 \in S /\ x2 \in S /\ <<>> \in Seq(S) /\ Len(<<>>) = 0
  OBVIOUS
<1>2. v \in Seq(S) /\ Len(v) = 2 /\ v[2] = x4
  OBVIOUS
<1> HIDE DEF S, v
<1>3. s \in Seq(S) /\ Len(s) = 1 /\ s[1] = x1
  BY <1>1, AppendProperties
<1>4. t \in Seq(S) /\ Len(t) = 2 /\ t[2] = x2 /\ t[1] = x1
  <2>1. 1 \in 1..Len(s)
    BY <1>3
  <2> QED BY <1>1, <1>3, <2>1, AppendProperties
<1> DEFINE w == t \o v
<1>5. Len(w) = 4 /\ w[1] = x1 /\ w[2] = x2 /\ w[4] = x4
  <2>1. /\ Len(w) = Len(t) + Len(v)
        /\ \A i \in 1..(Len(t) + Len(v)) : w[i] = IF i <= Len(t) THEN t[i] ELSE v[i - Len(t)]
    <3>1. t \in Seq(S) /\ v \in Seq(S)
      BY <1>2, <1>4
    <3> QED BY <3>1, ConcatProperties
  <2> HIDE DEF w
  <2> QED BY <1>2, <1>4, <2>1
<1>6. u = w
  BY Zenon DEF v, TwoMoreChars
<1> HIDE DEF w
<1> QED BY <1>5, <1>6 DEF BeginsWith

\* The accumulator after a second and a third byte k.
LEMMA RepeatedByte ==
    ASSUME NEW k \in 0..255
    PROVE  (k * 256 + k) % 65536 = k * 257 /\ (k * 257 * 256 + k) % 65536 = k * 257
<1> DEFINE m == k * 257
<1>1. m \in Nat /\ m <= 65535 /\ k * 256 + k = m
  OBVIOUS
<1>2. m * 256 + k = 65536 * k + m
  OBVIOUS
<1> HIDE DEF m
<1>3. m % 65536 = m
  BY <1>1
<1>4. (65536 * k + m) % 65536 = m
  BY <1>1
<1>5. (k * 256 + k) % 65536 = m /\ (m * 256 + k) % 65536 = m
  BY <1>1, <1>2, <1>3, <1>4
<1> QED BY <1>5 DEF m

LEMMA ThreeBytes ==
    ASSUME NEW g, NEW src, NEW n \in Nat, n >= 3, InBytes(g, src, n),
           NEW k \in 0..255, src[1] = k, src[2] = k, src[3] = k
    PROVE  Starts(g[3].out, k)
<1>1. g[0] = [acc |-> 0, acc_len |-> 0, out |-> <<>>]
  <2>1. 0 \in 0..n
    OBVIOUS
  <2> QED BY <2>1 DEF InBytes
<1>2. g[1] = PutByte(g[0], k) /\ g[2] = PutByte(g[1], k) /\ g[3] = PutByte(g[2], k)
  <2>1. 1 \in 0..n /\ 2 \in 0..n /\ 3 \in 0..n /\ 1 - 1 = 0 /\ 2 - 1 = 1 /\ 3 - 1 = 2
    OBVIOUS
  <2>2. \A i \in 0..n : i # 0 => g[i] = PutByte(g[i - 1], src[i])
    BY DEF InBytes
  <2> QED BY <2>1, <2>2
<1>3. Shifted(0, k) = k /\ Shifted(k, k) = k * 257 /\ Shifted(k * 257, k) = k * 257
  <2>3. (0 * 256 + k) % 65536 = k
    OBVIOUS
  <2>4. (k * 256 + k) % 65536 = k * 257 /\ (k * 257 * 256 + k) % 65536 = k * 257
    BY RepeatedByte
  <2> QED BY <2>3, <2>4, Powers DEF Shifted
<1> DEFINE x1 == SextetChar(k \div 4)
           x2 == SextetChar((k * 257) \div 16)
           x3 == SextetChar((k * 257) \div 64)
           x4 == SextetChar(k * 257)
<1>4. g[1].acc = k /\ g[1].acc_len = 2 /\ g[1].out = Append(<<>>, x1)
  <2>1. g[0].acc = 0 /\ g[0].acc_len = 0 /\ g[0].out = <<>>
    BY <1>1
  <2>2. PutByte(g[0], k) =
                [acc |-> Shifted(g[0].acc, k), acc_len |-> 2,
                 out |-> Append(g[0].out, b64_byte_to_char((Shifted(g[0].acc, k) \div 4) % 64))]
    BY ZenonT(30), <2>1, PutByteCases
  <2> QED BY <1>2, <1>3, <2>1, <2>2 DEF SextetChar
<1>5. g[2].acc = k * 257 /\ g[2].acc_len = 4 /\ g[2].out = Append(g[1].out, x2)
  <2>2. PutByte(g[1], k) =
                [acc |-> Shifted(g[1].acc, k), acc_len |-> 4,
                 out |-> Append(g[1].out, b64_byte_to_char((Shifted(g[1].acc, k) \div 16) % 64))]
    BY ZenonT(30), <1>4, PutByteCases
  <2> QED BY <1>2, <1>3, <1>4, <2>2 DEF SextetChar
<1>6. TwoMoreChars(g[3].out, g[2].out, x3, x4)
  <2>1. Shifted(g[2].acc, k) = k * 257 /\ (k * 257) \div 1 = k * 257
    BY <1>3, <1>5
  <2>2. /\ x3 = b64_byte_to_char((Shifted(g[2].acc, k) \div 64) % 64)
        /\ x4 = b64_byte_to_char((Shifted(g[2].acc, k) \div 1) % 64)
    BY <2>1 DEF SextetChar
  <2> HIDE DEF x3, x4
  <2>3. g[3] = PutByte(g[2], k) /\ g[2].acc_len = 4
    BY <1>2, <1>5
  <2> QED BY <2>2, <2>3, LastTwo
<1> HIDE DEF x1, x2, x3, x4
<1>7. BeginsWith(g[3].out, x1, x2, x4)
  <2>1. g[1].out = Append(<<>>, x1) /\ g[2].out = Append(g[1].out, x2)
    BY <1>4, <1>5
  <2> QED BY <2>1, <1>6, FourChars, Zenon
<1> QED BY <1>7 DEF BeginsWith, Starts, x1, x2, x4

\* The text of a tag begins with its first three bytes.
LEMMA TagStarts ==
    ASSUME NEW src, IsBytes(src), Len(src) >= 3,
           NEW k \in 0..255, src[1] = k, src[2] = k, src[3] = k
    PROVE  Starts(to_base64(src), k)
<1> DEFINE g == putBytes(src)
           n == Len(src)
           T == {i \in Nat : 3 <= i /\ i <= n => Holds(g[i], i) /\ Starts(g[i].out, k)}
<1>0. InBytes(g, src, n) /\ n \in Nat /\ n >= 3 /\ \A i \in 1..n : IsByte(src[i])
  BY LenProperties, putBytesFacts DEF IsBytes
<1>h. \A i \in 1..n : Holds(g[i], i)
  <2> DEFINE H == {i \in Nat : i <= n => Holds(g[i], i)}
  <2>1. 0 \in H
    <3>1. 0 \in 0..n
      BY <1>0
    <3>2. g[0] = [acc |-> 0, acc_len |-> 0, out |-> <<>>]
      BY <1>0, <3>1 DEF InBytes
    <3> HIDE DEF g
    <3>3. g[0].acc = 0 /\ g[0].acc_len = 0 /\ g[0].out = <<>>
      BY <3>2
    <3>4. Holds(g[0], 0)
      BY <3>3 DEF Holds
    <3> QED BY <3>4
  <2>2. ASSUME NEW i \in Nat, i \in H PROVE i + 1 \in H
    <3> HIDE DEF g, n
    <3> SUFFICES ASSUME i + 1 <= n PROVE Holds(g[i + 1], i + 1)
      OBVIOUS
    <3>1. i + 1 \in 0..n /\ i + 1 # 0 /\ (i + 1) - 1 = i /\ i + 1 \in 1..n /\ i <= n
      BY <1>0
    <3>2. g[i + 1] = PutByte(g[i], src[i + 1])
      BY <1>0, <3>1 DEF InBytes
    <3> QED BY <1>0, <2>2, <3>1, <3>2, PutByteHolds
  <2> HIDE DEF H
  <2>3. Nat \subseteq H
    BY <2>1, <2>2, AllNumbers
  <2> QED BY <2>3 DEF H
<1> HIDE DEF g, n
<1>1. 0 \in T
  OBVIOUS
<1>2. ASSUME NEW i \in Nat, i \in T PROVE i + 1 \in T
  <2> SUFFICES ASSUME 3 <= i + 1, i + 1 <= n
               PROVE  Holds(g[i + 1], i + 1) /\ Starts(g[i + 1].out, k)
    OBVIOUS
  <2>1. i + 1 \in 0..n /\ i + 1 # 0 /\ (i + 1) - 1 = i /\ i + 1 \in 1..n
    BY <1>0
  <2>2. Holds(g[i + 1], i + 1)
    BY <1>h, <2>1
  <2>3. CASE i + 1 = 3
    <3>1. Starts(g[3].out, k)
      BY <1>0, ThreeBytes
    <3> QED BY <2>2, <2>3, <3>1
  <2>4. CASE i + 1 # 3
    <3>0. 3 <= i /\ i <= n
      BY <1>0, <2>4
    <3>1. Holds(g[i], i) /\ Starts(g[i].out, k)
      BY <1>2, <3>0
    <3>2. g[i + 1] = PutByte(g[i], src[i + 1])
      BY <1>0, <2>1 DEF InBytes
    <3>3. IsByte(src[i + 1])
      BY <1>0, <2>1
    <3>4. Starts(PutByte(g[i], src[i + 1]).out, k)
      BY <3>1, <3>3, PutByteStarts
    <3> QED BY <2>2, <3>2, <3>4
  <2> QED BY <2>3, <2>4
<1>3. Nat \subseteq T
  <2> HIDE DEF T
  <2> QED BY <1>1, <1>2, AllNumbers
<1>4. Holds(g[n], n) /\ Starts(g[n].out, k)
  BY <1>0, <1>3
<1> DEFINE b == g[n]
           last == b64_byte_to_char((b.acc * 2^(6 - b.acc_len)) % 64)
<1>5. to_base64(src) = IF b.acc_len = 0 THEN b.out ELSE Append(b.out, last)
  BY DEF to_base64, g, n
<1>6. CASE b.acc_len = 0
  BY <1>4, <1>5, <1>6
<1>7. CASE b.acc_len # 0
  <2> HIDE DEF last, b
  <2> DEFINE S == Base64Chars \cup {last}
  <2>1. b.out \in Seq(S) /\ <<last>> \in Seq(S)
    <3>1. b.out \in Seq(Base64Chars)
      BY <1>4 DEF Holds, b
    <3> QED BY <3>1, SeqMonotonic
  <2>2. last \in S
    OBVIOUS
  <2> HIDE DEF S
  <2>3. Append(b.out, last) = b.out \o <<last>>
    BY <2>1, <2>2, AppendIsConcat
  <2>4. Starts(b.out \o <<last>>, k)
    BY <1>4, <2>1, StartsStay DEF b
  <2> QED BY <1>5, <1>7, <2>3, <2>4
<1> QED BY <1>6, <1>7

-----------------------------------------------------------------------------
\* The output of c is k, three times at least.
Repeats(c, k) == k \in 0..255 /\ c.outlen >= 3 /\ c.out = [i \in 1..c.outlen |-> k]

\* What decode_string reads as the hash c.
IsTextOf(str, c, type) == str = Text(c, type) \/ str = UnversionedText(c, type)

\* Two tags of bytes that repeat, each at the end of a string: when the strings
\* differ in one place at most, the bytes are the same.
THEOREM OneChangeKeepsTag ==
    ASSUME NEW c, IsHash(c), NEW t \in Types, NEW x, IsHash(x), NEW r \in Types,
           NEW str, OneChange(Text(c, t), str), IsTextOf(str, x, r),
           NEW k, Repeats(c, k), NEW p, Repeats(x, p)
    PROVE  k = p
<1> DEFINE s == Text(c, t)
           u == to_base64(c.out)
           v == to_base64(x.out)
<1>1. Len(s) \in Nat
  BY TextWritten, 0 \in Nat
<1>2. Ended(s, u)
  BY TextEnded
<1>3. Ended(str, v)
  BY TextEnded DEF IsTextOf
<1>9. k \in 0..255 /\ p \in 0..255
  BY DEF Repeats
<1>4. Starts(u, k)
  <2>1. IsBytes(c.out) /\ Len(c.out) >= 3
    BY DEF IsHash, Repeats
  <2>2. c.outlen \in Nat
    BY SizesAreNumbers DEF IsHash
  <2>3. c.out[1] = k /\ c.out[2] = k /\ c.out[3] = k
    <3>1. 1 \in 1..c.outlen /\ 2 \in 1..c.outlen /\ 3 \in 1..c.outlen
      BY <2>2 DEF Repeats
    <3> QED BY <3>1 DEF Repeats
  <2> QED BY <1>9, <2>1, <2>3, TagStarts
<1>5. Starts(v, p)
  <2>1. IsBytes(x.out) /\ Len(x.out) >= 3
    BY DEF IsHash, Repeats
  <2>2. x.outlen \in Nat
    BY SizesAreNumbers DEF IsHash
  <2>3. x.out[1] = p /\ x.out[2] = p /\ x.out[3] = p
    <3>1. 1 \in 1..x.outlen /\ 2 \in 1..x.outlen /\ 3 \in 1..x.outlen
      BY <2>2 DEF Repeats
    <3> QED BY <3>1 DEF Repeats
  <2> QED BY <1>9, <2>1, <2>3, TagStarts
<1>6. OneChange(s, str)
  OBVIOUS
<1> HIDE DEF s, u, v
<1>7. Len(u) \in Nat /\ Len(v) \in Nat
  BY <1>4, <1>5 DEF Starts
<1>8. SameButOne(u, v)
  BY <1>1, <1>2, <1>3, <1>6, <1>7, LastField
<1> QED BY <1>4, <1>5, <1>8, <1>9, SameTag

\* What the text of a hash is made of; and when two texts are the same.
SameInText(c, x) ==
    /\ c.version = x.version /\ c.m_cost = x.m_cost /\ c.t_cost = x.t_cost
    /\ c.lanes = x.lanes /\ c.salt = x.salt /\ c.out = x.out

LEMMA SameText ==
    ASSUME NEW c, IsHash(c), NEW x, SameInText(c, x), IsHash(x), NEW t \in Types,
           NEW str, OneChange(Text(c, t), str), IsTextOf(str, x, t)
    PROVE  str = Text(c, t)
<1>1. Text(x, t) = Text(c, t)
  BY DEF SameInText, Text
<1>2. Len(str) = Len(Text(c, t)) /\ Len(Text(c, t)) \in Nat
  BY TextWritten, 0 \in Nat DEF OneChange
<1>3. Len(UnversionedText(x, t)) < Len(Text(x, t))
  BY TextEnded
<1> DEFINE a == Text(x, t)
           b == UnversionedText(x, t)
           d == Text(c, t)
<1> HIDE DEF a, b, d
<1>4. /\ a = d /\ Len(str) = Len(d) /\ Len(d) \in Nat /\ Len(b) < Len(a)
      /\ str = a \/ str = b
  BY <1>1, <1>2, <1>3 DEF a, b, d, IsTextOf
<1>5. str = d
  BY <1>4
<1> QED BY <1>5 DEF d

\* What is altered is still a sequence, and one character is changed.
LEMMA OneCharAltered ==
    ASSUME NEW S, NEW s \in Seq(S), NEW i \in DOMAIN s, NEW a \in S
    PROVE  ReplaceAt(s, i, a) \in Seq(S) /\ OneChange(s, ReplaceAt(s, i, a))
<1> DEFINE n == Len(s)
           w == [s EXCEPT ![i] = a]
<1>1. ReplaceAt(s, i, a) = w
  BY DEF ReplaceAt
<1>2. n \in Nat /\ DOMAIN s = 1..n /\ i \in 1..n
  BY LenProperties
<1>3. w \in Seq(S) /\ Len(w) = n /\ DOMAIN w = 1..n
  BY <1>2, ExceptSeq
<1>4. \A j \in 1..n : j # i => w[j] = s[j]
  BY <1>2
<1> HIDE DEF w
<1>5. OneChange(s, w)
  BY <1>2, <1>3, <1>4 DEF OneChange
<1> QED BY <1>1, <1>3, <1>5
=============================================================================
