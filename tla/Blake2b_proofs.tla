--------------------------- MODULE Blake2b_proofs ---------------------------
(***************************************************************************)
(* The digest of a message does not depend on the parts it was fed in, and  *)
(* nothing of it stays in the state: for every size of a block, of a word   *)
(* and of a message.  Recursive functions are reasoned about by the least   *)
(* number at which a fact fails.                                            *)
(***************************************************************************)
EXTENDS Blake2b, SequenceTheorems, WellFoundedInduction, TLAPS

-----------------------------------------------------------------------------
(* Numbers. *)

\* What holds of 0, and of n + 1 when it holds of n, holds of every number.
LEMMA AllNumbers ==
    ASSUME NEW T, 0 \in T, \A n \in Nat : n \in T => n + 1 \in T
    PROVE  Nat \subseteq T
<1> SUFFICES ASSUME NEW m \in Nat, m \notin T PROVE FALSE
  OBVIOUS
<1> DEFINE B == Nat \ T
<1>1. PICK x \in B : \A y \in B : ~ (<<y, x>> \in OpToRel(<, Nat))
  <2>1. B # {} /\ B \in SUBSET Nat
    OBVIOUS
  <2> HIDE DEF B
  <2> QED BY <2>1, NatLessThanWellFounded, WFMin
<1>2. x \in Nat /\ x \notin T /\ x # 0
  OBVIOUS
<1>3. x - 1 \in Nat /\ x - 1 < x /\ (x - 1) + 1 = x
  BY <1>2
<1>4. x - 1 \notin T
  BY <1>2, <1>3
<1> QED BY <1>1, <1>2, <1>3, <1>4 DEF OpToRel

LEMMA ProductOrder ==
    ASSUME NEW a \in Nat, NEW b \in Nat, NEW c \in Nat, a <= b
    PROVE  /\ a * c \in Nat /\ b * c \in Nat
           /\ a * c <= b * c
<1>1. PICK d \in Nat : b = a + d
  <2>1. b - a \in Nat /\ b = a + (b - a)
    OBVIOUS
  <2> QED BY <2>1
<1>2. (a + d) * c = a * c + d * c
  OBVIOUS
<1>3. a * c \in Nat /\ d * c \in Nat
  OBVIOUS
<1> QED BY <1>1, <1>2, <1>3

LEMMA Division ==
    ASSUME NEW n \in Nat, NEW w \in Nat, w > 0
    PROVE  /\ n \div w \in Nat /\ n % w \in Nat /\ n % w < w
           /\ n = (n \div w) * w + (n % w)
OBVIOUS

LEMMA DivisionUnique ==
    ASSUME NEW q \in Nat, NEW r \in Nat, NEW w \in Nat, w > 0, r < w,
           NEW n \in Nat, n = q * w + r
    PROVE  n \div w = q /\ n % w = r
<1> DEFINE p == n \div w
           s == n % w
<1>1. p \in Nat /\ s \in Nat /\ s < w /\ n = p * w + s
  BY Division
<1> HIDE DEF p, s
<1>2. p * w \in Nat /\ q * w \in Nat
  BY <1>1
<1>3. ASSUME p + 1 <= q PROVE FALSE
  <2>1. (p + 1) * w = p * w + w
    BY <1>1
  <2>2. (p + 1) * w <= q * w
    BY <1>1, <1>3, ProductOrder
  <2> QED BY <1>1, <1>2, <2>1, <2>2
<1>4. ASSUME q + 1 <= p PROVE FALSE
  <2>1. (q + 1) * w = q * w + w
    OBVIOUS
  <2>2. (q + 1) * w <= p * w
    BY <1>1, <1>4, ProductOrder
  <2> QED BY <1>1, <1>2, <2>1, <2>2
<1>5. p = q
  BY <1>1, <1>3, <1>4
<1>6. s = r
  BY <1>1, <1>2, <1>5
<1> QED BY <1>5, <1>6 DEF p, s

LEMMA Remainder ==
    ASSUME NEW n \in Nat, NEW w \in Nat, w > 0
    PROVE  /\ n < w => n % w = n /\ n \div w = 0
           /\ w <= n /\ n < w + w => n % w = n - w
OBVIOUS

-----------------------------------------------------------------------------
(* The byte counter. *)

\* The two words that count n bytes.
Counter(n) == << n % WordSize, n \div WordSize >>

\* As long as two words are enough, the carry is what the low word lost.
LEMMA CounterStep ==
    ASSUME NEW n \in Nat, NEW inc \in Nat, inc < WordSize, n + inc < WordSize * WordSize
    PROVE  increment_counter(Counter(n), inc) = Counter(n + inc)
<1> DEFINE W == WordSize
           q == n \div W
           r == n % W
<1>1. W \in Nat /\ W > 0
  BY BlakeAssumption
<1>2. q \in Nat /\ r \in Nat /\ r < W /\ n = q * W + r
  BY <1>1, Division
<1>3. Counter(n) = <<r, q>>
  BY DEF Counter
<1> HIDE DEF W, q, r
<1>4. \A k \in Nat : k * W \in Nat /\ (k + 1) * W = k * W + W
  BY <1>1
<1>5. \A k \in Nat : k * W < W * W => k < W
  <2> SUFFICES ASSUME NEW k \in Nat, k * W < W * W, W <= k PROVE FALSE
    BY <1>1
  <2>1. W * W <= k * W
    BY <1>1, ProductOrder
  <2> QED BY <1>1, <1>4, <2>1
<1>6. CASE r + inc < W
  <2>1. (r + inc) % W = r + inc
    BY <1>1, <1>2, <1>6, Remainder
  <2>2. n + inc = q * W + (r + inc) /\ n + inc \in Nat /\ r + inc \in Nat
    BY <1>2, <1>4
  <2>3. (n + inc) \div W = q /\ (n + inc) % W = r + inc
    BY <1>1, <1>2, <1>6, <2>2, DivisionUnique
  <2>4. q < W
    <3>1. q * W < W * W
      BY <1>1, <1>2, <1>4, <2>2 DEF W
    <3> QED BY <1>2, <1>5, <3>1
  <2>5. q % W = q
    BY <1>1, <1>2, <2>4, Remainder
  <2>6. ~ (r + inc < inc) /\ q + 0 = q
    BY <1>2
  <2> QED BY <1>3, <2>1, <2>3, <2>5, <2>6 DEF increment_counter, Counter, W
<1>7. CASE ~ (r + inc < W)
  <2> DEFINE s == r + inc - W
  <2>1. s \in Nat /\ s < W /\ s < inc /\ r + inc = W + s /\ r + inc \in Nat
    BY <1>1, <1>2, <1>7 DEF W
  <2>2. (r + inc) % W = s
    BY <1>1, <1>2, <1>7, <2>1, Remainder
  <2> HIDE DEF s
  <2>3. n + inc = (q + 1) * W + s /\ n + inc \in Nat
    <3> DEFINE u == q * W
    <3>1. u \in Nat /\ (q + 1) * W = u + W /\ n = u + r
      BY <1>2, <1>4
    <3> HIDE DEF u
    <3>2. n + inc = u + W + s
      BY <1>1, <1>2, <2>1, <3>1
    <3> QED BY <3>1, <3>2
  <2>4. (n + inc) \div W = q + 1 /\ (n + inc) % W = s
    <3> DEFINE k == q + 1
               m == n + inc
    <3>1. k \in Nat /\ m \in Nat /\ m = k * W + s
      BY <1>2, <2>3
    <3> HIDE DEF k, m
    <3>2. m \div W = k /\ m % W = s
      BY <1>1, <2>1, <3>1, DivisionUnique
    <3> QED BY <3>2 DEF k, m
  <2>5. q + 1 < W
    <3>1. (q + 1) * W \in Nat /\ (q + 1) * W < W * W
      BY <1>1, <1>2, <1>4, <2>1, <2>3 DEF W
    <3> QED BY <1>2, <1>5, <3>1
  <2>6. (q + 1) % W = q + 1
    BY <1>1, <1>2, <2>5, Remainder
  <2> QED BY <1>3, <2>1, <2>2, <2>4, <2>6 DEF increment_counter, Counter, W
<1> QED BY <1>6, <1>7

-----------------------------------------------------------------------------
(* The rounds of blake2b_update. *)

NextBlock(in, k) == SubSeq(in, (k - 1) * BlockBytes + 1, k * BlockBytes)

\* g is the state after each of n rounds.
InRounds(g, s, in, n) ==
    g = [k \in 0..n |-> IF k = 0 THEN s ELSE compress(g[k - 1], NextBlock(in, k), BlockBytes)]

LEMMA RoundsExist ==
    ASSUME NEW s, NEW in, NEW n \in Nat
    PROVE  \E g : InRounds(g, s, in, n)
<1> DEFINE T == {j \in Nat : \E g : InRounds(g, s, in, j)}
<1>1. 0 \in T
  <2> DEFINE g == [k \in 0..0 |-> s]
  <2>1. \A k \in 0..0 : k = 0
    OBVIOUS
  <2>2. InRounds(g, s, in, 0)
    BY <2>1 DEF InRounds
  <2> QED BY <2>2
<1>2. ASSUME NEW j \in Nat, j \in T PROVE j + 1 \in T
  <2>1. PICK g : InRounds(g, s, in, j)
    BY <1>2
  <2> DEFINE x == compress(g[j], NextBlock(in, j + 1), BlockBytes)
             f == [k \in 0..(j + 1) |-> IF k = j + 1 THEN x ELSE g[k]]
  <2>2. ASSUME NEW k \in 0..(j + 1)
        PROVE  f[k] = IF k = 0 THEN s ELSE compress(f[k - 1], NextBlock(in, k), BlockBytes)
    <3>1. CASE k = j + 1
      <4>1. k - 1 = j /\ j \in 0..(j + 1) /\ j # j + 1 /\ k # 0
        BY <3>1
      <4>2. f[k] = x /\ f[k - 1] = g[j]
        BY <3>1, <4>1
      <4> QED BY <3>1, <4>1, <4>2
    <3>2. CASE k # j + 1
      <4>1. k \in 0..j /\ f[k] = g[k]
        BY <3>2
      <4>2. g[k] = IF k = 0 THEN s ELSE compress(g[k - 1], NextBlock(in, k), BlockBytes)
        BY <2>1, <4>1 DEF InRounds
      <4>3. k # 0 => k - 1 \in 0..(j + 1) /\ k - 1 # j + 1
        BY <4>1
      <4>4. k # 0 => f[k - 1] = g[k - 1]
        BY <4>3
      <4> QED BY <4>1, <4>2, <4>4
    <3> QED BY <3>1, <3>2
  <2>3. f = [k \in 0..(j + 1) |-> f[k]]
    OBVIOUS
  <2> HIDE DEF f
  <2>4. InRounds(f, s, in, j + 1)
    BY <2>2, <2>3 DEF InRounds
  <2> QED BY <2>4
<1>3. Nat \subseteq T
  <2> HIDE DEF T
  <2> QED BY <1>1, <1>2, AllNumbers
<1> QED BY <1>3

LEMMA RoundsFacts ==
    ASSUME NEW s, NEW in, NEW n \in Nat
    PROVE  \E g : InRounds(g, s, in, n) /\ compressBlocks(s, in, n) = g[n]
<1> DEFINE g == CHOOSE f : InRounds(f, s, in, n)
<1>1. InRounds(g, s, in, n)
  BY RoundsExist
<1>2. compressBlocks(s, in, n) = g[n]
  BY DEF compressBlocks, InRounds, NextBlock
<1> QED BY <1>1, <1>2

-----------------------------------------------------------------------------
(* Sequences as functions.                                                  *)

\* f is a sequence of n elements of whatever kind.
OfLength(f, n) == f = [i \in 1..n |-> f[i]]

LEMMA Sequence ==
    ASSUME NEW f, NEW n \in Nat, OfLength(f, n)
    PROVE  /\ f \in Seq({f[i] : i \in 1..n})
           /\ Len(f) = n /\ DOMAIN f = 1..n
<1>1. f \in [1..n -> {f[i] : i \in 1..n}]
  BY DEF OfLength
<1>2. f \in Seq({f[i] : i \in 1..n})
  BY <1>1
<1>3. DOMAIN f = 1..n
  BY <1>1
<1> QED BY <1>2, <1>3

LEMMA Appended ==
    ASSUME NEW f, NEW n \in Nat, OfLength(f, n), NEW x
    PROVE  Append(f, x) = [i \in 1..(n + 1) |-> IF i = n + 1 THEN x ELSE f[i]]
<1> DEFINE R == {f[i] : i \in 1..n} \cup {x}
<1>1. f \in Seq(R) /\ Len(f) = n /\ DOMAIN f = 1..n /\ x \in R
  <2>1. f \in [1..n -> R]
    BY DEF OfLength
  <2> HIDE DEF R
  <2>2. f \in Seq(R)
    BY <2>1
  <2> QED BY <2>1, <2>2, Sequence DEF R
<1> HIDE DEF R
<1> DEFINE a == Append(f, x)
<1>2. /\ a \in Seq(R) /\ Len(a) = n + 1
      /\ \A i \in 1..n : a[i] = f[i]
      /\ a[n + 1] = x
  BY <1>1, AppendProperties
<1> HIDE DEF a
<1>3. DOMAIN a = 1..(n + 1) /\ a = [i \in 1..(n + 1) |-> a[i]]
  BY <1>2
<1>4. \A i \in 1..(n + 1) : a[i] = IF i = n + 1 THEN x ELSE f[i]
  BY <1>2
<1> QED BY <1>3, <1>4 DEF a

-----------------------------------------------------------------------------
(* The blocks of a message.                                                 *)

\* The blocks that are compressed while more input may come.
Done(m) == Blocks(m) - 1

LEMMA DoneFacts ==
    ASSUME NEW D, NEW m \in Seq(D)
    PROVE  /\ Done(m) \in Nat /\ Done(m) * BlockBytes \in Nat
           /\ Blocks(m) = Done(m) + 1
           /\ Done(m) * BlockBytes <= Len(m)
           /\ Len(m) <= Done(m) * BlockBytes + BlockBytes
           /\ m = <<>> => Done(m) = 0
           /\ m # <<>> => Done(m) * BlockBytes < Len(m)
<1> DEFINE B == BlockBytes
           n == Len(m)
<1>0. B \in Nat /\ B > 0
  BY BlakeAssumption
<1>1. CASE m = <<>>
  <2>1. Blocks(m) = 1 /\ Len(m) = 0
    BY <1>1 DEF Blocks
  <2> QED BY <1>0, <1>1, <2>1 DEF Done
<1>2. CASE m # <<>>
  <2> DEFINE q == (n - 1) \div B
             r == (n - 1) % B
  <2>1. n \in Nat /\ n > 0
    BY <1>2
  <2>2. q \in Nat /\ r \in Nat /\ r < B /\ n - 1 = q * B + r
    <3> DEFINE k == n - 1
    <3>1. k \in Nat
      BY <2>1
    <3> HIDE DEF k
    <3> QED BY <1>0, <3>1, Division DEF k
  <2> HIDE DEF n, q, r
  <2>3. (n + B - 1) \div B = q + 1
    <3> DEFINE k == q + 1
               v == n + B - 1
    <3>1. k \in Nat /\ v \in Nat /\ k * B = q * B + B
      BY <1>0, <2>1, <2>2
    <3>2. v = k * B + r
      <4>1. q * B \in Nat
        BY <1>0, <2>2
      <4> QED BY <1>0, <2>1, <2>2, <3>1, <4>1
    <3> HIDE DEF k, v
    <3>3. v \div B = k
      BY <1>0, <2>2, <3>1, <3>2, DivisionUnique
    <3> QED BY <3>3 DEF k, v
  <2>4. Blocks(m) = q + 1 /\ Done(m) = q
    BY <1>2, <2>2, <2>3 DEF Blocks, Done, n
  <2>5. q * B \in Nat
    BY <1>0, <2>2
  <2> QED BY <1>0, <1>2, <2>1, <2>2, <2>4, <2>5 DEF n
<1> QED BY <1>1, <1>2

LEMMA DoneUnique ==
    ASSUME NEW D, NEW m \in Seq(D), NEW d \in Nat,
           d * BlockBytes < Len(m), Len(m) <= d * BlockBytes + BlockBytes
    PROVE  Done(m) = d
<1> DEFINE B == BlockBytes
           q == Done(m)
<1>0. B \in Nat /\ B > 0
  BY BlakeAssumption
<1>1. m # <<>>
  <2>1. d * B \in Nat
    BY <1>0
  <2> QED BY <2>1
<1>2. q \in Nat /\ q * B < Len(m) /\ Len(m) <= q * B + B
  BY <1>1, DoneFacts
<1> HIDE DEF q
<1>3. d * B \in Nat /\ q * B \in Nat /\ (d + 1) * B = d * B + B /\ (q + 1) * B = q * B + B
  BY <1>0, <1>2
<1>4. ASSUME d + 1 <= q PROVE FALSE
  <2>1. (d + 1) * B <= q * B
    BY <1>0, <1>2, <1>4, ProductOrder
  <2> QED BY <1>0, <1>3, <1>2, <2>1
<1>5. ASSUME q + 1 <= d PROVE FALSE
  <2>1. (q + 1) * B <= d * B
    BY <1>0, <1>2, <1>5, ProductOrder
  <2> QED BY <1>0, <1>3, <1>2, <2>1
<1>6. q = d
  BY <1>2, <1>4, <1>5
<1> QED BY <1>6 DEF q

-----------------------------------------------------------------------------
(* A state that was fed a message.                                          *)

Fields == {"h", "t", "last", "buf", "buflen", "outlen"}

\* Block i of a message that goes on.
Whole(m, i) ==
    Compressed([k \in 1..BlockBytes |-> m[(i - 1) * BlockBytes + k]],
               Counter(i * BlockBytes), FALSE)

\* The parameter block and the first n blocks.
History(p, m, n) == [j \in 1..(n + 1) |-> IF j = 1 THEN p ELSE Whole(m, j - 1)]

\* n blocks of the message are compressed, and the state takes more input.
Running(s, p, m, n) ==
    /\ DOMAIN s = Fields
    /\ s.last = FALSE
    /\ s.outlen = p.outlen
    /\ s.h = History(p, m, n)
    /\ s.t = Counter(n * BlockBytes)

\* What is left of the message after n blocks is at the front of the buffer.
Held(s, m, n) ==
    /\ OfLength(s.buf, BlockBytes)
    /\ s.buflen = Len(m) - n * BlockBytes
    /\ \A i \in 1..s.buflen : s.buf[i] = m[n * BlockBytes + i]

Fed(s, p, m) == Running(s, p, m, Done(m)) /\ Held(s, m, Done(m))

\* The block of the message that comes after n others.
BlockAfter(m, n) == [i \in 1..BlockBytes |-> m[n * BlockBytes + i]]

LEMMA HistoryLength ==
    ASSUME NEW p, NEW m, NEW n \in Nat
    PROVE  OfLength(History(p, m, n), n + 1)
BY DEF OfLength, History

\* One more block.
LEMMA CompressedBlock ==
    ASSUME NEW s, NEW p, NEW m, NEW n \in Nat, Running(s, p, m, n),
           NEW block, block = BlockAfter(m, n),
           n * BlockBytes + BlockBytes < WordSize * WordSize
    PROVE  /\ Running(compress(s, block, BlockBytes), p, m, n + 1)
           /\ compress(s, block, BlockBytes).buf = s.buf
           /\ compress(s, block, BlockBytes).buflen = s.buflen
<1> DEFINE B == BlockBytes
           t == increment_counter(s.t, B)
           r == compress(s, block, B)
           x == Compressed(block, t, FALSE)
<1>0. B \in Nat /\ B > 0 /\ B < WordSize
  BY BlakeAssumption
<1>1. n * B \in Nat /\ (n + 1) * B = n * B + B
  BY <1>0
<1>2. t = Counter((n + 1) * B)
  <2> DEFINE a == n * B
  <2>1. a \in Nat /\ a + B < WordSize * WordSize /\ s.t = Counter(a)
    BY <1>1 DEF Running
  <2> HIDE DEF a
  <2>2. t = Counter(a + B)
    BY <1>0, <2>1, CounterStep
  <2> QED BY <1>1, <2>2 DEF a
<1> HIDE DEF t
<1>3. r = [s EXCEPT !.h = Append(@, x), !.t = t]
  BY DEF compress, Running, t
<1>4. x = Whole(m, n + 1)
  <2>1. (n + 1) - 1 = n
    OBVIOUS
  <2>2. block = [k \in 1..B |-> m[((n + 1) - 1) * B + k]]
    BY <2>1 DEF BlockAfter
  <2> QED BY <1>2, <2>2 DEF Whole, Compressed
<1> HIDE DEF x, r
<1>5. Append(s.h, x) = History(p, m, n + 1)
  <2> DEFINE f == History(p, m, n)
  <2>1. OfLength(f, n + 1) /\ n + 1 \in Nat
    BY HistoryLength
  <2>2. \A j \in 1..(n + 1) : f[j] = IF j = 1 THEN p ELSE Whole(m, j - 1)
    BY DEF History
  <2>3. s.h = f
    BY DEF Running
  <2> HIDE DEF f
  <2>4. Append(f, x) = [j \in 1..(n + 1 + 1) |-> IF j = n + 1 + 1 THEN x ELSE f[j]]
    BY <2>1, Appended
  <2>5. \A j \in 1..(n + 1 + 1) : (IF j = n + 1 + 1 THEN x ELSE f[j])
                                   = IF j = 1 THEN p ELSE Whole(m, j - 1)
    <3> SUFFICES ASSUME NEW j \in 1..(n + 1 + 1)
                 PROVE  (IF j = n + 1 + 1 THEN x ELSE f[j])
                            = IF j = 1 THEN p ELSE Whole(m, j - 1)
      OBVIOUS
    <3>1. CASE j = n + 1 + 1
      <4>1. j # 1 /\ j - 1 = n + 1
        BY <3>1
      <4> QED BY <1>4, <3>1, <4>1
    <3>2. CASE j # n + 1 + 1
      <4>1. j \in 1..(n + 1)
        BY <3>2
      <4> QED BY <2>2, <3>2, <4>1
    <3> QED BY <3>1, <3>2
  <2> QED BY <2>3, <2>4, <2>5 DEF History
<1>6. DOMAIN r = Fields /\ r.h = Append(s.h, x) /\ r.t = t
      /\ r.last = s.last /\ r.outlen = s.outlen
      /\ r.buf = s.buf /\ r.buflen = s.buflen
  BY <1>3 DEF Running, Fields
<1>7. Running(r, p, m, n + 1)
  BY <1>2, <1>5, <1>6 DEF Running
<1> QED BY <1>6, <1>7 DEF r

\* More input changes none of the blocks that were complete.
LEMMA HistoryKept ==
    ASSUME NEW D, NEW m \in Seq(D), NEW x \in Seq(D), NEW p,
           NEW n \in Nat, n * BlockBytes <= Len(m)
    PROVE  History(p, m \o x, n) = History(p, m, n)
<1> DEFINE B == BlockBytes
           c == m \o x
<1>0. B \in Nat
  BY BlakeAssumption
<1>1. \A i \in 1..Len(m) : c[i] = m[i]
  BY ConcatProperties
<1> HIDE DEF c
<1>2. ASSUME NEW j \in 1..(n + 1), j # 1
      PROVE  Whole(c, j - 1) = Whole(m, j - 1)
  <2> DEFINE i == j - 1
             l == i - 1
  <2>1. i \in 1..n /\ l \in Nat /\ i \in Nat /\ i <= n /\ i = l + 1
    BY <1>2
  <2> HIDE DEF i, l
  <2>2. l * B \in Nat /\ i * B = l * B + B
    BY <1>0, <2>1
  <2>3. i * B <= n * B /\ n * B \in Nat
    BY <1>0, <2>1, ProductOrder
  <2>4. \A k \in 1..B : l * B + k \in 1..Len(m)
    BY <1>0, <2>1, <2>2, <2>3
  <2>5. \A k \in 1..B : c[l * B + k] = m[l * B + k]
    BY <1>1, <2>4
  <2>6. Whole(c, i) = Whole(m, i)
    BY <2>5 DEF Whole, l
  <2> QED BY <2>6 DEF i
<1>3. \A j \in 1..(n + 1) : (IF j = 1 THEN p ELSE Whole(c, j - 1))
                             = IF j = 1 THEN p ELSE Whole(m, j - 1)
  BY <1>2
<1> QED BY <1>3 DEF History, c

-----------------------------------------------------------------------------
(* blake2b_update.                                                          *)

LEMMA BufferedHolds ==
    ASSUME NEW s, NEW p, NEW m, NEW n, Running(s, p, m, n),
           s.buflen \in Nat, NEW D, NEW x \in Seq(D)
    PROVE  /\ Running(buffered(s, x), p, m, n)
           /\ OfLength(buffered(s, x).buf, BlockBytes)
           /\ buffered(s, x).buflen = s.buflen + Len(x)
           /\ \A i \in 1..BlockBytes :
                 i <= s.buflen + Len(x) =>
                    buffered(s, x).buf[i] = IF i <= s.buflen THEN s.buf[i]
                                            ELSE x[i - s.buflen]
<1> DEFINE b == buffered(s, x)
           c == copied(s.buf, s.buflen, x)
           l == s.buflen + Len(x)
<1>1. /\ DOMAIN b = Fields /\ b.buf = c /\ b.buflen = l
      /\ b.h = s.h /\ b.t = s.t /\ b.last = s.last /\ b.outlen = s.outlen
  BY DEF Running, Fields, buffered
<1> HIDE DEF b
<1>2. Running(b, p, m, n)
  BY <1>1 DEF Running
<1>3. OfLength(c, BlockBytes)
  BY DEF OfLength, copied
<1>4. Len(x) \in Nat /\ BlockBytes \in Nat
  BY BlakeAssumption
<1>5. \A i \in 1..BlockBytes :
         c[i] = IF i \in (s.buflen + 1)..(s.buflen + Len(x)) THEN x[i - s.buflen] ELSE s.buf[i]
  BY DEF copied
<1> HIDE DEF c
<1>6. \A i \in 1..BlockBytes :
         i <= l => c[i] = IF i <= s.buflen THEN s.buf[i] ELSE x[i - s.buflen]
  BY <1>4, <1>5
<1> QED BY <1>1, <1>2, <1>3, <1>6 DEF b

\* The input fits into the buffer.
LEMMA AbsorbFits ==
    ASSUME NEW D, NEW m \in Seq(D), NEW x \in Seq(D), x # <<>>,
           NEW s, NEW p, Fed(s, p, m), s.buflen + Len(x) <= BlockBytes
    PROVE  Fed(absorb(s, x), p, m \o x)
<1> DEFINE B == BlockBytes
           c == m \o x
           d == Done(m)
           b == buffered(s, x)
           lm == Len(m)
           lx == Len(x)
           e == d * B
<1>0. B \in Nat /\ B > 0
  BY BlakeAssumption
<1>1. /\ d \in Nat /\ e \in Nat /\ e <= lm /\ lm <= e + B
      /\ lm \in Nat /\ lx \in Nat /\ lx > 0
  BY DoneFacts
<1>2. c \in Seq(D) /\ Len(c) = lm + lx
      /\ \A i \in 1..(lm + lx) : c[i] = IF i <= lm THEN m[i] ELSE x[i - lm]
  BY ConcatProperties
<1>3. absorb(s, x) = b
  BY DEF absorb
<1>4. Running(s, p, m, d) /\ OfLength(s.buf, B) /\ s.buflen = lm - e
      /\ \A i \in 1..s.buflen : s.buf[i] = m[e + i]
  BY DEF Fed, Held
<1>5. Done(c) = d
  <2> HIDE DEF c, d
  <2>1. e < Len(c) /\ Len(c) <= e + B
    BY <1>0, <1>1, <1>2, <1>4
  <2> QED BY <1>1, <1>2, <2>1, DoneUnique
<1>6. History(p, c, d) = History(p, m, d)
  <2> HIDE DEF d
  <2> QED BY <1>1, HistoryKept DEF c
<1>7. s.buflen \in Nat
  BY <1>0, <1>1, <1>4
<1>8. /\ Running(b, p, m, d) /\ OfLength(b.buf, B) /\ b.buflen = s.buflen + lx
      /\ \A i \in 1..B : i <= s.buflen + lx =>
            b.buf[i] = IF i <= s.buflen THEN s.buf[i] ELSE x[i - s.buflen]
  <2> HIDE DEF d
  <2> QED BY <1>4, <1>7, BufferedHolds
<1>9. Running(b, p, c, d)
  BY <1>6, <1>8 DEF Running
<1>10. b.buflen = Len(c) - e
  <2> HIDE DEF e, lm, lx, b, c
  <2> QED BY <1>1, <1>2, <1>4, <1>8
<1>11. \A i \in 1..b.buflen : b.buf[i] = c[e + i]
  <2> HIDE DEF e, lm, lx, b, c
  <2> SUFFICES ASSUME NEW i \in 1..b.buflen PROVE b.buf[i] = c[e + i]
    OBVIOUS
  <2>1. i \in 1..B /\ i <= s.buflen + lx
    BY <1>0, <1>1, <1>4, <1>7, <1>8 DEF lx
  <2>2. e + i \in 1..(lm + lx)
    BY <1>1, <1>4, <2>1
  <2>3. CASE i <= s.buflen
    <3>1. b.buf[i] = m[e + i]
      BY <1>4, <1>7, <1>8, <2>1, <2>3
    <3>2. e + i <= lm
      BY <1>1, <1>4, <2>1, <2>3
    <3> QED BY <1>2, <2>2, <3>1, <3>2
  <2>4. CASE ~ (i <= s.buflen)
    <3>1. b.buf[i] = x[i - s.buflen]
      BY <1>8, <2>1, <2>4
    <3>2. ~ (e + i <= lm) /\ (e + i) - lm = i - s.buflen
      BY <1>1, <1>4, <2>1, <2>4
    <3> QED BY <1>2, <2>2, <3>1, <3>2
  <2> QED BY <2>3, <2>4
<1>12. Held(b, c, d)
  BY <1>8, <1>10, <1>11 DEF Held
<1> QED BY <1>3, <1>5, <1>9, <1>12 DEF Fed

LEMMA Part ==
    ASSUME NEW D, NEW x \in Seq(D), NEW a \in Nat, NEW b \in Nat,
           a <= b, b <= Len(x)
    PROVE  /\ SubSeq(x, a + 1, b) \in Seq(D)
           /\ Len(SubSeq(x, a + 1, b)) = b - a
           /\ \A i \in 1..(b - a) : SubSeq(x, a + 1, b)[i] = x[a + i]
<1>1. \A i \in (a + 1)..b : x[i] \in D
  BY ElementOfSeq
<1>2. a + 1 \in Int /\ b \in Int
  OBVIOUS
<1> DEFINE u == a + 1
           y == SubSeq(x, u, b)
<1>3. u \in Int /\ b \in Int /\ \A i \in u..b : x[i] \in D
  BY <1>1
<1> HIDE DEF u
<1>4. y \in Seq(D) /\ Len(y) = (IF u <= b THEN b - u + 1 ELSE 0)
      /\ \A i \in 1..(b - u + 1) : y[i] = x[u + i - 1]
  BY <1>3, SubSeqProperties
<1> HIDE DEF y
<1>5. Len(y) = b - a
  BY <1>4 DEF u
<1>6. ASSUME NEW i \in 1..(b - a) PROVE y[i] = x[a + i]
  <2>1. i \in 1..(b - u + 1) /\ u + i - 1 = a + i
    BY DEF u
  <2> QED BY <1>4, <2>1
<1> QED BY <1>4, <1>5, <1>6 DEF u, y

\* The input, or what is left of it, continues the message after its d-th block.
Continues(rest, m, d) ==
    /\ Len(m) = d * BlockBytes + Len(rest)
    /\ \A i \in 1..Len(rest) : rest[i] = m[d * BlockBytes + i]

LEMMA InputBlock ==
    ASSUME NEW D, NEW c \in Seq(D), NEW rest \in Seq(D), NEW d \in Nat,
           Continues(rest, c, d),
           NEW k \in Nat, k > 0, k * BlockBytes <= Len(rest)
    PROVE  NextBlock(rest, k) = BlockAfter(c, d + (k - 1))
<1> DEFINE B == BlockBytes
           l == k - 1
           a == l * B
           b == k * B
           e == d * B
           y == SubSeq(rest, a + 1, b)
<1>0. B \in Nat /\ B > 0
  BY BlakeAssumption
<1>1. l \in Nat /\ k = l + 1
  OBVIOUS
<1> HIDE DEF l
<1>2. a \in Nat /\ b \in Nat /\ b = a + B /\ e \in Nat /\ (d + l) * B = e + a
  BY <1>0, <1>1
<1>3. Len(rest) \in Nat /\ b <= Len(rest)
  OBVIOUS
<1>4. \A i \in 1..Len(rest) : rest[i] = c[e + i]
  BY DEF Continues
<1> HIDE DEF a, b, e
<1>5. y \in Seq(D) /\ Len(y) = b - a /\ \A i \in 1..(b - a) : y[i] = rest[a + i]
  BY <1>0, <1>2, <1>3, Part
<1> HIDE DEF y
<1>6. y = [i \in 1..B |-> y[i]]
  BY <1>0, <1>2, <1>5
<1>7. ASSUME NEW i \in 1..B PROVE y[i] = c[(e + a) + i]
  <2>1. i \in 1..(b - a) /\ a + i \in 1..Len(rest) /\ e + (a + i) = (e + a) + i
    BY <1>0, <1>2, <1>3
  <2> QED BY <1>4, <1>5, <2>1
<1>8. y = [i \in 1..B |-> c[(d + l) * B + i]]
  BY <1>2, <1>6, <1>7
<1> QED BY <1>8 DEF NextBlock, BlockAfter, y, a, b, l

LEMMA RoundsFeed ==
    ASSUME NEW D, NEW c \in Seq(D), NEW rest \in Seq(D), NEW d \in Nat,
           Continues(rest, c, d), Len(c) < WordSize * WordSize,
           NEW n \in Nat, n * BlockBytes <= Len(rest),
           NEW s, NEW p, Running(s, p, c, d)
    PROVE  /\ Running(compressBlocks(s, rest, n), p, c, d + n)
           /\ compressBlocks(s, rest, n).buf = s.buf
           /\ compressBlocks(s, rest, n).buflen = s.buflen
<1> DEFINE B == BlockBytes
<1>0. B \in Nat /\ B > 0
  BY BlakeAssumption
<1>1. PICK g : InRounds(g, s, rest, n) /\ compressBlocks(s, rest, n) = g[n]
  BY RoundsFacts
<1>b. ASSUME NEW k \in Nat, k > 0, k * B <= Len(rest)
      PROVE  NextBlock(rest, k) = BlockAfter(c, d + (k - 1))
  BY <1>b, InputBlock
<1> DEFINE Good(k) == /\ Running(g[k], p, c, d + k)
                      /\ g[k].buf = s.buf /\ g[k].buflen = s.buflen
           T == {k \in Nat : k <= n => Good(k)}
<1>2. 0 \in T
  <2>1. g[0] = s
    BY <1>1 DEF InRounds
  <2>2. d + 0 = d
    OBVIOUS
  <2> QED BY <2>1, <2>2
<1>3. ASSUME NEW j \in Nat, j \in T PROVE j + 1 \in T
  <2> SUFFICES ASSUME j + 1 <= n PROVE Good(j + 1)
    OBVIOUS
  <2> DEFINE k == j + 1
             block == NextBlock(rest, k)
             r == compress(g[j], block, B)
  <2>1. Good(j)
    BY <1>3
  <2>2. k \in Nat /\ k > 0 /\ k - 1 = j /\ k \in 0..n /\ k # 0 /\ k <= n
    OBVIOUS
  <2>3. g[k] = r
    <3> HIDE DEF k
    <3> QED BY <1>1, <2>2 DEF InRounds
  <2>4. k * B <= n * B
    BY <1>0, <2>2, ProductOrder
  <2>5. k * B <= Len(rest)
    <3>1. k * B \in Nat /\ n * B \in Nat
      BY <1>0
    <3> HIDE DEF k
    <3> QED BY <2>4, <3>1
  <2>6. block = BlockAfter(c, d + j)
    <3>1. block = BlockAfter(c, d + (k - 1))
      <4> HIDE DEF k
      <4> QED BY <1>b, <2>2, <2>5
    <3> HIDE DEF block
    <3> QED BY <2>2, <3>1
  <2>7. (d + j) * B + B < WordSize * WordSize
    <3> DEFINE w == WordSize * WordSize
    <3>1. (d + j) * B + B = d * B + k * B /\ d * B \in Nat /\ k * B \in Nat
      BY <1>0
    <3>2. w \in Nat
      BY BlakeAssumption
    <3>3. Len(c) = d * B + Len(rest)
      BY DEF Continues
    <3> HIDE DEF k, w
    <3> QED BY <2>5, <3>1, <3>2, <3>3 DEF w
  <2> HIDE DEF block
  <2>8. /\ Running(r, p, c, (d + j) + 1)
        /\ r.buf = g[j].buf /\ r.buflen = g[j].buflen
    <3> DEFINE m == d + j
    <3>1. m \in Nat /\ Running(g[j], p, c, m)
      BY <2>1
    <3> HIDE DEF m, T
    <3>2. block = BlockAfter(c, m) /\ m * BlockBytes + BlockBytes < WordSize * WordSize
      BY <2>6, <2>7 DEF m
    <3> HIDE DEF Good
    <3> QED BY <3>1, <3>2, CompressedBlock DEF m
  <2>9. (d + j) + 1 = d + k
    OBVIOUS
  <2> HIDE DEF r, k
  <2> QED BY <2>1, <2>3, <2>8, <2>9 DEF k
<1>4. Nat \subseteq T
  <2> HIDE DEF T
  <2> QED BY <1>2, <1>3, AllNumbers
<1>5. Good(n)
  BY <1>4
<1> QED BY <1>1, <1>5

\* The number of blocks that are compressed from n bytes: at least one byte is left.
LEMMA RoundsLeaveInput ==
    ASSUME NEW n \in Nat, n > 0
    PROVE  /\ wholeBlocks(n) \in Nat /\ wholeBlocks(n) * BlockBytes \in Nat
           /\ wholeBlocks(n) * BlockBytes < n
           /\ n <= wholeBlocks(n) * BlockBytes + BlockBytes
<1> DEFINE B == BlockBytes
           k == n - 1
           q == k \div B
           r == k % B
<1>0. B \in Nat /\ B > 0
  BY BlakeAssumption
<1>1. k \in Nat /\ n = k + 1
  OBVIOUS
<1> HIDE DEF k
<1>2. q \in Nat /\ r \in Nat /\ r < B /\ k = q * B + r
  BY <1>0, <1>1, Division
<1>3. wholeBlocks(n) = q
  BY DEF wholeBlocks, q, k
<1> HIDE DEF q, r
<1> DEFINE e == q * B
<1>4. e \in Nat
  BY <1>0, <1>2
<1> HIDE DEF e
<1>5. e < n /\ n <= e + B
  BY <1>0, <1>1, <1>2, <1>4 DEF e
<1> QED BY <1>2, <1>3, <1>4, <1>5 DEF e

\* The buffer and the first of the input are a block of the message.
LEMMA FullBuffer ==
    ASSUME NEW D, NEW m \in Seq(D), NEW x \in Seq(D), NEW s,
           NEW d \in Nat, Held(s, m, d), d * BlockBytes <= Len(m),
           Len(m) <= d * BlockBytes + BlockBytes,
           s.buflen + Len(x) > BlockBytes
    PROVE  copied(s.buf, s.buflen, SubSeq(x, 1, BlockBytes - s.buflen))
              = BlockAfter(m \o x, d)
<1> DEFINE B == BlockBytes
           c == m \o x
           lm == Len(m)
           lx == Len(x)
           e == d * B
           l == s.buflen
           fill == B - l
           y == SubSeq(x, 1, fill)
<1>0. B \in Nat /\ B > 0
  BY BlakeAssumption
<1>1. e \in Nat /\ lm \in Nat /\ lx \in Nat
  BY <1>0
<1>2. c \in Seq(D) /\ Len(c) = lm + lx
      /\ \A i \in 1..(lm + lx) : c[i] = IF i <= lm THEN m[i] ELSE x[i - lm]
  BY ConcatProperties
<1>3. l = lm - e /\ \A i \in 1..l : s.buf[i] = m[e + i]
  BY DEF Held
<1>4. e <= lm /\ lm <= e + B /\ l + lx > B
  OBVIOUS
<1> HIDE DEF c, e, lm, lx
<1>5. l \in Nat /\ l <= B /\ fill \in Nat /\ fill <= lx
  BY <1>0, <1>1, <1>3, <1>4
<1>6. y \in Seq(D) /\ Len(y) = fill /\ \A i \in 1..fill : y[i] = x[i]
  <2> DEFINE f == fill
             z == 0
  <2>1. f \in Nat /\ f <= Len(x) /\ z \in Nat /\ z <= f
    BY <1>5 DEF lx
  <2>2. z + 1 = 1
    OBVIOUS
  <2> HIDE DEF f, z
  <2>3. SubSeq(x, z + 1, f) \in Seq(D) /\ Len(SubSeq(x, z + 1, f)) = f - z
        /\ \A i \in 1..(f - z) : SubSeq(x, z + 1, f)[i] = x[z + i]
    BY <2>1, Part
  <2>4. SubSeq(x, 1, f) \in Seq(D) /\ Len(SubSeq(x, 1, f)) = f
        /\ \A i \in 1..f : SubSeq(x, 1, f)[i] = x[i]
    BY <2>1, <2>2, <2>3 DEF z
  <2> QED BY <2>4 DEF f
<1> HIDE DEF y
<1>7. ASSUME NEW i \in 1..B
      PROVE  (IF i \in (l + 1)..(l + Len(y)) THEN y[i - l] ELSE s.buf[i]) = c[e + i]
  <2>1. l + fill = B
    BY <1>0, <1>5
  <2>2. e + i \in 1..(lm + lx)
    BY <1>0, <1>1, <1>3, <1>4
  <2>3. CASE i <= l
    <3>1. i \in 1..l /\ e + i <= lm /\ ~ (i \in (l + 1)..(l + Len(y)))
      BY <1>1, <1>3, <1>5, <2>3
    <3> QED BY <1>2, <1>3, <2>2, <3>1
  <2>4. CASE ~ (i <= l)
    <3>1. i \in (l + 1)..(l + Len(y)) /\ i - l \in 1..fill
      <4>1. l + fill = B /\ Len(y) = fill /\ l \in Nat /\ fill \in Nat
        BY <1>5, <1>6, <2>1
      <4> HIDE DEF l, fill
      <4> QED BY <1>0, <2>4, <4>1
    <3>2. ~ (e + i <= lm) /\ (e + i) - lm = i - l
      BY <1>1, <1>3, <1>5, <2>4
    <3> HIDE DEF l, fill
    <3> QED BY <1>2, <1>6, <2>2, <3>1, <3>2
  <2> QED BY <2>3, <2>4
<1> QED BY <1>7 DEF copied, BlockAfter, y, c, e

\* The input goes beyond the buffer.
LEMMA AbsorbOverflows ==
    ASSUME NEW D, NEW m \in Seq(D), NEW x \in Seq(D),
           NEW s, NEW p, Fed(s, p, m), s.buflen + Len(x) > BlockBytes,
           Len(m) + Len(x) < WordSize * WordSize
    PROVE  Fed(absorb(s, x), p, m \o x)
<1> DEFINE B == BlockBytes
           c == m \o x
           d == Done(m)
           lm == Len(m)
           lx == Len(x)
           e == d * B
           fill == B - s.buflen
           full == copied(s.buf, s.buflen, SubSeq(x, 1, fill))
           rest == SubSeq(x, fill + 1, Len(x))
           lr == Len(rest)
           n == wholeBlocks(Len(rest))
           emptied == [compress(s, full, B) EXCEPT !.buf = full, !.buflen = 0]
           done == compressBlocks(emptied, rest, n)
           tail == SubSeq(rest, n * B + 1, Len(rest))
           b == buffered(done, tail)
<1>0. B \in Nat /\ B > 0
  BY BlakeAssumption
<1>1. /\ d \in Nat /\ e \in Nat /\ e <= lm /\ lm <= e + B
      /\ lm \in Nat /\ lx \in Nat
  BY DoneFacts
<1>2. c \in Seq(D) /\ Len(c) = lm + lx
      /\ \A i \in 1..(lm + lx) : c[i] = IF i <= lm THEN m[i] ELSE x[i - lm]
  BY ConcatProperties
<1>3. absorb(s, x) = b
  <2>1. ~ (s.buflen + Len(x) <= BlockBytes)
    BY <1>0, <1>1 DEF Fed, Held
  <2> QED BY <2>1 DEF absorb
<1>4. /\ Running(s, p, m, d) /\ Held(s, m, d) /\ s.buflen = lm - e
  BY DEF Fed, Held
<1>5. full = BlockAfter(c, d)
  <2> HIDE DEF d
  <2> QED BY <1>1, <1>4, FullBuffer
<1> HIDE DEF c, d, full
<1>6. Running(s, p, c, d)
  <2>1. History(p, c, d) = History(p, m, d)
    BY <1>1, HistoryKept DEF c
  <2> QED BY <1>4, <2>1 DEF Running
<1>7. e + B < lm + lx /\ lm + lx < WordSize * WordSize /\ fill \in Nat /\ fill < lx
  <2> HIDE DEF e
  <2>1. s.buflen + lx > B /\ s.buflen = lm - e /\ lm + lx < WordSize * WordSize
    BY <1>4
  <2> HIDE DEF lm, lx
  <2> QED BY <1>0, <1>1, <2>1
<1>8. e + B < WordSize * WordSize
  <2> DEFINE w == WordSize * WordSize
  <2>1. w \in Nat
    BY BlakeAssumption
  <2> HIDE DEF e, lm, lx, w
  <2> QED BY <1>0, <1>1, <1>7, <2>1 DEF w
<1>9. Running(compress(s, full, B), p, c, d + 1)
  BY <1>1, <1>5, <1>6, <1>8, CompressedBlock
<1>10. Running(emptied, p, c, d + 1) /\ emptied.buf = full /\ emptied.buflen = 0
  <2> DEFINE z == compress(s, full, B)
  <2>1. Running(z, p, c, d + 1)
    BY <1>9
  <2> HIDE DEF z
  <2>2. emptied = [z EXCEPT !.buf = full, !.buflen = 0]
    BY DEF z
  <2> HIDE DEF emptied
  <2> QED BY <2>1, <2>2 DEF Running, Fields
<1> HIDE DEF emptied
<1>11. rest \in Seq(D) /\ lr = lx - fill /\ \A i \in 1..(lx - fill) : rest[i] = x[fill + i]
  <2> DEFINE f == fill
  <2>1. f \in Nat /\ lx \in Nat /\ f <= lx
    BY <1>1, <1>7
  <2>2. lx <= Len(x)
    BY <1>1
  <2> HIDE DEF f
  <2>3. SubSeq(x, f + 1, Len(x)) \in Seq(D) /\ Len(SubSeq(x, f + 1, Len(x))) = Len(x) - f
        /\ \A i \in 1..(Len(x) - f) : SubSeq(x, f + 1, Len(x))[i] = x[f + i]
    BY <2>1, Part
  <2> QED BY <2>3 DEF f
<1> HIDE DEF rest
<1> DEFINE g == (d + 1) * B
<1>12. g = e + B /\ g \in Nat
  BY <1>0, <1>1
<1>13. lr \in Nat /\ lr > 0 /\ Len(c) = g + lr /\ g = lm + fill
  <2>1. lr = lx - fill /\ s.buflen = lm - e
    BY <1>4, <1>11
  <2> HIDE DEF e, lr, lm, lx, g
  <2> QED BY <1>0, <1>1, <1>2, <1>7, <1>12, <2>1
<1>14. Continues(rest, c, d + 1)
  <2>1. ASSUME NEW i \in 1..lr PROVE rest[i] = c[g + i]
    <3> HIDE DEF e, lr, lm, lx, g, fill
    <3>1. rest[i] = x[fill + i] /\ i \in 1..(lx - fill)
      BY <1>11
    <3>2. g + i \in 1..(lm + lx) /\ ~ (g + i <= lm) /\ (g + i) - lm = fill + i
      <4>1. lm \in Nat /\ lx \in Nat /\ fill \in Nat /\ fill < lx /\ g = lm + fill
        BY <1>1, <1>7, <1>13
      <4> QED BY <3>1, <4>1
    <3> QED BY <1>2, <3>1, <3>2
  <2> QED BY <1>13, <2>1 DEF Continues
<1>15. n \in Nat /\ n * B \in Nat /\ n * B < lr /\ lr <= n * B + B
  <2> HIDE DEF lr
  <2>1. n = wholeBlocks(lr)
    BY DEF lr
  <2> QED BY <1>13, <2>1, RoundsLeaveInput
<1> HIDE DEF n
<1>16. Len(c) < WordSize * WordSize
  BY <1>2, <1>7
<1>17. Running(done, p, c, (d + 1) + n) /\ done.buf = full /\ done.buflen = 0
  <2> DEFINE k == d + 1
  <2>1. k \in Nat /\ Continues(rest, c, k) /\ Running(emptied, p, c, k)
    BY <1>1, <1>10, <1>14
  <2>2. n * BlockBytes <= Len(rest)
    BY <1>13, <1>15
  <2>4. c \in Seq(D) /\ rest \in Seq(D) /\ n \in Nat
    BY <1>2, <1>11, <1>15
  <2> HIDE DEF k
  <2>3. Running(done, p, c, k + n) /\ done.buf = emptied.buf /\ done.buflen = emptied.buflen
    BY <1>16, <2>1, <2>2, <2>4, RoundsFeed
  <2> QED BY <1>10, <2>3 DEF k
<1> HIDE DEF done
<1> DEFINE v == (d + 1) + n
           a == n * B
           u == lr - a
<1>18. v \in Nat /\ v * B = g + a /\ a \in Nat /\ u \in Nat /\ u > 0 /\ u <= B
  <2>1. v \in Nat /\ v * B = g + a
    BY <1>0, <1>1, <1>15
  <2>2. a \in Nat /\ a < lr /\ lr <= a + B
    BY <1>15
  <2> HIDE DEF v, a, lr
  <2> QED BY <1>0, <1>13, <2>1, <2>2
<1>19. tail \in Seq(D) /\ Len(tail) = u /\ \A i \in 1..u : tail[i] = rest[a + i]
  <2>1. a \in Nat /\ lr \in Nat /\ a <= lr /\ lr <= Len(rest) /\ lr = Len(rest)
    BY <1>13, <1>15
  <2>3. rest \in Seq(D)
    BY <1>11
  <2> HIDE DEF a, lr
  <2>2. SubSeq(rest, a + 1, lr) \in Seq(D) /\ Len(SubSeq(rest, a + 1, lr)) = lr - a
        /\ \A i \in 1..(lr - a) : SubSeq(rest, a + 1, lr)[i] = rest[a + i]
    BY <2>1, <2>3, Part
  <2> QED BY <2>1, <2>2 DEF a
<1> HIDE DEF tail
<1>20. /\ Running(b, p, c, v) /\ OfLength(b.buf, B) /\ b.buflen = 0 + u
       /\ \A i \in 1..B : i <= 0 + u =>
             b.buf[i] = IF i <= 0 THEN done.buf[i] ELSE tail[i - 0]
  <2>1. Running(done, p, c, v) /\ done.buflen = 0 /\ 0 \in Nat
    BY <1>17
  <2> HIDE DEF v, u
  <2> QED BY <1>19, <2>1, BufferedHolds
<1> HIDE DEF b
<1>21. Len(c) = g + a + u
  <2>1. u = lr - a /\ a \in Nat
    BY <1>18
  <2> HIDE DEF g, lr, a, u
  <2> QED BY <1>12, <1>13, <2>1
<1> DEFINE h == v * B
<1>22. h = g + a /\ h \in Nat /\ b.buflen = u
  BY <1>12, <1>18, <1>20
<1>23. Done(c) = v
  <2>1. h < Len(c) /\ Len(c) <= h + B
    <3> HIDE DEF g, a, u, h
    <3>1. h = g + a /\ h \in Nat
      BY <1>22
    <3>2. u \in Nat /\ u > 0 /\ u <= B
      BY <1>18
    <3>3. B \in Nat
      BY <1>0
    <3>4. Len(c) = h + u
      BY <1>12, <1>18, <1>21, <3>1
    <3> QED BY <3>1, <3>2, <3>3, <3>4
  <2> HIDE DEF v
  <2> QED BY <1>2, <1>18, <2>1, DoneUnique
<1>24. b.buflen = Len(c) - h
  <2> HIDE DEF g, a, u, h
  <2> QED BY <1>12, <1>18, <1>21, <1>22
<1>25. ASSUME NEW i \in 1..u PROVE b.buf[i] = c[h + i]
  <2> HIDE DEF u, g, a, h, v
  <2>1. i \in 1..B /\ i <= 0 + u /\ ~ (i <= 0) /\ i - 0 = i
    BY <1>0, <1>18
  <2>2. b.buf[i] = rest[a + i]
    BY <1>19, <1>20, <2>1
  <2>3. a + i \in 1..lr /\ h + i = g + (a + i)
    BY SMTT(30), <1>12, <1>13, <1>18, <1>22 DEF u
  <2>4. rest[a + i] = c[g + (a + i)]
    BY <1>14, <2>3 DEF Continues, g
  <2> QED BY <2>2, <2>3, <2>4
<1>26. Held(b, c, v)
  BY <1>20, <1>22, <1>24, <1>25 DEF Held
<1>27. Running(b, p, c, v)
  BY <1>20
<1> HIDE DEF v
<1>28. Fed(b, p, c)
  BY <1>23, <1>26, <1>27 DEF Fed
<1> QED BY <1>3, <1>28 DEF b, done, tail, n, emptied, rest, full, c

LEMMA AbsorbFeeds ==
    ASSUME NEW D, NEW m \in Seq(D), NEW x \in Seq(D), x # <<>>,
           NEW s, NEW p, Fed(s, p, m), Len(m) + Len(x) < WordSize * WordSize
    PROVE  Fed(absorb(s, x), p, m \o x)
<1>1. s.buflen + Len(x) <= BlockBytes \/ s.buflen + Len(x) > BlockBytes
  <2>1. s.buflen \in Int
    <3> DEFINE e == Done(m) * BlockBytes
    <3>1. e \in Nat /\ s.buflen = Len(m) - e
      BY DoneFacts DEF Fed, Held
    <3> HIDE DEF e
    <3> QED BY <3>1
  <2>2. Len(x) \in Nat /\ BlockBytes \in Nat
    BY BlakeAssumption
  <2> QED BY <2>1, <2>2
<1> QED BY <1>1, AbsorbFits, AbsorbOverflows

\* blake2b_init_param.
LEMMA Initialized ==
    ASSUME NEW outlen, NEW keylen
    PROVE  /\ Fed(init_param(outlen, keylen), [outlen |-> outlen, keylen |-> keylen], <<>>)
           /\ init_param(outlen, keylen).last = FALSE
           /\ init_param(outlen, keylen).h[1] = [outlen |-> outlen, keylen |-> keylen]
<1> DEFINE s == init_param(outlen, keylen)
           p == [outlen |-> outlen, keylen |-> keylen]
           m == <<>>
<1>1. BlockBytes \in Nat /\ WordSize \in Nat /\ WordSize > 0
  BY BlakeAssumption
<1>2. Done(m) = 0 /\ Len(m) = 0 /\ 0 * BlockBytes = 0
  BY <1>1 DEF Done, Blocks
<1>3. Counter(0) = <<0, 0>>
  <2>1. 0 % WordSize = 0 /\ 0 \div WordSize = 0
    BY <1>1, Remainder
  <2> QED BY <2>1 DEF Counter
<1>4. s.h = History(p, m, 0)
  <2>1. s.h = <<p>>
    BY DEF init_param
  <2>2. \A j \in 1..1 : j = 1
    OBVIOUS
  <2>3. History(p, m, 0) = [j \in 1..1 |-> p]
    BY <2>2 DEF History
  <2> HIDE DEF p, s
  <2>4. <<p>> = [j \in 1..1 |-> p]
    OBVIOUS
  <2> QED BY <2>1, <2>3, <2>4
<1>5. /\ DOMAIN s = Fields /\ s.last = FALSE /\ s.t = <<0, 0>> /\ s.outlen = p.outlen
      /\ s.buf = Zeros /\ s.buflen = 0
  BY DEF init_param, Fields
<1>6. s.h[1] = p
  BY DEF init_param
<1> HIDE DEF s, p
<1>7. Running(s, p, m, 0)
  BY <1>2, <1>3, <1>4, <1>5 DEF Running
<1>8. OfLength(Zeros, BlockBytes)
  BY DEF OfLength, Zeros
<1>9. Held(s, m, 0)
  <2>1. \A i \in 1..0 : FALSE
    OBVIOUS
  <2> QED BY <1>2, <1>5, <1>8, <2>1 DEF Held
<1> QED BY <1>2, <1>5, <1>6, <1>7, <1>9 DEF Fed, s, p

-----------------------------------------------------------------------------
(* blake2b_final.                                                           *)

LEMMA CounterTypes ==
    ASSUME NEW n \in Nat, n < WordSize * WordSize
    PROVE  Counter(n) \in (0..(WordSize - 1)) \X (0..(WordSize - 1))
<1> DEFINE W == WordSize
           q == n \div W
           r == n % W
<1>1. W \in Nat /\ W > 0
  BY BlakeAssumption
<1>2. q \in Nat /\ r \in Nat /\ r < W /\ n = q * W + r
  BY <1>1, Division
<1> HIDE DEF W, q, r
<1>3. q < W
  <2>1. SUFFICES ASSUME W <= q PROVE FALSE
    BY <1>1, <1>2
  <2>2. W * W <= q * W /\ W * W \in Nat /\ q * W \in Nat
    BY <1>1, <1>2, <2>1, ProductOrder
  <2> DEFINE a == W * W
             b == q * W
  <2>3. n < a
    BY DEF W
  <2> HIDE DEF a, b
  <2> QED BY <1>2, <2>2, <2>3 DEF a, b
<1>4. r \in 0..(W - 1) /\ q \in 0..(W - 1)
  BY <1>1, <1>2, <1>3
<1> QED BY <1>4 DEF Counter, W, q, r

\* A block that more follow is what the specification says it is.
LEMMA WholeIsReference ==
    ASSUME NEW D, NEW m \in Seq(D), NEW i \in Nat, 1 <= i, i <= Done(m)
    PROVE  Whole(m, i) = MessageBlock(m, i)
<1> DEFINE B == BlockBytes
           d == Done(m)
           l == i - 1
           n == Len(m)
<1>0. B \in Nat
  BY BlakeAssumption
<1>1. d \in Nat /\ d * B \in Nat /\ d * B <= n /\ Blocks(m) = d + 1 /\ n \in Nat
  BY DoneFacts
<1> HIDE DEF d, n
<1>2. l \in Nat /\ i * B \in Nat /\ l * B \in Nat /\ i * B = l * B + B
  BY <1>0
<1>3. i * B <= d * B
  BY <1>0, <1>1, ProductOrder DEF d
<1> HIDE DEF l
<1>4. i * B <= n
  <2> DEFINE a == i * B
             b == d * B
  <2>1. a \in Nat /\ b \in Nat /\ a <= b /\ b <= n
    BY <1>1, <1>2, <1>3
  <2> HIDE DEF a, b
  <2>2. a <= n
    BY <1>1, <2>1
  <2> QED BY <2>2 DEF a
<1>5. Minimum(i * B, n) = i * B
  <2> DEFINE a == i * B
  <2>1. a \in Nat /\ a <= n
    BY <1>2, <1>4
  <2> HIDE DEF a
  <2>2. Minimum(a, n) = a
    BY <1>1, <2>1 DEF Minimum
  <2> QED BY <2>2 DEF a
<1>6. \A k \in 1..B : l * B + k <= n
  <2> DEFINE a == i * B
             b == l * B
  <2>1. a \in Nat /\ b \in Nat /\ a = b + B /\ a <= n
    BY <1>2, <1>4
  <2> HIDE DEF a, b
  <2>2. \A k \in 1..B : b + k <= n
    BY <1>0, <1>1, <2>1
  <2> QED BY <2>2 DEF b
<1>7. ~ (i = Blocks(m))
  BY <1>1 DEF d
<1> QED BY <1>5, <1>6, <1>7 DEF Whole, MessageBlock, Counter, n, l

LEMMA LastBlock ==
    ASSUME NEW D, NEW m \in Seq(D), NEW s, NEW p, Fed(s, p, m),
           Len(m) < WordSize * WordSize
    PROVE  /\ DOMAIN lastBlock(s) = Fields
           /\ lastBlock(s).h = Reference(p, m)
           /\ lastBlock(s).t = Counter(Len(m))
           /\ lastBlock(s).last = TRUE
           /\ lastBlock(s).buflen = s.buflen
           /\ s.buflen \in 0..BlockBytes
<1> DEFINE B == BlockBytes
           d == Done(m)
           n == Len(m)
           e == d * B
           l == s.buflen
           t == increment_counter(s.t, l)
           x == Compressed(padded(s), t, TRUE)
           r == lastBlock(s)
           f == History(p, m, d)
<1>0. B \in Nat /\ B < WordSize
  BY BlakeAssumption
<1>1. d \in Nat /\ e \in Nat /\ e <= n /\ n <= e + B /\ Blocks(m) = d + 1 /\ n \in Nat
  BY DoneFacts
<1>2. /\ DOMAIN s = Fields /\ s.h = f /\ s.t = Counter(e) /\ l = n - e
      /\ \A i \in 1..l : s.buf[i] = m[e + i]
  BY DEF Fed, Running, Held
<1>3. l \in Nat /\ l <= B /\ e + l = n
  <2> HIDE DEF e, l, n
  <2> QED BY <1>0, <1>1, <1>2
<1>4. t = Counter(n)
  <2>1. l < WordSize /\ n < WordSize * WordSize
    <3> HIDE DEF l, n
    <3> QED BY <1>0, <1>3, BlakeAssumption DEF n
  <2> HIDE DEF e, l, n, d
  <2>2. increment_counter(Counter(e), l) = Counter(e + l)
    BY <1>1, <1>3, <2>1, CounterStep
  <2> QED BY <1>2, <1>3, <2>2 DEF l
<1>5. /\ DOMAIN r = Fields /\ r.h = Append(s.h, x) /\ r.t = t
      /\ r.last = TRUE /\ r.buflen = l
  BY <1>2 DEF lastBlock, compress, Fields
<1>6. x = MessageBlock(m, d + 1)
  <2> DEFINE i == d + 1
             b == i * B
  <2>1. b = e + B /\ i - 1 = d /\ i = Blocks(m)
    BY SMTT(30), <1>0, <1>1
  <2>2. Minimum(b, n) = n
    <3> HIDE DEF b, n, e
    <3> QED BY <1>0, <1>1, <2>1 DEF Minimum
  <2>3. padded(s) = [k \in 1..B |-> IF e + k <= n THEN m[e + k] ELSE 0]
    <3>1. ASSUME NEW k \in 1..B
          PROVE  (IF k <= l THEN s.buf[k] ELSE 0) = IF e + k <= n THEN m[e + k] ELSE 0
      <4> HIDE DEF e, n, l
      <4>1. k <= l <=> e + k <= n
        BY <1>0, <1>1, <1>3
      <4>2. k <= l => k \in 1..l
        BY <1>0, <1>3
      <4> QED BY <1>2, <4>1, <4>2
    <3> QED BY <3>1 DEF padded
  <2> HIDE DEF t, i
  <2>4. x = Compressed([k \in 1..B |-> IF (i - 1) * B + k <= n THEN m[(i - 1) * B + k] ELSE 0],
                       Counter(Minimum(b, n)), i = Blocks(m))
    BY <1>4, <2>1, <2>2, <2>3 DEF Compressed
  <2>5. x = MessageBlock(m, i)
    BY <2>4 DEF MessageBlock, Counter
  <2> QED BY <2>5 DEF i
<1>7. Append(s.h, x) = Reference(p, m)
  <2> DEFINE k == d + 1
             y == [i \in 1..k |-> MessageBlock(m, i)]
             z == << p >> \o y
             R == {p} \cup {MessageBlock(m, i) : i \in 1..k}
  <2>1. k \in Nat /\ OfLength(f, k)
    BY <1>1, HistoryLength
  <2>2. \A j \in 1..k : f[j] = IF j = 1 THEN p ELSE Whole(m, j - 1)
    BY DEF History
  <2>3. Reference(p, m) = z
    BY <1>1 DEF Reference
  <2> HIDE DEF f, x
  <2>4. Append(f, x) = [j \in 1..(k + 1) |-> IF j = k + 1 THEN x ELSE f[j]]
    <3> HIDE DEF k
    <3> QED BY <2>1, Appended
  <2>5. z \in Seq(R) /\ Len(z) = 1 + k
        /\ \A j \in 1..(1 + k) : z[j] = IF j <= 1 THEN p ELSE y[j - 1]
    <3> HIDE DEF k
    <3>1. y \in [1..k -> R]
      OBVIOUS
    <3>2. p \in R
      OBVIOUS
    <3> HIDE DEF y, R
    <3>3. y \in Seq(R) /\ Len(y) = k
      BY <2>1, <3>1
    <3>4. << p >> \in Seq(R) /\ Len(<< p >>) = 1 /\ << p >>[1] = p
      BY <3>2
    <3> DEFINE a == << p >>
    <3> HIDE DEF a
    <3>5. a \o y \in Seq(R) /\ Len(a \o y) = Len(a) + Len(y)
          /\ \A j \in 1..(Len(a) + Len(y)) :
                (a \o y)[j] = IF j <= Len(a) THEN a[j] ELSE y[j - Len(a)]
      BY <3>3, <3>4, ConcatProperties DEF a
    <3>6. a \o y = z /\ Len(a) = 1 /\ a[1] = p
      BY <3>4 DEF a
    <3>7. \A j \in 1..(1 + k) : j <= 1 => j = 1
      OBVIOUS
    <3> QED BY <3>3, <3>5, <3>6, <3>7
  <2>6. DOMAIN z = 1..(k + 1) /\ z = [j \in 1..(k + 1) |-> z[j]]
    <3> HIDE DEF z, k, R
    <3>1. 1 + k = k + 1
      BY <2>1
    <3> QED BY <2>1, <2>5, <3>1
  <2>7. ASSUME NEW j \in 1..(k + 1)
        PROVE  (IF j = k + 1 THEN x ELSE f[j]) = z[j]
    <3> HIDE DEF z, R
    <3>1. CASE j = 1
      <4>1. j \in 1..k /\ j # k + 1 /\ j <= 1 /\ j \in 1..(1 + k)
        BY <1>1, <3>1
      <4> QED BY <2>2, <2>5, <3>1, <4>1
    <3>2. CASE j # 1 /\ j # k + 1
      <4> DEFINE i == j - 1
      <4>1. i \in Nat /\ 1 <= i /\ i <= d /\ j \in 1..k /\ ~ (j <= 1) /\ i \in 1..k
            /\ j \in 1..(1 + k)
        BY <1>1, <3>2
      <4> HIDE DEF i, d
      <4>2. Whole(m, i) = MessageBlock(m, i)
        BY <4>1, WholeIsReference DEF d
      <4>3. y[i] = MessageBlock(m, i)
        BY <4>1
      <4> QED BY <2>2, <2>5, <3>2, <4>1, <4>2, <4>3 DEF i
    <3>3. CASE j = k + 1
      <4>1. ~ (j <= 1) /\ j - 1 = k /\ j \in 1..(1 + k) /\ k \in 1..k
        BY <1>1, <3>3
      <4>2. y[k] = MessageBlock(m, k)
        BY <4>1
      <4> HIDE DEF k, y
      <4>3. x = MessageBlock(m, k)
        BY <1>6 DEF k
      <4> QED BY <2>5, <3>3, <4>1, <4>2, <4>3
    <3> QED BY <3>1, <3>2, <3>3
  <2> HIDE DEF z, k
  <2> QED BY <1>2, <2>3, <2>4, <2>6, <2>7
<1>8. l \in 0..B
  BY <1>3
<1> QED BY <1>4, <1>5, <1>7, <1>8

-----------------------------------------------------------------------------
(* The state and its history.                                               *)

\* A state that takes input was fed the message, from its parameter block on;
\* one that does not keeps nothing.  TypeOK and NothingLeftBehind follow.
IInv ==
    /\ message \in Seq(Int) /\ Len(message) <= MaxMessage
    /\ DOMAIN S = Fields /\ S.last \in BOOLEAN
    /\ S.last = FALSE => Fed(S, S.h[1], message)
    /\ S.last = TRUE =>
          /\ S.h = <<>> /\ S.buf = Zeros /\ S.buflen \in 0..BlockBytes
          /\ S.t \in (0..(WordSize - 1)) \X (0..(WordSize - 1))
    /\ DigestOfWholeMessage

LEMMA FedFacts ==
    ASSUME NEW D, NEW m \in Seq(D), NEW s, NEW p, Fed(s, p, m),
           Len(m) < WordSize * WordSize
    PROVE  /\ DOMAIN s = Fields /\ s.last = FALSE /\ s.h[1] = p
           /\ DOMAIN s.buf = 1..BlockBytes
           /\ s.buflen \in 0..BlockBytes
           /\ m # <<>> => s.buflen > 0
           /\ s.t \in (0..(WordSize - 1)) \X (0..(WordSize - 1))
<1> DEFINE B == BlockBytes
           d == Done(m)
           e == d * B
           n == Len(m)
<1>1. /\ d \in Nat /\ e \in Nat /\ e <= n /\ n <= e + B /\ n \in Nat
      /\ m # <<>> => e < n
  BY DoneFacts
<1>2. B \in Nat
  BY BlakeAssumption
<1>3. /\ DOMAIN s = Fields /\ s.last = FALSE /\ s.h = History(p, m, d)
      /\ s.t = Counter(e) /\ OfLength(s.buf, B) /\ s.buflen = n - e
  BY DEF Fed, Running, Held
<1> DEFINE w == WordSize * WordSize
<1>4. w \in Nat /\ n < w
  BY BlakeAssumption
<1> HIDE DEF d, e, n, w
<1>5. History(p, m, d)[1] = p
  <2>1. 1 \in 1..(d + 1)
    BY <1>1
  <2> QED BY <2>1 DEF History
<1>6. s.buflen \in 0..B /\ (m # <<>> => s.buflen > 0)
  BY <1>1, <1>2, <1>3
<1>7. e < w
  BY <1>1, <1>4
<1>8. Counter(e) \in (0..(WordSize - 1)) \X (0..(WordSize - 1))
  BY <1>1, <1>7, CounterTypes DEF w
<1>9. DOMAIN s.buf = 1..B
  BY <1>3 DEF OfLength
<1> QED BY <1>3, <1>5, <1>6, <1>8, <1>9

LEMMA ReferenceBegins ==
    ASSUME NEW D, NEW m \in Seq(D), NEW p
    PROVE  Reference(p, m)[1] = p
<1> DEFINE k == Blocks(m)
           y == [i \in 1..k |-> MessageBlock(m, i)]
           R == {p} \cup {y[i] : i \in 1..k}
<1>1. k \in Nat
  BY DoneFacts
<1>2. y \in [1..k -> R] /\ p \in R
  OBVIOUS
<1>3. Reference(p, m) = << p >> \o y
  BY DEF Reference
<1> HIDE DEF k, y, R
<1> DEFINE a == << p >>
<1>4. y \in Seq(R) /\ Len(y) \in Nat
  BY <1>1, <1>2
<1>5. a \in Seq(R) /\ Len(a) = 1 /\ a[1] = p
  BY <1>2
<1> HIDE DEF a
<1>6. 1 \in 1..(Len(a) + Len(y)) /\ 1 <= Len(a)
  BY <1>4, <1>5
<1>7. (a \o y)[1] = a[1]
  BY <1>4, <1>5, <1>6, ConcatProperties
<1> QED BY <1>3, <1>5, <1>7 DEF a

LEMMA MessageIsCounted ==
    ASSUME NEW n \in Nat, n <= MaxMessage
    PROVE  n < WordSize * WordSize
<1> DEFINE w == WordSize * WordSize
<1>1. w \in Nat /\ MaxMessage \in Nat /\ MaxMessage < w
  BY BlakeAssumption
<1> HIDE DEF w
<1>2. n < w
  BY <1>1
<1> QED BY <1>2 DEF w

LEMMA InitSatisfiesIInv == Init => IInv
<1> SUFFICES ASSUME Init PROVE IInv
  OBVIOUS
<1>1. PICK outlen \in 1..OutBytes : S = init_param(outlen, 0)
  BY DEF Init
<1> DEFINE p == [outlen |-> outlen, keylen |-> 0]
<1>2. Fed(S, p, <<>>) /\ S.last = FALSE /\ S.h[1] = p
  BY <1>1, Initialized
<1>3. DOMAIN S = Fields
  BY <1>1 DEF init_param, Fields
<1>4. message = <<>> /\ message \in Seq(Int) /\ Len(message) <= MaxMessage
  BY BlakeAssumption DEF Init
<1>5. DigestOfWholeMessage
  BY DEF Init, Outcome, DigestOfWholeMessage
<1> QED BY <1>2, <1>3, <1>4, <1>5 DEF IInv

LEMMA InvalidState ==
    /\ DOMAIN invalid_state = Fields /\ invalid_state.last = TRUE
    /\ invalid_state.h = <<>> /\ invalid_state.buf = Zeros
    /\ invalid_state.buflen \in 0..BlockBytes
    /\ invalid_state.t \in (0..(WordSize - 1)) \X (0..(WordSize - 1))
<1>1. 0 \in 0..BlockBytes /\ 0 \in 0..(WordSize - 1)
  BY BlakeAssumption
<1> QED BY <1>1 DEF invalid_state, Fields

LEMMA InitStep ==
    ASSUME IInv, NEW outlen, blake2b_init(outlen)
    PROVE  IInv'
<1> DEFINE p == [outlen |-> outlen, keylen |-> 0]
<1>1. message' = <<>> /\ message' \in Seq(Int) /\ Len(message') <= MaxMessage
  BY BlakeAssumption DEF blake2b_init
<1>2. DigestOfWholeMessage'
  BY DEF blake2b_init, Outcome, DigestOfWholeMessage
<1>3. CASE initAccepts(outlen)
  <2>1. S' = init_param(outlen, 0)
    BY <1>3 DEF blake2b_init
  <2>2. Fed(S', p, <<>>) /\ S'.last = FALSE /\ S'.h[1] = p
    BY <2>1, Initialized
  <2>3. DOMAIN S' = Fields
    BY <2>1 DEF init_param, Fields
  <2> QED BY <1>1, <1>2, <2>2, <2>3 DEF IInv
<1>4. CASE ~ initAccepts(outlen)
  <2>1. S' = invalid_state
    BY <1>4 DEF blake2b_init
  <2> QED BY <1>1, <1>2, <2>1, InvalidState DEF IInv
<1> QED BY <1>3, <1>4

LEMMA InitKeyStep ==
    ASSUME IInv, NEW outlen, NEW keylen \in Nat, blake2b_init_key(outlen, keylen)
    PROVE  IInv'
<1> DEFINE p == [outlen |-> outlen, keylen |-> keylen]
           ok == initAccepts(outlen) /\ keyAccepts(keylen)
           block == copied(Zeros, 0, Key(keylen))
           s == init_param(outlen, keylen)
<1>1. DigestOfWholeMessage'
  BY DEF blake2b_init_key, Outcome, DigestOfWholeMessage
<1>2. CASE ok
  <2>1. S' = absorb(s, block) /\ message' = block
    BY <1>2 DEF blake2b_init_key
  <2>2. Fed(s, p, <<>>)
    BY Initialized
  <2>3. block \in Seq(Int) /\ Len(block) = BlockBytes /\ block # <<>>
    <3>1. BlockBytes \in Nat /\ BlockBytes > 0
      BY BlakeAssumption
    <3>2. ASSUME NEW i \in 1..BlockBytes
          PROVE  (IF i \in (0 + 1)..(0 + Len(Key(keylen)))
                  THEN Key(keylen)[i - 0] ELSE Zeros[i]) \in Int
      <4>1. Key(keylen) \in Seq(Int)
        BY DEF Key
      <4>2. Len(Key(keylen)) = keylen
        BY DEF Key
      <4>3. \A j \in 1..keylen : Key(keylen)[j] \in Int
        BY DEF Key
      <4>4. Zeros[i] \in Int
        BY DEF Zeros
      <4> QED BY <4>2, <4>3, <4>4
    <3>3. block \in [1..BlockBytes -> Int]
      BY <3>2 DEF copied
    <3> HIDE DEF block
    <3> QED BY <3>1, <3>3
  <2>4. Len(<<>>) + Len(block) < WordSize * WordSize
    <3>1. BlockBytes \in Nat /\ BlockBytes <= MaxMessage
      BY BlakeAssumption
    <3>2. BlockBytes < WordSize * WordSize
      BY <3>1, MessageIsCounted
    <3>3. Len(<<>>) + Len(block) = BlockBytes
      BY <2>3, <3>1
    <3> QED BY <3>2, <3>3
  <2>5. <<>> \o block = block /\ <<>> \in Seq(Int)
    <3> HIDE DEF block
    <3> QED BY <2>3, ConcatEmptySeq
  <2> HIDE DEF s, block, p
  <2>6. Fed(S', p, message')
    BY <2>1, <2>2, <2>3, <2>4, <2>5, AbsorbFeeds
  <2>7. Len(block) < WordSize * WordSize /\ Len(block) <= MaxMessage
    <3>1. BlockBytes \in Nat /\ BlockBytes <= MaxMessage
      BY BlakeAssumption
    <3> QED BY <2>3, <3>1, MessageIsCounted
  <2>8. DOMAIN S' = Fields /\ S'.last = FALSE /\ S'.h[1] = p
    BY <2>1, <2>3, <2>6, <2>7, FedFacts
  <2> QED BY <1>1, <2>1, <2>3, <2>6, <2>7, <2>8 DEF IInv
<1>3. CASE ~ ok
  <2>1. S' = invalid_state /\ message' = <<>>
    BY <1>3 DEF blake2b_init_key
  <2>2. message' \in Seq(Int) /\ Len(message') <= MaxMessage
    BY <2>1, BlakeAssumption
  <2> QED BY <1>1, <2>1, <2>2, InvalidState DEF IInv
<1> QED BY <1>2, <1>3

LEMMA UpdateStep ==
    ASSUME IInv, NEW n \in Nat, blake2b_update(n)
    PROVE  IInv'
<1> DEFINE in == [i \in 1..n |-> Len(message) + i]
           lm == Len(message)
<1>0. message \in Seq(Int) /\ lm \in Nat /\ lm + n <= MaxMessage
  BY DEF IInv, blake2b_update
<1>1. in \in Seq(Int) /\ Len(in) = n /\ (in = <<>> <=> n = 0)
  <2>1. in \in [1..n -> Int]
    BY <1>0
  <2> HIDE DEF in
  <2> QED BY <2>1
<1>2. DigestOfWholeMessage'
  BY DEF blake2b_update, Outcome, DigestOfWholeMessage
<1>3. /\ S' = updated(S, in)
      /\ message' = IF updateAccepts(S, in) THEN message \o in ELSE message
  BY DEF blake2b_update
<1> HIDE DEF in
<1>4. CASE in = <<>> \/ S.last = TRUE
  <2>1. S' = S
    BY <1>3, <1>4 DEF updated
  <2>2. message \o <<>> = message
    BY <1>0, ConcatEmptySeq
  <2>3. message' = message
    BY <1>3, <1>4, <2>2 DEF updateAccepts
  <2> QED BY <1>2, <2>1, <2>3 DEF IInv
<1>5. CASE in # <<>> /\ S.last = FALSE
  <2> DEFINE p == S.h[1]
             c == message \o in
  <2>1. S' = absorb(S, in) /\ message' = c
    BY <1>3, <1>5 DEF updated, updateAccepts
  <2>2. c \in Seq(Int) /\ Len(c) = lm + n
    BY <1>0, <1>1, ConcatProperties
  <2>3. lm + n < WordSize * WordSize /\ Len(message) + Len(in) < WordSize * WordSize
    <3> DEFINE k == lm + n
    <3>1. k \in Nat /\ k <= MaxMessage
      BY <1>0
    <3> HIDE DEF k
    <3>2. k < WordSize * WordSize
      BY <3>1, MessageIsCounted
    <3>3. Len(message) + Len(in) = k
      BY <1>1 DEF k
    <3> QED BY <3>2, <3>3 DEF k
  <2>4. Fed(S, p, message)
    BY <1>5 DEF IInv
  <2> HIDE DEF p
  <2>5. Fed(absorb(S, in), p, c)
    BY <1>0, <1>1, <1>5, <2>3, <2>4, AbsorbFeeds
  <2> HIDE DEF c
  <2>6. Len(c) < WordSize * WordSize
    BY <2>2, <2>3
  <2>7. DOMAIN S' = Fields /\ S'.last = FALSE /\ S'.h[1] = p
    BY <2>1, <2>2, <2>5, <2>6, FedFacts
  <2>8. message' \in Seq(Int) /\ Len(message') <= MaxMessage
    BY <1>0, <2>1, <2>2
  <2> QED BY <1>2, <2>1, <2>5, <2>7, <2>8 DEF IInv
<1>6. S.last \in BOOLEAN
  BY DEF IInv
<1> QED BY <1>4, <1>5, <1>6

LEMMA FinalStep ==
    ASSUME IInv, NEW outlen, blake2b_final(outlen)
    PROVE  IInv'
<1>1. /\ message' = message
      /\ S' = IF finalAccepts(S, outlen) THEN wiped(lastBlock(S)) ELSE S
      /\ result' = Outcome("final", None, finalAccepts(S, outlen),
                           IF finalAccepts(S, outlen) THEN digest(S) ELSE None)
  BY DEF blake2b_final
<1>2. CASE finalAccepts(S, outlen)
  <2> DEFINE p == S.h[1]
             r == lastBlock(S)
  <2>1. S.last = FALSE /\ Fed(S, p, message) /\ message \in Seq(Int)
        /\ Len(message) <= MaxMessage /\ Len(message) \in Nat
    BY <1>2 DEF IInv, finalAccepts
  <2>2. Len(message) < WordSize * WordSize
    BY <2>1, MessageIsCounted
  <2> HIDE DEF p
  <2>3. /\ DOMAIN r = Fields /\ r.h = Reference(p, message)
        /\ r.t = Counter(Len(message)) /\ r.last = TRUE
        /\ r.buflen = S.buflen /\ S.buflen \in 0..BlockBytes
    <3>1. Fed(S, p, message) /\ message \in Seq(Int)
      BY <2>1
    <3>2. /\ DOMAIN lastBlock(S) = Fields /\ lastBlock(S).h = Reference(p, message)
          /\ lastBlock(S).t = Counter(Len(message)) /\ lastBlock(S).last = TRUE
          /\ lastBlock(S).buflen = S.buflen /\ S.buflen \in 0..BlockBytes
      BY <2>2, <3>1, LastBlock, Zenon
    <3> QED BY <3>2
  <2>4. r.t \in (0..(WordSize - 1)) \X (0..(WordSize - 1))
    BY <2>1, <2>2, <2>3, CounterTypes
  <2>5. S' = wiped(r) /\ result' = Outcome("final", None, TRUE, digest(S))
    BY <1>1, <1>2
  <2>6. digest(S).h = r.h
    BY DEF digest
  <2> HIDE DEF r
  <2>7. /\ DOMAIN S' = Fields /\ S'.last = TRUE /\ S'.h = <<>> /\ S'.buf = Zeros
        /\ S'.buflen = r.buflen /\ S'.t = r.t
    BY <2>3, <2>5 DEF wiped, Fields
  <2>8. DigestOfWholeMessage'
    <3>1. Reference(p, message)[1] = p
      BY <2>1, ReferenceBegins
    <3>2. result'.output = digest(S)
      BY <2>5 DEF Outcome
    <3> DEFINE h == result'.output.h
    <3>3. h = Reference(p, message) /\ h[1] = p
      BY <2>3, <2>6, <3>1, <3>2
    <3> HIDE DEF h
    <3>4. h = Reference(h[1], message')
      BY <1>1, <3>3
    <3> QED BY <3>4 DEF DigestOfWholeMessage, h
  <2> QED BY <1>1, <2>1, <2>3, <2>4, <2>7, <2>8 DEF IInv
<1>3. CASE ~ finalAccepts(S, outlen)
  <2>1. S' = S /\ result'.ok = FALSE
    BY <1>1, <1>3 DEF Outcome
  <2>2. DigestOfWholeMessage'
    BY <2>1 DEF DigestOfWholeMessage
  <2> QED BY <1>1, <2>1, <2>2 DEF IInv
<1> QED BY <1>2, <1>3

LEMMA LongStep ==
    ASSUME IInv, NEW outlen, NEW n, long(outlen, n)
    PROVE  IInv'
<1>1. S' = S /\ message' = message /\ result'.call = "long"
  BY DEF long, Outcome
<1>2. DigestOfWholeMessage'
  BY <1>1 DEF DigestOfWholeMessage
<1> QED BY <1>1, <1>2 DEF IInv

LEMMA StepKeepsIInv == IInv /\ [Next]_vars => IInv'
<1> SUFFICES ASSUME IInv, [Next]_vars PROVE IInv'
  OBVIOUS
<1>1. CASE \E outlen \in 0..(OutBytes + 1) :
              \/ blake2b_init(outlen)
              \/ blake2b_final(outlen)
              \/ \E keylen \in 0..(KeyBytes + 1) : blake2b_init_key(outlen, keylen)
  <2>1. ASSUME NEW keylen \in 0..(KeyBytes + 1) PROVE keylen \in Nat
    BY BlakeAssumption
  <2> QED BY <1>1, <2>1, InitStep, InitKeyStep, FinalStep
<1>2. CASE \E n \in 0..MaxMessage : blake2b_update(n)
  <2>1. ASSUME NEW n \in 0..MaxMessage PROVE n \in Nat
    BY BlakeAssumption
  <2> QED BY <1>2, <2>1, UpdateStep
<1>3. CASE \E outlen \in 0..MaxLong, n \in {0, BlockBytes} : long(outlen, n)
  BY <1>3, LongStep
<1>4. CASE UNCHANGED vars
  BY <1>4 DEF vars, IInv, DigestOfWholeMessage
<1> QED BY <1>1, <1>2, <1>3, <1>4 DEF Next

LEMMA IInvAlways == Spec => []IInv
BY InitSatisfiesIInv, StepKeepsIInv, PTL DEF Spec

-----------------------------------------------------------------------------
(* blake2b_long.                                                            *)

LEMMA FedDigest ==
    ASSUME NEW D, NEW m \in Seq(D), NEW s, NEW p, Fed(s, p, m),
           Len(m) < WordSize * WordSize
    PROVE  digest(s) = [h |-> Reference(p, m), outlen |-> p.outlen]
<1>1. lastBlock(s).h = Reference(p, m)
  BY LastBlock
<1>2. s.outlen = p.outlen
  BY DEF Fed, Running
<1> QED BY <1>1, <1>2 DEF digest

LEMMA UpdatedFeeds ==
    ASSUME NEW D, NEW m \in Seq(D), NEW x \in Seq(D), NEW s, NEW p, Fed(s, p, m),
           Len(m) + Len(x) < WordSize * WordSize
    PROVE  Fed(updated(s, x), p, m \o x)
<1>1. s.last = FALSE
  BY DEF Fed, Running
<1>2. CASE x = <<>>
  <2>1. updated(s, x) = s /\ m \o x = m
    BY <1>2, ConcatEmptySeq DEF updated
  <2> QED BY <2>1
<1>3. CASE x # <<>>
  <2>1. updated(s, x) = absorb(s, x)
    BY <1>1, <1>3 DEF updated
  <2>2. Fed(absorb(s, x), p, m \o x)
    BY <1>3, AbsorbFeeds
  <2> QED BY <2>1, <2>2
<1> QED BY <1>2, <1>3

\* blake2b is initialization, one update and the end.
LEMMA SingleUpdate ==
    ASSUME NEW outlen, NEW D, NEW x \in Seq(D), Len(x) < WordSize * WordSize
    PROVE  blake2b(outlen, x) = ReferenceDigest(outlen, x)
<1> DEFINE p == [outlen |-> outlen, keylen |-> 0]
           s == init_param(outlen, 0)
           m == <<>>
<1>1. Fed(s, p, m)
  BY Initialized
<1>2. m \in Seq(D) /\ m \o x = x /\ Len(m) + Len(x) = Len(x)
  <2>1. Len(x) \in Nat
    OBVIOUS
  <2> QED BY <2>1, ConcatEmptySeq
<1>3. p.outlen = outlen
  OBVIOUS
<1>4. blake2b(outlen, x) = digest(updated(s, x))
  BY DEF blake2b
<1>5. ReferenceDigest(outlen, x) = [h |-> Reference(p, x), outlen |-> p.outlen]
  BY <1>3 DEF ReferenceDigest
<1> HIDE DEF p, s, m
<1>6. Fed(updated(s, x), p, m \o x)
  BY <1>1, <1>2, UpdatedFeeds
<1>7. digest(updated(s, x)) = [h |-> Reference(p, x), outlen |-> p.outlen]
  BY <1>2, <1>6, FedDigest
<1> QED BY <1>4, <1>5, <1>7

\* The length and the input, in two updates.
LEMMA FirstLinkIsReference ==
    ASSUME NEW size, NEW outlen, NEW in \in Seq(Int),
           4 + Len(in) < WordSize * WordSize
    PROVE  firstLink(size, outlen, in) = ReferenceDigest(size, LengthBytes(outlen) \o in)
<1> DEFINE p == [outlen |-> size, keylen |-> 0]
           s == init_param(size, 0)
           m == <<>>
           b == LengthBytes(outlen)
           D == Int \cup {b[i] : i \in 1..4}
           t == updated(s, b)
           u == updated(t, in)
<1>1. b = << b[1], b[2], b[3], b[4] >>
  BY DEF LengthBytes
<1>2. p.outlen = size
  OBVIOUS
<1>3. Fed(s, p, m)
  BY Initialized
<1> HIDE DEF b
<1>4. b[1] \in D /\ b[2] \in D /\ b[3] \in D /\ b[4] \in D
  OBVIOUS
<1>5. \A i \in Int : i \in D
  OBVIOUS
<1> HIDE DEF D
<1>6. b \in Seq(D) /\ Len(b) = 4
  <2>1. \A x1, x2, x3, x4 \in D : /\ << x1, x2, x3, x4 >> \in Seq(D)
                                  /\ Len(<< x1, x2, x3, x4 >>) = 4
    OBVIOUS
  <2>2. << b[1], b[2], b[3], b[4] >> \in Seq(D) /\ Len(<< b[1], b[2], b[3], b[4] >>) = 4
    BY <1>4, <2>1
  <2> QED BY <1>1, <2>2, Zenon
<1>7. in \in Seq(D)
  <2>1. in \in [1..Len(in) -> Int] /\ Len(in) \in Nat
    OBVIOUS
  <2>2. in \in [1..Len(in) -> D]
    BY <1>5, <2>1
  <2> QED BY <2>1, <2>2
<1>8. m \in Seq(D) /\ m \o b = b /\ Len(m) + Len(b) = 4
  BY <1>6, ConcatEmptySeq
<1>9. 4 < WordSize * WordSize
  <2> DEFINE w == WordSize * WordSize
  <2>1. w \in Nat /\ 4 + Len(in) < w /\ Len(in) \in Nat
    BY BlakeAssumption
  <2> HIDE DEF w
  <2>2. 4 < w
    BY <2>1
  <2> QED BY <2>2 DEF w
<1>10. Len(b \o in) = 4 + Len(in) /\ b \o in \in Seq(D)
  <2> HIDE DEF t, u, s, p, m
  <2>1. Len(b \o in) = Len(b) + Len(in) /\ b \o in \in Seq(D)
    BY <1>6, <1>7, ConcatProperties, Zenon
  <2> QED BY <1>6, <2>1
<1>11. firstLink(size, outlen, in) = digest(u)
  BY DEF firstLink, b
<1>12. ReferenceDigest(size, b \o in) = [h |-> Reference(p, b \o in), outlen |-> p.outlen]
  BY <1>2 DEF ReferenceDigest
<1> HIDE DEF p, s, m
<1>13. Fed(t, p, b)
  BY <1>3, <1>6, <1>8, <1>9, UpdatedFeeds
<1> HIDE DEF t
<1>14. Fed(u, p, b \o in)
  BY <1>6, <1>7, <1>13, UpdatedFeeds
<1> HIDE DEF u
<1>15. digest(u) = [h |-> Reference(p, b \o in), outlen |-> p.outlen]
  BY <1>10, <1>14, FedDigest
<1> QED BY <1>11, <1>12, <1>15 DEF b

LEMMA BytesOfDigest ==
    ASSUME NEW d, NEW n \in Nat
    PROVE  /\ OfLength(Bytes(d, n), n)
           /\ Len(Bytes(d, n)) = n
           /\ \A i \in 1..n : Bytes(d, n)[i] = DigestByte(d, i)
<1>1. OfLength(Bytes(d, n), n)
  BY DEF Bytes, OfLength
<1>2. Len(Bytes(d, n)) = n
  BY <1>1, Sequence
<1> QED BY <1>1, <1>2 DEF Bytes

\* A digest fits into one block, and its length with a block into a counter.
LEMMA DigestsAreCounted ==
    /\ Half \in Nat /\ Half > 0 /\ OutBytes = Half + Half
    /\ OutBytes < WordSize * WordSize
    /\ 4 + BlockBytes < WordSize * WordSize
<1> DEFINE B == BlockBytes
           W == WordSize
           w == W * W
<1>1. B \in Nat /\ W \in Nat /\ W >= B + 1 /\ OutBytes \in Nat /\ OutBytes <= B
  BY BlakeAssumption
<1>2. Half \in Nat /\ Half > 0 /\ OutBytes = Half + Half
  BY BlakeAssumption DEF Half
<1>3. B >= 2
  BY <1>1, <1>2
<1>4. 3 * W <= W * W /\ 3 * W \in Nat /\ W * W \in Nat
  BY <1>1, <1>3, ProductOrder
<1>5. 3 * W >= B + 5
  BY <1>1, <1>3
<1> HIDE DEF B, W
<1>6. w \in Nat /\ w >= B + 5
  <2>1. w \in Nat /\ 3 * W <= w
    BY <1>4
  <2> HIDE DEF w
  <2> QED BY <1>1, <1>4, <1>5, <2>1
<1> HIDE DEF w
<1>7. OutBytes < w /\ 4 + B < w
  BY <1>1, <1>6
<1> QED BY <1>2, <1>7 DEF B, W, w

\* A digest of a digest.
LEMMA NextDigest ==
    ASSUME NEW outlen, NEW d
    PROVE  blake2b(outlen, Bytes(d, OutBytes)) = ReferenceDigest(outlen, Bytes(d, OutBytes))
<1> DEFINE x == Bytes(d, OutBytes)
           D == {x[i] : i \in 1..OutBytes}
<1>1. OutBytes \in Nat
  BY BlakeAssumption
<1>2. OfLength(x, OutBytes) /\ Len(x) = OutBytes
  BY <1>1, BytesOfDigest
<1> HIDE DEF x
<1>3. x \in Seq(D)
  BY <1>1, <1>2, Sequence
<1> HIDE DEF D
<1>4. Len(x) < WordSize * WordSize
  BY <1>2, DigestsAreCounted
<1>5. blake2b(outlen, x) = ReferenceDigest(outlen, x)
  BY <1>3, <1>4, SingleUpdate
<1> QED BY <1>5 DEF x

\* The loop of blake2b_long and RFC 9106 agree on the number of digests.
LEMMA LinkNumbers ==
    ASSUME NEW T \in Nat, T > OutBytes
    PROVE  LET n == linkRounds(T - Half)
               r == (T + Half - 1) \div Half - 2
           IN /\ n \in Nat /\ r = n + 1
              /\ r * Half \in Nat /\ r * Half < T
              /\ T - Half - n * Half = T - r * Half
<1> DEFINE H == Half
           k == T - 1
           q == k \div H
           s == k % H
           n == linkRounds(T - H)
           r == (T + H - 1) \div H - 2
<1>1. H \in Nat /\ H > 0 /\ OutBytes = H + H
  BY DigestsAreCounted
<1> HIDE DEF H
<1>2. k \in Nat /\ T = k + 1 /\ k >= H + H
  BY <1>1
<1> HIDE DEF k
<1>3. q \in Nat /\ s \in Nat /\ s < H /\ k = q * H + s
  BY <1>1, <1>2, Division
<1> HIDE DEF q, s
<1> DEFINE a == q * H
<1>4. a \in Nat /\ (q + 1) * H = a + H /\ k = a + s
  BY <1>1, <1>3
<1>5. q >= 2
  <2> SUFFICES ASSUME q = 0 \/ q = 1 PROVE FALSE
    BY <1>3
  <2>1. a = 0 \/ a = H
    BY <1>1
  <2> HIDE DEF a
  <2> QED BY <1>1, <1>2, <1>3, <1>4, <2>1
<1> DEFINE c == q - 2
<1>6. c \in Nat /\ q = c + 2 /\ (c + 1) * H = c * H + H /\ a = c * H + H + H /\ c * H \in Nat
  BY <1>1, <1>3, <1>5
<1> HIDE DEF c
<1> DEFINE b == c * H
<1> HIDE DEF a
<1>7. r = c + 1
  <2> DEFINE i == q + 1
             j == T + H - 1
  <2>1. i \in Nat /\ j \in Nat /\ j = i * H + s
    <3>1. j \in Nat /\ j = k + H
      BY <1>1, <1>2
    <3> QED BY <1>1, <1>3, <1>4, <3>1
  <2> HIDE DEF i, j
  <2>2. j \div H = i
    BY <1>1, <1>3, <2>1, DivisionUnique
  <2> QED BY <1>6, <2>2 DEF i, j
<1>8. n = c
  <2>1. CASE T - H <= OutBytes
    <3>1. n = 0
      BY <2>1 DEF linkRounds
    <3>2. c = 0
      <4>1. b < H
        <5> HIDE DEF b
        <5>1. a = b + H + H /\ b \in Nat
          BY <1>6 DEF b
        <5> QED BY <1>1, <1>2, <1>3, <1>4, <2>1, <5>1
      <4>2. SUFFICES ASSUME 1 <= c PROVE FALSE
        BY <1>6
      <4>3. 1 * H <= c * H
        BY <1>1, <1>6, <4>2, ProductOrder
      <4>4. 1 * H = H
        BY <1>1
      <4> QED BY <1>1, <1>6, <4>1, <4>3, <4>4
    <3> QED BY <3>1, <3>2
  <2>2. CASE ~ (T - H <= OutBytes)
    <3> DEFINE j == T - H - OutBytes + H - 1
    <3>1. j \in Nat /\ j = c * H + s
      <4> HIDE DEF b
      <4>1. a = b + H + H /\ b \in Nat
        BY <1>6 DEF b
      <4>2. j = b + s
        BY <1>1, <1>2, <1>3, <1>4, <4>1
      <4> QED BY <1>3, <4>1, <4>2 DEF b
    <3>2. n = j \div H
      BY <2>2 DEF linkRounds, H
    <3> HIDE DEF j, n
    <3>3. j \div H = c
      BY <1>1, <1>3, <1>6, <3>1, DivisionUnique
    <3> QED BY <3>2, <3>3
  <2> QED BY <2>1, <2>2
<1> HIDE DEF r, n
<1>9. r * H = b + H /\ n * H = b
  BY <1>6, <1>7, <1>8
<1>10. r * H \in Nat /\ r * H < T /\ T - H - n * H = T - r * H
  <2> DEFINE x == r * H
             y == n * H
  <2>1. x = b + H /\ y = b /\ a = b + H + H /\ b \in Nat
    BY <1>6, <1>9
  <2> HIDE DEF x, y, b
  <2>2. x \in Nat /\ x < T /\ T - H - y = T - x
    BY <1>1, <1>2, <1>3, <1>4, <2>1
  <2> QED BY <2>2 DEF x, y
<1> QED BY <1>6, <1>7, <1>8, <1>10 DEF H, n, r

\* g is what blake2b_long has made after each of n rounds.
InLinks(g, outlen, in, n) ==
    g = [k \in 0..n |-> IF k = 0 THEN firstRound(outlen, in) ELSE nextRound(g[k - 1])]

LEMMA LinksExist ==
    ASSUME NEW outlen, NEW in, NEW n \in Nat
    PROVE  \E g : InLinks(g, outlen, in, n)
<1> DEFINE T == {j \in Nat : \E g : InLinks(g, outlen, in, j)}
           s == firstRound(outlen, in)
<1> HIDE DEF s
<1>1. 0 \in T
  <2> DEFINE g == [k \in 0..0 |-> s]
  <2>1. \A k \in 0..0 : k = 0
    OBVIOUS
  <2>2. InLinks(g, outlen, in, 0)
    BY <2>1 DEF InLinks, s
  <2> QED BY <2>2
<1>2. ASSUME NEW j \in Nat, j \in T PROVE j + 1 \in T
  <2>1. PICK g : InLinks(g, outlen, in, j)
    BY <1>2
  <2> DEFINE x == nextRound(g[j])
             f == [k \in 0..(j + 1) |-> IF k = j + 1 THEN x ELSE g[k]]
  <2>2. ASSUME NEW k \in 0..(j + 1)
        PROVE  f[k] = IF k = 0 THEN s ELSE nextRound(f[k - 1])
    <3>1. CASE k = j + 1
      <4>1. k - 1 = j /\ j \in 0..(j + 1) /\ j # j + 1 /\ k # 0
        BY <3>1
      <4>2. f[k] = x /\ f[k - 1] = g[j]
        BY <3>1, <4>1
      <4> QED BY <3>1, <4>1, <4>2
    <3>2. CASE k # j + 1
      <4>1. k \in 0..j /\ f[k] = g[k]
        BY <3>2
      <4>2. g[k] = IF k = 0 THEN s ELSE nextRound(g[k - 1])
        BY <2>1, <4>1 DEF InLinks, s
      <4>3. k # 0 => k - 1 \in 0..(j + 1) /\ k - 1 # j + 1
        BY <4>1
      <4>4. k # 0 => f[k - 1] = g[k - 1]
        BY <4>3
      <4> QED BY <4>1, <4>2, <4>4
    <3> QED BY <3>1, <3>2
  <2>3. f = [k \in 0..(j + 1) |-> f[k]]
    OBVIOUS
  <2> HIDE DEF f
  <2>4. InLinks(f, outlen, in, j + 1)
    BY <2>2, <2>3 DEF InLinks, s
  <2> QED BY <2>4
<1>3. Nat \subseteq T
  <2> HIDE DEF T
  <2> QED BY <1>1, <1>2, AllNumbers
<1> QED BY <1>3

LEMMA LinksFacts ==
    ASSUME NEW outlen, NEW in, NEW n \in Nat
    PROVE  \E g : InLinks(g, outlen, in, n) /\ links(outlen, in, n) = g[n]
<1> DEFINE g == CHOOSE f : InLinks(f, outlen, in, n)
<1>1. InLinks(g, outlen, in, n)
  BY LinksExist
<1>2. links(outlen, in, n) = g[n]
  BY DEF links, InLinks
<1> QED BY <1>1, <1>2

\* V is the chain of RFC 9106 as far as its r-th digest.
InChain(V, T, X, r) ==
    V = [i \in 1..r |-> IF i = 1 THEN ReferenceDigest(OutBytes, LengthBytes(T) \o X)
                        ELSE ReferenceDigest(OutBytes, Bytes(V[i - 1], OutBytes))]

LEMMA ChainExists ==
    ASSUME NEW T, NEW X, NEW r \in Nat
    PROVE  \E V : InChain(V, T, X, r)
<1> DEFINE N == {j \in Nat : \E V : InChain(V, T, X, j)}
           s == ReferenceDigest(OutBytes, LengthBytes(T) \o X)
           next(d) == ReferenceDigest(OutBytes, Bytes(d, OutBytes))
<1> HIDE DEF s, next
<1>1. 0 \in N
  <2> DEFINE V == [k \in 1..0 |-> s]
  <2>1. \A k \in 1..0 : FALSE
    OBVIOUS
  <2>2. InChain(V, T, X, 0)
    BY <2>1 DEF InChain
  <2> QED BY <2>2
<1>2. ASSUME NEW j \in Nat, j \in N PROVE j + 1 \in N
  <2>1. PICK g : InChain(g, T, X, j)
    BY <1>2
  <2> DEFINE x == IF j = 0 THEN s ELSE next(g[j])
             f == [k \in 1..(j + 1) |-> IF k = j + 1 THEN x ELSE g[k]]
  <2>2. ASSUME NEW k \in 1..(j + 1)
        PROVE  f[k] = IF k = 1 THEN s ELSE next(f[k - 1])
    <3>1. CASE k = j + 1
      <4>1. k - 1 = j /\ (k = 1 <=> j = 0) /\ (k # 1 => j \in 1..(j + 1) /\ j # j + 1)
        BY <3>1
      <4>2. f[k] = x /\ (k # 1 => f[k - 1] = g[j])
        BY <3>1, <4>1
      <4> QED BY <3>1, <4>1, <4>2
    <3>2. CASE k # j + 1
      <4>1. k \in 1..j /\ f[k] = g[k]
        BY <3>2
      <4>2. g[k] = IF k = 1 THEN s ELSE next(g[k - 1])
        BY <2>1, <4>1 DEF InChain, s, next
      <4>3. k # 1 => k - 1 \in 1..(j + 1) /\ k - 1 # j + 1
        BY <4>1
      <4>4. k # 1 => f[k - 1] = g[k - 1]
        BY <4>3
      <4> QED BY <4>1, <4>2, <4>4
    <3> QED BY <3>1, <3>2
  <2>3. f = [k \in 1..(j + 1) |-> f[k]]
    OBVIOUS
  <2> HIDE DEF f
  <2>4. InChain(f, T, X, j + 1)
    BY <2>2, <2>3 DEF InChain, s, next
  <2> QED BY <2>4
<1>3. Nat \subseteq N
  <2> HIDE DEF N
  <2> QED BY <1>1, <1>2, AllNumbers
<1> QED BY <1>3

LEMMA ChainFacts ==
    ASSUME NEW T, NEW X, NEW r \in Nat
    PROVE  InChain(Chain(T, X, r), T, X, r)
<1> DEFINE V == CHOOSE f : InChain(f, T, X, r)
<1>1. InChain(V, T, X, r)
  BY ChainExists
<1>2. Chain(T, X, r) = V
  BY DEF Chain, InChain
<1> QED BY <1>1, <1>2

\* Half of each of the first j digests of the chain.
Drawn(V, j) ==
    [i \in 1..(j * Half) |-> DigestByte(V[(i - 1) \div Half + 1], ((i - 1) % Half) + 1)]

\* n bytes of digest d after the halves of j others.
LEMMA DrawnAndMore ==
    ASSUME NEW V, NEW j \in Nat, NEW d, NEW n \in Nat
    PROVE  Drawn(V, j) \o Bytes(d, n)
              = [i \in 1..(j * Half + n) |->
                   IF i <= j * Half
                   THEN DigestByte(V[(i - 1) \div Half + 1], ((i - 1) % Half) + 1)
                   ELSE DigestByte(d, i - j * Half)]
<1> DEFINE a == j * Half
           x == Drawn(V, j)
           y == Bytes(d, n)
           Byte(i) == DigestByte(V[(i - 1) \div Half + 1], ((i - 1) % Half) + 1)
           R == {x[i] : i \in 1..a} \cup {y[i] : i \in 1..n}
           z == x \o y
<1>1. a \in Nat
  BY DigestsAreCounted
<1>2. OfLength(x, a) /\ \A i \in 1..a : x[i] = Byte(i)
  BY DEF OfLength, Drawn
<1>3. OfLength(y, n) /\ \A i \in 1..n : y[i] = DigestByte(d, i)
  BY BytesOfDigest
<1> HIDE DEF a, x, y, Byte
<1>4. x \in Seq(R) /\ Len(x) = a /\ y \in Seq(R) /\ Len(y) = n
  <2>1. x = [i \in 1..a |-> x[i]] /\ y = [i \in 1..n |-> y[i]]
    BY <1>2, <1>3 DEF OfLength
  <2>2. x \in [1..a -> R] /\ y \in [1..n -> R]
    BY <2>1
  <2> HIDE DEF R
  <2> QED BY <1>1, <2>2
<1> HIDE DEF R
<1>5. z \in Seq(R) /\ Len(z) = a + n
      /\ \A i \in 1..(a + n) : z[i] = IF i <= a THEN x[i] ELSE y[i - a]
  BY <1>4, ConcatProperties
<1> HIDE DEF z
<1>6. z = [i \in 1..(a + n) |-> z[i]]
  BY <1>1, <1>5
<1>7. ASSUME NEW i \in 1..(a + n)
      PROVE  z[i] = IF i <= a THEN Byte(i) ELSE DigestByte(d, i - a)
  <2>1. i <= a => i \in 1..a
    BY <1>1
  <2>2. ~ (i <= a) => i - a \in 1..n
    BY <1>1
  <2> QED BY <1>2, <1>3, <1>5, <2>1, <2>2
<1> QED BY <1>6, <1>7 DEF z, x, y, a, Byte

LEMMA DrawnOneMore ==
    ASSUME NEW V, NEW j \in Nat
    PROVE  Drawn(V, j) \o Bytes(V[j + 1], Half) = Drawn(V, j + 1)
<1> DEFINE H == Half
           a == j * H
<1>1. H \in Nat /\ H > 0
  BY DigestsAreCounted
<1>2. a \in Nat /\ (j + 1) * H = a + H
  BY <1>1
<1>3. ASSUME NEW i \in 1..(a + H), ~ (i <= a)
      PROVE  (i - 1) \div H = j /\ ((i - 1) % H) + 1 = i - a
  <2> DEFINE k == i - 1
             s == k - a
  <2>1. k \in Nat /\ s \in Nat /\ s < H /\ k = a + s /\ s + 1 = i - a
    BY <1>1, <1>2, <1>3
  <2> HIDE DEF k, s, H
  <2>2. k \div H = j /\ k % H = s
    BY <1>1, <2>1, DivisionUnique
  <2> QED BY <2>1, <2>2 DEF k
<1>4. Drawn(V, j) \o Bytes(V[j + 1], H)
        = [i \in 1..(a + H) |->
             IF i <= a THEN DigestByte(V[(i - 1) \div H + 1], ((i - 1) % H) + 1)
             ELSE DigestByte(V[j + 1], i - a)]
  <2> DEFINE d == V[j + 1]
             n == Half
  <2>1. n \in Nat
    BY <1>1
  <2> HIDE DEF d, n
  <2>2. Drawn(V, j) \o Bytes(d, n)
          = [i \in 1..(j * Half + n) |->
               IF i <= j * Half THEN DigestByte(V[(i - 1) \div Half + 1], ((i - 1) % Half) + 1)
               ELSE DigestByte(d, i - j * Half)]
    BY <2>1, DrawnAndMore
  <2> QED BY <2>2 DEF d, n
<1>5. \A i \in 1..(a + H) :
         (IF i <= a THEN DigestByte(V[(i - 1) \div H + 1], ((i - 1) % H) + 1)
          ELSE DigestByte(V[j + 1], i - a))
            = DigestByte(V[(i - 1) \div H + 1], ((i - 1) % H) + 1)
  <2> SUFFICES ASSUME NEW i \in 1..(a + H), ~ (i <= a)
               PROVE  DigestByte(V[j + 1], i - a)
                         = DigestByte(V[(i - 1) \div H + 1], ((i - 1) % H) + 1)
    OBVIOUS
  <2> HIDE DEF H, a
  <2>1. (i - 1) \div H = j /\ ((i - 1) % H) + 1 = i - a
    BY <1>3
  <2> QED BY <2>1
<1>6. Drawn(V, j + 1) = [i \in 1..(a + H) |->
                           DigestByte(V[(i - 1) \div H + 1], ((i - 1) % H) + 1)]
  BY <1>2 DEF Drawn
<1> HIDE DEF a, H
<1> QED BY <1>4, <1>5, <1>6 DEF H

\* Every round makes the next digest of the chain.
LEMMA RoundsMakeChain ==
    ASSUME NEW outlen, NEW in \in Seq(Int), 4 + Len(in) < WordSize * WordSize,
           NEW n \in Nat, NEW V, InChain(V, outlen, in, n + 1)
    PROVE  /\ links(outlen, in, n).buffer = Bytes(V[n + 1], OutBytes)
           /\ links(outlen, in, n).out = Drawn(V, n + 1)
<1>1. PICK g : InLinks(g, outlen, in, n) /\ links(outlen, in, n) = g[n]
  BY LinksFacts
<1> DEFINE Good(k) == /\ g[k].buffer = Bytes(V[k + 1], OutBytes)
                      /\ g[k].out = Drawn(V, k + 1)
           T == {k \in Nat : k <= n => Good(k)}
<1>2. 0 \in T
  <2> DEFINE d == firstLink(OutBytes, outlen, in)
  <2>1. g[0] = [buffer |-> Bytes(d, OutBytes), out |-> Bytes(d, Half)]
    BY <1>1 DEF InLinks, firstRound
  <2>2. d = ReferenceDigest(OutBytes, LengthBytes(outlen) \o in)
    BY FirstLinkIsReference
  <2>3. V[1] = ReferenceDigest(OutBytes, LengthBytes(outlen) \o in)
    <3>1. 1 \in 1..(n + 1)
      OBVIOUS
    <3> QED BY <3>1 DEF InChain
  <2> HIDE DEF d
  <2>4. Bytes(d, Half) = Drawn(V, 1)
    <3> DEFINE x == Bytes(V[0 + 1], Half)
               D == {x[i] : i \in 1..Half}
    <3>1. Drawn(V, 0) \o Bytes(V[0 + 1], Half) = Drawn(V, 0 + 1)
      BY DrawnOneMore
    <3>2. Drawn(V, 0) = <<>>
      <4>1. 0 * Half = 0 /\ Half \in Nat
        BY DigestsAreCounted
      <4>2. 1..(0 * Half) = {}
        BY <4>1
      <4>3. DOMAIN Drawn(V, 0) = {}
        BY <4>2 DEF Drawn
      <4>4. \A i \in 1..(0 * Half) : FALSE
        BY <4>2
      <4>5. Drawn(V, 0) = [i \in {} |-> 0]
        BY <4>2, <4>4 DEF Drawn
      <4>6. <<>> = [i \in {} |-> 0]
        OBVIOUS
      <4> QED BY <4>5, <4>6
    <3>3. x \in Seq(D)
      <4>1. Half \in Nat /\ OfLength(x, Half)
        BY DigestsAreCounted, BytesOfDigest
      <4> HIDE DEF x
      <4> QED BY <4>1, Sequence
    <3> HIDE DEF x, D
    <3>4. <<>> \o x = x
      BY <3>3, ConcatEmptySeq
    <3>5. 0 + 1 = 1 /\ V[1] = d
      BY <2>2, <2>3
    <3>6. x = Bytes(d, Half)
      BY <3>5 DEF x
    <3> QED BY <3>1, <3>2, <3>4, <3>5, <3>6 DEF x
  <2>5. 0 + 1 = 1
    OBVIOUS
  <2> QED BY <2>1, <2>2, <2>3, <2>4, <2>5
<1>3. ASSUME NEW j \in Nat, j \in T PROVE j + 1 \in T
  <2> SUFFICES ASSUME j + 1 <= n PROVE Good(j + 1)
    OBVIOUS
  <2> DEFINE k == j + 1
             d == blake2b(OutBytes, g[j].buffer)
  <2>1. g[j].buffer = Bytes(V[k], OutBytes) /\ g[j].out = Drawn(V, k)
    BY <1>3
  <2>2. k \in Nat /\ k - 1 = j /\ k \in 0..n /\ k # 0
        /\ k + 1 \in 1..(n + 1) /\ k + 1 # 1 /\ (k + 1) - 1 = k
    OBVIOUS
  <2> HIDE DEF k
  <2>3. g[k] = nextRound(g[j])
    BY <1>1, <2>2 DEF InLinks
  <2>4. g[k] = [buffer |-> Bytes(d, OutBytes), out |-> g[j].out \o Bytes(d, Half)]
    BY <2>3 DEF nextRound
  <2>5. d = ReferenceDigest(OutBytes, Bytes(V[k], OutBytes))
    BY <2>1, NextDigest
  <2> HIDE DEF d
  <2>6. V[k + 1] = ReferenceDigest(OutBytes, Bytes(V[k], OutBytes))
    BY <2>2 DEF InChain
  <2>7. V[k + 1] = d
    BY <2>5, <2>6
  <2>8. Drawn(V, k) \o Bytes(V[k + 1], Half) = Drawn(V, k + 1)
    BY <2>2, DrawnOneMore
  <2>9. Good(k)
    BY <2>1, <2>4, <2>7, <2>8
  <2> QED BY <2>9 DEF k
<1>4. Nat \subseteq T
  <2> HIDE DEF T
  <2> QED BY <1>2, <1>3, AllNumbers
<1>5. Good(n)
  BY <1>4
<1> QED BY <1>1, <1>5

LEMMA LongIsReference ==
    ASSUME NEW outlen \in Nat, NEW in \in Seq(Int),
           4 + Len(in) < WordSize * WordSize
    PROVE  blake2b_long(outlen, in) = LongReference(outlen, in)
<1> DEFINE n == linkRounds(outlen - Half)
           left == outlen - Half - n * Half
           l == links(outlen, in, n)
           r == (outlen + Half - 1) \div Half - 2
           V == Chain(outlen, in, r)
           last == outlen - r * Half
           a == r * Half
<1>0. OutBytes \in Nat
  BY BlakeAssumption
<1>1. CASE outlen <= OutBytes
  <2>1. blake2b_long(outlen, in) = Bytes(firstLink(outlen, outlen, in), outlen)
    BY <1>1 DEF blake2b_long
  <2>2. LongReference(outlen, in)
          = Bytes(ReferenceDigest(outlen, LengthBytes(outlen) \o in), outlen)
    BY <1>1 DEF LongReference
  <2>3. firstLink(outlen, outlen, in) = ReferenceDigest(outlen, LengthBytes(outlen) \o in)
    BY FirstLinkIsReference
  <2> QED BY <2>1, <2>2, <2>3
<1>2. CASE outlen > OutBytes
  <2>0. ~ (outlen <= OutBytes)
    BY <1>0, <1>2
  <2>1. blake2b_long(outlen, in) = l.out \o Bytes(blake2b(left, l.buffer), left)
    BY <2>0 DEF blake2b_long
  <2>2. LongReference(outlen, in)
          = [k \in 1..outlen |->
               IF k <= a THEN DigestByte(V[(k - 1) \div Half + 1], ((k - 1) % Half) + 1)
               ELSE DigestByte(ReferenceDigest(last, Bytes(V[r], OutBytes)), k - a)]
    BY <2>0 DEF LongReference
  <2>3. /\ n \in Nat /\ r = n + 1 /\ a \in Nat /\ a < outlen /\ left = last
    BY <1>2, LinkNumbers
  <2> HIDE DEF n, r, l, left
  <2>4. r \in Nat
    BY <2>3
  <2>5. InChain(V, outlen, in, n + 1)
    BY <2>3, <2>4, ChainFacts
  <2> HIDE DEF V
  <2>6. l.buffer = Bytes(V[r], OutBytes) /\ l.out = Drawn(V, r)
    BY <2>3, <2>5, RoundsMakeChain DEF l
  <2> DEFINE d == blake2b(left, l.buffer)
  <2>7. d = ReferenceDigest(last, Bytes(V[r], OutBytes))
    BY <2>3, <2>6, NextDigest
  <2>8. left \in Nat /\ a + left = outlen
    <3>1. last = outlen - a
      OBVIOUS
    <3> HIDE DEF a
    <3> QED BY <2>3, <3>1
  <2> HIDE DEF d
  <2>9. Drawn(V, r) \o Bytes(d, left)
          = [k \in 1..(a + left) |->
               IF k <= a THEN DigestByte(V[(k - 1) \div Half + 1], ((k - 1) % Half) + 1)
               ELSE DigestByte(d, k - a)]
    BY <2>4, <2>8, DrawnAndMore
  <2> HIDE DEF a, last
  <2> QED BY <2>1, <2>2, <2>6, <2>7, <2>8, <2>9 DEF d
<1> QED BY <1>0, <1>1, <1>2

-----------------------------------------------------------------------------
(* The theorems.                                                            *)

\* Types, whatever is called in which order and however long the message: the
\* two words of the counter stay words (blake2b_increment_counter), the buffer
\* is never written beyond its end, and it is empty only as long as nothing
\* was fed (blake2b_update).
THEOREM BufferAndCounter == Spec => []TypeOK
<1>1. IInv => TypeOK
  <2> SUFFICES ASSUME IInv PROVE TypeOK
    OBVIOUS
  <2>1. message \in Seq(Int) /\ Len(message) <= MaxMessage /\ Len(message) \in Nat
    BY DEF IInv
  <2>2. Len(message) < WordSize * WordSize
    BY <2>1, MessageIsCounted
  <2>3. Len(message) \in 0..MaxMessage
    BY <2>1, BlakeAssumption
  <2>4. CASE S.last = FALSE
    <3> DEFINE p == S.h[1]
    <3>1. Fed(S, p, message)
      BY <2>4 DEF IInv
    <3> HIDE DEF p
    <3> QED BY <2>1, <2>2, <2>3, <3>1, FedFacts DEF TypeOK
  <2>5. CASE S.last = TRUE
    <3>1. DOMAIN Zeros = 1..BlockBytes
      BY DEF Zeros
    <3> QED BY <2>3, <2>5, <3>1 DEF IInv, TypeOK
  <2>6. S.last \in BOOLEAN
    BY DEF IInv
  <2> QED BY <2>4, <2>5, <2>6
<1> QED BY <1>1, IInvAlways, PTL

\* A state that blake2b_final finished or an initializer refused holds no byte
\* of a message or of a key, whatever is called next.
THEOREM FinishedStatesAreEmpty == Spec => []NothingLeftBehind
<1>1. IInv => NothingLeftBehind
  BY DEF IInv, NothingLeftBehind
<1> QED BY <1>1, IInvAlways, PTL

\* blake2b_final returns the digest of RFC 7693 of all bytes that were fed,
\* in as many parts and of whatever length blake2b_update was given them, key
\* block included, for a counter of one word or of two.
THEOREM PartsDoNotMatter == Spec => []DigestOfWholeMessage
<1>1. IInv => DigestOfWholeMessage
  BY DEF IInv
<1> QED BY <1>1, IInvAlways, PTL

\* blake2b_long makes exactly the bytes that are asked for, by the chain of
\* RFC 9106, 3.3: whatever the length, the rounds of its loop and what is left
\* after them are those of the specification.
THEOREM LongDigests == Spec => []LongDigestIsReference
<1>1. Init => LongDigestIsReference
  BY DEF Init, Outcome, LongDigestIsReference
<1>2. LongDigestIsReference /\ [Next]_vars => LongDigestIsReference'
  <2> SUFFICES ASSUME LongDigestIsReference, [Next]_vars PROVE LongDigestIsReference'
    OBVIOUS
  <2>1. ASSUME NEW outlen, \/ blake2b_init(outlen)
                           \/ blake2b_final(outlen)
                           \/ \E keylen : blake2b_init_key(outlen, keylen)
        PROVE  LongDigestIsReference'
    BY <2>1 DEF blake2b_init, blake2b_final, blake2b_init_key, Outcome, LongDigestIsReference
  <2>2. ASSUME NEW n, blake2b_update(n) PROVE LongDigestIsReference'
    BY <2>2 DEF blake2b_update, Outcome, LongDigestIsReference
  <2>3. ASSUME NEW outlen \in Nat, NEW n \in {0, BlockBytes}, long(outlen, n)
        PROVE  LongDigestIsReference'
    <3> DEFINE in == [i \in 1..n |-> i]
    <3>1. CASE outlen > 0
      <4>1. result' = Outcome("long", <<outlen, n>>, TRUE, blake2b_long(outlen, in))
        BY <2>3, <3>1 DEF long
      <4>2. n \in Nat /\ n <= BlockBytes /\ BlockBytes \in Nat
        BY BlakeAssumption
      <4>3. in \in Seq(Int) /\ Len(in) = n
        BY <4>2
      <4>4. 4 + Len(in) < WordSize * WordSize
        <5> DEFINE w == WordSize * WordSize
        <5>1. w \in Nat /\ 4 + BlockBytes < w
          BY BlakeAssumption, DigestsAreCounted
        <5> HIDE DEF w, in
        <5>2. 4 + Len(in) < w
          BY <4>2, <4>3, <5>1
        <5> QED BY <5>2 DEF w
      <4>5. blake2b_long(outlen, in) = LongReference(outlen, in)
        <5> HIDE DEF in
        <5> QED BY <4>3, <4>4, LongIsReference
      <4>6. result'.output = blake2b_long(outlen, in)
            /\ result'.input[1] = outlen /\ result'.input[2] = n
        BY <4>1 DEF Outcome
      <4> QED BY <4>5, <4>6 DEF LongDigestIsReference
    <3>2. CASE ~ (outlen > 0)
      <4> DEFINE ok == outlen > 0
      <4>1. result'.ok = ok
        BY <2>3 DEF long, Outcome
      <4>2. ~ ok
        BY <3>2
      <4> HIDE DEF ok
      <4> QED BY <4>1, <4>2 DEF LongDigestIsReference
    <3> QED BY <3>1, <3>2
  <2>4. CASE UNCHANGED vars
    BY <2>4 DEF vars, LongDigestIsReference
  <2>5. \A outlen \in 0..MaxLong : outlen \in Nat
    BY BlakeAssumption
  <2> QED BY <2>1, <2>2, <2>3, <2>4, <2>5 DEF Next
<1> QED BY <1>1, <1>2, PTL DEF Spec
=============================================================================
