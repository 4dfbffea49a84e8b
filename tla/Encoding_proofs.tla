--------------------------- MODULE Encoding_proofs ---------------------------
(***************************************************************************)
(* What the operators of Encoding do, for strings and buffers of any size:  *)
(* how long a number and a base64 text are, what encode_string writes into  *)
(* a buffer, how far decode_string writes into its own, and that it reads   *)
(* what encode_string writes.  Decoding_proofs has the way back.            *)
(***************************************************************************)
EXTENDS Encoding, SequenceTheorems, WellFoundedInduction, TLAPS

-----------------------------------------------------------------------------
(* Numbers. *)

\* A set of natural numbers that is not empty has a least one.
LEMMA LeastNumber ==
    ASSUME NEW S, S \in SUBSET Nat, S # {}
    PROVE  Min(S) \in S /\ \A y \in S : Min(S) <= y
<1>1. PICK x \in S : \A y \in S : ~ (<<y, x>> \in OpToRel(<, Nat))
  BY NatLessThanWellFounded, WFMin
<1>2. \A y \in S : ~ (y < x)
  BY <1>1 DEF OpToRel
<1>3. \A y \in S : x <= y
  BY <1>2
<1> QED BY <1>3 DEF Min

\* What holds of 0, and of n + 1 when it holds of n, holds of every number.
LEMMA AllNumbers ==
    ASSUME NEW T, 0 \in T, \A n \in Nat : n \in T => n + 1 \in T
    PROVE  Nat \subseteq T
<1> SUFFICES ASSUME NEW m \in Nat, m \notin T PROVE FALSE
  OBVIOUS
<1> DEFINE B == Nat \ T
           x == Min(B)
<1>1. x \in B /\ \A y \in B : x <= y
  <2>1. B \in SUBSET Nat /\ B # {}
    OBVIOUS
  <2> HIDE DEF B
  <2> QED BY <2>1, LeastNumber
<1> HIDE DEF x
<1>2. x \in Nat /\ x \notin T /\ x # 0
  BY <1>1
<1>3. x - 1 \in Nat /\ x - 1 < x /\ (x - 1) + 1 = x
  BY <1>2
<1>4. x - 1 \notin T
  BY <1>2, <1>3
<1> QED BY <1>1, <1>2, <1>3, <1>4

\* Ten times less, and its last digit.
LEMMA Tenth ==
    ASSUME NEW n \in Nat
    PROVE  /\ n \div 10 \in Nat /\ n % 10 \in 0..9
           /\ n = (n \div 10) * 10 + (n % 10)
           /\ n > 0 => n \div 10 < n
           /\ n >= 10 => n \div 10 >= 1
OBVIOUS

LEMMA SizesAreNumbers ==
    /\ UINT32_MAX \in Nat /\ UINT32_MAX >= 31
    /\ ULONG_MAX \in Nat /\ ULONG_MAX >= UINT32_MAX
BY WordAssumption DEF UINT32_MAX, ULONG_MAX

-----------------------------------------------------------------------------
(* validate_inputs. *)

\* The code of an error in the inputs.
Refuses(code) == code # "OK" /\ code # "ENCODING_FAIL"

\* A list of checks, each with the code of an error.
Checks(s) ==
    /\ s \in Seq({s[i] : i \in DOMAIN s})
    /\ \A i \in DOMAIN s : Refuses(s[i][2])

Passed(s) == \A i \in DOMAIN s : ~ s[i][1]

LEMMA FirstErrorFacts ==
    ASSUME NEW s, Checks(s)
    PROVE  /\ FirstError(s) = "OK" <=> Passed(s)
           /\ FirstError(s) # "ENCODING_FAIL"
<1> DEFINE failed == {i \in DOMAIN s : s[i][1]}
<1>1. DOMAIN s = 1..Len(s) /\ Len(s) \in Nat
  BY LenProperties DEF Checks
<1>2. ASSUME failed # {} PROVE Refuses(FirstError(s))
  <2>1. failed \in SUBSET Nat
    BY <1>1
  <2>2. Min(failed) \in DOMAIN s
    BY <1>2, <2>1, LeastNumber
  <2>3. FirstError(s) = s[Min(failed)][2]
    BY <1>2 DEF FirstError
  <2> QED BY <2>2, <2>3 DEF Checks
<1>3. ASSUME failed = {} PROVE FirstError(s) = "OK"
  BY <1>3 DEF FirstError
<1> QED BY <1>2, <1>3 DEF Passed, Refuses

LEMMA ChecksConcat ==
    ASSUME NEW s, NEW t, Checks(s), Checks(t)
    PROVE  /\ Checks(s \o t)
           /\ (Passed(s \o t) <=> Passed(s) /\ Passed(t))
<1> DEFINE S == {s[i] : i \in DOMAIN s} \cup {t[i] : i \in DOMAIN t}
           u == s \o t
<1>1. /\ DOMAIN s = 1..Len(s) /\ Len(s) \in Nat
      /\ DOMAIN t = 1..Len(t) /\ Len(t) \in Nat
  BY LenProperties DEF Checks
<1>2. s \in Seq(S) /\ t \in Seq(S)
  <2>1. s \in [1..Len(s) -> S] /\ t \in [1..Len(t) -> S]
    BY <1>1, LenProperties DEF Checks
  <2> QED BY <1>1, <2>1
<1>3. /\ u \in Seq(S) /\ Len(u) = Len(s) + Len(t)
      /\ \A i \in 1..(Len(s) + Len(t)) :
            u[i] = IF i <= Len(s) THEN s[i] ELSE t[i - Len(s)]
  BY <1>2, ConcatProperties
<1> HIDE DEF u
<1>4. DOMAIN u = 1..(Len(s) + Len(t)) /\ u \in [1..(Len(s) + Len(t)) -> S]
  BY <1>3, LenProperties
<1>5. \A i \in 1..Len(s) : i \in DOMAIN u /\ u[i] = s[i]
  BY <1>1, <1>3, <1>4
<1>6. \A i \in 1..Len(t) : Len(s) + i \in DOMAIN u /\ u[Len(s) + i] = t[i]
  <2>1. \A i \in 1..Len(t) : /\ Len(s) + i \in 1..(Len(s) + Len(t))
                             /\ ~ (Len(s) + i <= Len(s)) /\ (Len(s) + i) - Len(s) = i
    BY <1>1
  <2> QED BY <1>3, <1>4, <2>1
<1>7. \A i \in DOMAIN u : \/ \E j \in DOMAIN s : u[i] = s[j]
                          \/ \E j \in DOMAIN t : u[i] = t[j]
  <2> SUFFICES ASSUME NEW i \in DOMAIN u
               PROVE  \/ \E j \in DOMAIN s : u[i] = s[j]
                      \/ \E j \in DOMAIN t : u[i] = t[j]
    OBVIOUS
  <2>1. CASE i <= Len(s)
    BY <1>1, <1>3, <1>4, <2>1
  <2>2. CASE ~ (i <= Len(s))
    <3>1. i - Len(s) \in 1..Len(t) /\ u[i] = t[i - Len(s)]
      BY <1>1, <1>3, <1>4, <2>2
    <3> QED BY <1>1, <3>1
  <2> QED BY <2>1, <2>2
<1>8. Checks(u)
  <2>1. u \in [1..(Len(s) + Len(t)) -> {u[i] : i \in DOMAIN u}]
    BY <1>4
  <2>2. u \in Seq({u[i] : i \in DOMAIN u})
    BY <1>1, <2>1
  <2> QED BY <1>7, <2>2 DEF Checks
<1>9. Passed(u) => Passed(s) /\ Passed(t)
  BY <1>1, <1>5, <1>6 DEF Passed
<1>10. Passed(s) /\ Passed(t) => Passed(u)
  BY <1>7 DEF Passed
<1> QED BY <1>8, <1>9, <1>10 DEF u

LEMMA TwoChecks ==
    ASSUME NEW a1, NEW a2, NEW e1, NEW e2, Refuses(e1), Refuses(e2)
    PROVE  LET s == << <<a1, e1>>, <<a2, e2>> >> IN
           Checks(s) /\ (Passed(s) <=> ~ a1 /\ ~ a2)
<1> DEFINE s == << <<a1, e1>>, <<a2, e2>> >>
<1>1. s \in Seq({s[i] : i \in DOMAIN s})
  OBVIOUS
<1>2. DOMAIN s = 1..2 /\ s[1] = <<a1, e1>> /\ s[2] = <<a2, e2>>
  OBVIOUS
<1> HIDE DEF s
<1>3. Checks(s)
  BY <1>1, <1>2 DEF Checks
<1>4. Passed(s) <=> ~ a1 /\ ~ a2
  BY <1>2 DEF Passed
<1> QED BY <1>3, <1>4 DEF s

LEMMA ThreeChecks ==
    ASSUME NEW a1, NEW a2, NEW a3, NEW e1, NEW e2, NEW e3,
           Refuses(e1), Refuses(e2), Refuses(e3)
    PROVE  LET s == << <<a1, e1>>, <<a2, e2>>, <<a3, e3>> >> IN
           Checks(s) /\ (Passed(s) <=> ~ a1 /\ ~ a2 /\ ~ a3)
<1> DEFINE s == << <<a1, e1>>, <<a2, e2>>, <<a3, e3>> >>
<1>1. s \in Seq({s[i] : i \in DOMAIN s})
  OBVIOUS
<1>2. DOMAIN s = 1..3 /\ s[1] = <<a1, e1>> /\ s[2] = <<a2, e2>> /\ s[3] = <<a3, e3>>
  OBVIOUS
<1> HIDE DEF s
<1>3. Checks(s)
  BY <1>1, <1>2 DEF Checks
<1>4. Passed(s) <=> ~ a1 /\ ~ a2 /\ ~ a3
  BY <1>2 DEF Passed
<1> QED BY <1>3, <1>4 DEF s

LEMMA FourChecks ==
    ASSUME NEW a1, NEW a2, NEW a3, NEW a4, NEW e1, NEW e2, NEW e3, NEW e4,
           Refuses(e1), Refuses(e2), Refuses(e3), Refuses(e4)
    PROVE  LET s == << <<a1, e1>>, <<a2, e2>>, <<a3, e3>>, <<a4, e4>> >> IN
           Checks(s) /\ (Passed(s) <=> ~ a1 /\ ~ a2 /\ ~ a3 /\ ~ a4)
<1> DEFINE s == << <<a1, e1>>, <<a2, e2>>, <<a3, e3>>, <<a4, e4>> >>
<1>1. s \in Seq({s[i] : i \in DOMAIN s})
  OBVIOUS
<1>2. /\ DOMAIN s = 1..4
      /\ s[1] = <<a1, e1>> /\ s[2] = <<a2, e2>> /\ s[3] = <<a3, e3>> /\ s[4] = <<a4, e4>>
  OBVIOUS
<1> HIDE DEF s
<1>3. Checks(s)
  BY <1>1, <1>2 DEF Checks
<1>4. Passed(s) <=> ~ a1 /\ ~ a2 /\ ~ a3 /\ ~ a4
  BY <1>2 DEF Passed
<1> QED BY <1>3, <1>4 DEF s

LEMMA FiveChecks ==
    ASSUME NEW a1, NEW a2, NEW a3, NEW a4, NEW a5, NEW e1, NEW e2, NEW e3, NEW e4, NEW e5,
           Refuses(e1), Refuses(e2), Refuses(e3), Refuses(e4), Refuses(e5)
    PROVE  LET s == << <<a1, e1>>, <<a2, e2>>, <<a3, e3>>, <<a4, e4>>, <<a5, e5>> >> IN
           Checks(s) /\ (Passed(s) <=> ~ a1 /\ ~ a2 /\ ~ a3 /\ ~ a4 /\ ~ a5)
<1> DEFINE s == << <<a1, e1>>, <<a2, e2>>, <<a3, e3>>, <<a4, e4>>, <<a5, e5>> >>
<1>1. s \in Seq({s[i] : i \in DOMAIN s})
  OBVIOUS
<1>2. /\ DOMAIN s = 1..5
      /\ s[1] = <<a1, e1>> /\ s[2] = <<a2, e2>> /\ s[3] = <<a3, e3>>
      /\ s[4] = <<a4, e4>> /\ s[5] = <<a5, e5>>
  OBVIOUS
<1> HIDE DEF s
<1>3. Checks(s)
  BY <1>1, <1>2 DEF Checks
<1>4. Passed(s) <=> ~ a1 /\ ~ a2 /\ ~ a3 /\ ~ a4 /\ ~ a5
  BY <1>2 DEF Passed
<1> QED BY <1>3, <1>4 DEF s

\* What validate_inputs lets pass.
ValidBuffer(ptr, len, min) ==
    ~ (ptr = NULL /\ len # 0) /\ ~ (len < min) /\ ~ (len > UINT32_MAX)

ValidOutput(c) == c.out # NULL /\ ~ (c.outlen < MinOutlen) /\ ~ (c.outlen > UINT32_MAX)

ValidSizes(c) ==
    /\ ~ (c.m_cost < MinMemory) /\ ~ (c.m_cost > MaxMemory) /\ ~ (c.m_cost < Word(8 * c.lanes))
    /\ ~ (c.t_cost < 1) /\ ~ (c.t_cost > UINT32_MAX)
    /\ ~ (c.lanes < 1) /\ ~ (c.lanes > MaxLanes)

ValidThreads(c) == ~ (c.threads < 1) /\ ~ (c.threads > MaxLanes)

ValidCallbacks(c) ==
    ~ (c.allocate_cbk /\ ~ c.free_cbk) /\ ~ (~ c.allocate_cbk /\ c.free_cbk)

Valid(c) ==
    /\ ValidOutput(c) /\ ValidBuffer(c.pwd, c.pwdlen, 0)
    /\ ValidBuffer(c.salt, c.saltlen, MinSaltLength)
    /\ ValidBuffer(c.secret, c.secretlen, 0) /\ ValidBuffer(c.ad, c.adlen, 0)
    /\ ValidSizes(c) /\ ValidThreads(c) /\ ValidCallbacks(c)

LEMMA BufferChecks ==
    ASSUME NEW ptr, NEW len, NEW min, NEW e1, NEW e2, NEW e3, Refuses(e1), Refuses(e2), Refuses(e3),
           NEW b, b = Buffer(ptr, len, min, e1, e2, e3)
    PROVE  Checks(b) /\ (Passed(b) <=> ValidBuffer(ptr, len, min))
<1>1. LET s == << <<ptr = NULL /\ len # 0, e1>>, <<len < min, e2>>, <<len > UINT32_MAX, e3>> >> IN
      Checks(s) /\ (Passed(s) <=> /\ ~ (ptr = NULL /\ len # 0) /\ ~ (len < min)
                                  /\ ~ (len > UINT32_MAX))
  BY ThreeChecks
<1> QED BY <1>1 DEF Buffer, ValidBuffer

LEMMA ValidateInputs ==
    ASSUME NEW c
    PROVE  /\ validate_inputs(c) = "OK" <=> Valid(c)
           /\ validate_inputs(c) # "ENCODING_FAIL"
<1> DEFINE o == << <<c.out = NULL, "OUTPUT_PTR_NULL">>,
                   <<c.outlen < MinOutlen, "OUTPUT_TOO_SHORT">>,
                   <<c.outlen > UINT32_MAX, "OUTPUT_TOO_LONG">> >>
           p == Buffer(c.pwd, c.pwdlen, 0,
                       "PWD_PTR_MISMATCH", "PWD_TOO_SHORT", "PWD_TOO_LONG")
           q == Buffer(c.salt, c.saltlen, MinSaltLength,
                       "SALT_PTR_MISMATCH", "SALT_TOO_SHORT", "SALT_TOO_LONG")
           r == Buffer(c.secret, c.secretlen, 0,
                       "SECRET_PTR_MISMATCH", "SECRET_TOO_SHORT", "SECRET_TOO_LONG")
           a == Buffer(c.ad, c.adlen, 0, "AD_PTR_MISMATCH", "AD_TOO_SHORT", "AD_TOO_LONG")
           m == << <<c.m_cost < MinMemory, "MEMORY_TOO_LITTLE">>,
                   <<c.m_cost > MaxMemory, "MEMORY_TOO_MUCH">> >>
           l == memoryForLanes(c)
           t == << <<c.threads < 1, "THREADS_TOO_FEW">>,
                   <<c.threads > MaxLanes, "THREADS_TOO_MANY">> >>
           k == callbacks(c)
<1>1. Checks(o) /\ (Passed(o) <=> /\ ~ (c.out = NULL) /\ ~ (c.outlen < MinOutlen)
                                  /\ ~ (c.outlen > UINT32_MAX))
  <2> DEFINE a1 == c.out = NULL
             a2 == c.outlen < MinOutlen
             a3 == c.outlen > UINT32_MAX
  <2>1. o = << <<a1, "OUTPUT_PTR_NULL">>, <<a2, "OUTPUT_TOO_SHORT">>, <<a3, "OUTPUT_TOO_LONG">> >>
    OBVIOUS
  <2> HIDE DEF a1, a2, a3, o
  <2>2. Checks(o) /\ (Passed(o) <=> ~ a1 /\ ~ a2 /\ ~ a3)
    BY <2>1, ThreeChecks DEF Refuses
  <2> QED BY <2>2 DEF a1, a2, a3
<1>2. Checks(p) /\ (Passed(p) <=> ValidBuffer(c.pwd, c.pwdlen, 0))
  BY BufferChecks DEF Refuses
<1>3. Checks(q) /\ (Passed(q) <=> ValidBuffer(c.salt, c.saltlen, MinSaltLength))
  BY BufferChecks DEF Refuses
<1>4. Checks(r) /\ (Passed(r) <=> ValidBuffer(c.secret, c.secretlen, 0))
  BY BufferChecks DEF Refuses
<1>5. Checks(a) /\ (Passed(a) <=> ValidBuffer(c.ad, c.adlen, 0))
  BY BufferChecks DEF Refuses
<1>6. Checks(m) /\ (Passed(m) <=> ~ (c.m_cost < MinMemory) /\ ~ (c.m_cost > MaxMemory))
  BY TwoChecks DEF Refuses
<1>7. Checks(l) /\ (Passed(l) <=> /\ ~ (c.m_cost < Word(8 * c.lanes))
                                  /\ ~ (c.t_cost < 1) /\ ~ (c.t_cost > UINT32_MAX)
                                  /\ ~ (c.lanes < 1) /\ ~ (c.lanes > MaxLanes))
  <2> DEFINE a1 == c.m_cost < Word(8 * c.lanes)
             a2 == c.t_cost < 1
             a3 == c.t_cost > UINT32_MAX
             a4 == c.lanes < 1
             a5 == c.lanes > MaxLanes
  <2>1. l = << <<a1, "MEMORY_TOO_LITTLE">>, <<a2, "TIME_TOO_SMALL">>, <<a3, "TIME_TOO_LARGE">>,
               <<a4, "LANES_TOO_FEW">>, <<a5, "LANES_TOO_MANY">> >>
    BY DEF memoryForLanes
  <2> HIDE DEF a1, a2, a3, a4, a5, l
  <2>2. Checks(l) /\ (Passed(l) <=> ~ a1 /\ ~ a2 /\ ~ a3 /\ ~ a4 /\ ~ a5)
    BY <2>1, FiveChecks DEF Refuses
  <2> QED BY <2>2 DEF a1, a2, a3, a4, a5
<1>8. Checks(t) /\ (Passed(t) <=> ~ (c.threads < 1) /\ ~ (c.threads > MaxLanes))
  BY TwoChecks DEF Refuses
<1>9. Checks(k) /\ (Passed(k) <=> /\ ~ (c.allocate_cbk /\ ~ c.free_cbk)
                                  /\ ~ (~ c.allocate_cbk /\ c.free_cbk))
  <2> DEFINE a1 == c.allocate_cbk /\ ~ c.free_cbk
             a2 == ~ c.allocate_cbk /\ c.free_cbk
  <2>1. k = << <<a1, "FREE_MEMORY_CBK_NULL">>, <<a2, "ALLOCATE_MEMORY_CBK_NULL">> >>
    BY DEF callbacks
  <2> HIDE DEF a1, a2, k
  <2>2. Checks(k) /\ (Passed(k) <=> ~ a1 /\ ~ a2)
    BY <2>1, TwoChecks DEF Refuses
  <2> QED BY <2>2 DEF a1, a2
<1>10. validate_inputs(c) = FirstError(o \o p \o q \o r \o a \o m \o l \o t \o k)
  BY DEF validate_inputs
<1>11. Passed(o) <=> ValidOutput(c)
  BY <1>1 DEF ValidOutput
<1>12. Passed(m) /\ Passed(l) <=> ValidSizes(c)
  BY <1>6, <1>7 DEF ValidSizes
<1>13. (Passed(t) <=> ValidThreads(c)) /\ (Passed(k) <=> ValidCallbacks(c))
  BY <1>8, <1>9 DEF ValidThreads, ValidCallbacks
<1> HIDE DEF o, p, q, r, a, m, l, t, k
<1> DEFINE b == o \o p \o q \o r \o a
           d == b \o m \o l \o t \o k
<1>14. Checks(o \o p) /\ (Passed(o \o p) <=> Passed(o) /\ Passed(p))
  BY <1>1, <1>2, ChecksConcat
<1>15. Checks(o \o p \o q) /\ (Passed(o \o p \o q) <=> Passed(o \o p) /\ Passed(q))
  BY <1>3, <1>14, ChecksConcat
<1>16. Checks(o \o p \o q \o r) /\ (Passed(o \o p \o q \o r) <=> Passed(o \o p \o q) /\ Passed(r))
  BY <1>4, <1>15, ChecksConcat
<1>17. Checks(b) /\ (Passed(b) <=> Passed(o \o p \o q \o r) /\ Passed(a))
  BY <1>5, <1>16, ChecksConcat
<1>18. validate_inputs(c) = FirstError(d)
  BY <1>10
<1> HIDE DEF b
<1>19. Checks(b \o m) /\ (Passed(b \o m) <=> Passed(b) /\ Passed(m))
  BY <1>6, <1>17, ChecksConcat
<1>20. Checks(b \o m \o l) /\ (Passed(b \o m \o l) <=> Passed(b \o m) /\ Passed(l))
  BY <1>7, <1>19, ChecksConcat
<1>21. Checks(b \o m \o l \o t) /\ (Passed(b \o m \o l \o t) <=> Passed(b \o m \o l) /\ Passed(t))
  BY <1>8, <1>20, ChecksConcat
<1>22. Checks(d) /\ (Passed(d) <=> Passed(b \o m \o l \o t) /\ Passed(k))
  BY <1>9, <1>21, ChecksConcat
<1> HIDE DEF d
<1>23. (validate_inputs(c) = "OK" <=> Passed(d)) /\ validate_inputs(c) # "ENCODING_FAIL"
  BY <1>18, <1>22, FirstErrorFacts
<1>24. Passed(d) <=> /\ Passed(o) /\ Passed(p) /\ Passed(q) /\ Passed(r) /\ Passed(a)
                    /\ Passed(m) /\ Passed(l) /\ Passed(t) /\ Passed(k)
  BY <1>14, <1>15, <1>16, <1>17, <1>19, <1>20, <1>21, <1>22
<1> QED BY <1>2, <1>3, <1>4, <1>5, <1>11, <1>12, <1>13, <1>23, <1>24 DEF Valid

-----------------------------------------------------------------------------
(* sprintf("%lu") and numlen. *)

\* f is the decimals, g their lengths, of the numbers up to n.
DecimalsUpTo(f, n) ==
    f = [k \in 0..n |-> IF k < 10 THEN <<Base64[53 + k]>>
                        ELSE Append(f[k \div 10], Base64[53 + (k % 10)])]

LengthsUpTo(g, n) == g = [k \in 0..n |-> IF k < 10 THEN 1 ELSE 1 + g[k \div 10]]

LEMMA DecimalsExist == \A n \in Nat : \E f : DecimalsUpTo(f, n)
<1> DEFINE T == {n \in Nat : \E f : DecimalsUpTo(f, n)}
<1>1. 0 \in T
  <2> DEFINE f == [k \in 0..0 |-> <<Base64[53 + k]>>]
  <2>1. DecimalsUpTo(f, 0)
    BY DEF DecimalsUpTo
  <2> QED BY <2>1
<1>2. ASSUME NEW n \in Nat, n \in T PROVE n + 1 \in T
  <2>1. PICK f : DecimalsUpTo(f, n)
    BY <1>2
  <2> DEFINE m == n + 1
             x == IF m < 10 THEN <<Base64[53 + m]>>
                  ELSE Append(f[m \div 10], Base64[53 + (m % 10)])
             h == [k \in 0..m |-> IF k = m THEN x ELSE f[k]]
  <2>2. m \in Nat /\ m > 0
    OBVIOUS
  <2>3. ASSUME NEW k \in 0..m
        PROVE  h[k] = IF k < 10 THEN <<Base64[53 + k]>>
                      ELSE Append(h[k \div 10], Base64[53 + (k % 10)])
    <3>1. k < 10 \/ (k \div 10 \in 0..n /\ k \div 10 # m)
      BY <2>2, Tenth
    <3>2. k < 10 \/ h[k \div 10] = f[k \div 10]
      BY <3>1
    <3>3. CASE k = m
      BY <3>2, <3>3
    <3>4. CASE k # m
      <4>1. k \in 0..n /\ h[k] = f[k]
        BY <3>4
      <4>2. f[k] = IF k < 10 THEN <<Base64[53 + k]>>
                   ELSE Append(f[k \div 10], Base64[53 + (k % 10)])
        BY <2>1, <4>1 DEF DecimalsUpTo
      <4> QED BY <3>2, <4>1, <4>2
    <3> QED BY <3>3, <3>4
  <2>4. h = [k \in 0..m |-> h[k]]
    OBVIOUS
  <2> HIDE DEF h
  <2>5. DecimalsUpTo(h, m)
    BY <2>3, <2>4 DEF DecimalsUpTo
  <2> QED BY <2>2, <2>5
<1>3. Nat \subseteq T
  <2> HIDE DEF T
  <2> QED BY <1>1, <1>2, AllNumbers
<1> QED BY <1>3

LEMMA LengthsExist == \A n \in Nat : \E g : LengthsUpTo(g, n)
<1> DEFINE T == {n \in Nat : \E g : LengthsUpTo(g, n)}
<1>1. 0 \in T
  <2> DEFINE g == [k \in 0..0 |-> 1]
  <2>1. LengthsUpTo(g, 0)
    BY DEF LengthsUpTo
  <2> QED BY <2>1
<1>2. ASSUME NEW n \in Nat, n \in T PROVE n + 1 \in T
  <2>1. PICK g : LengthsUpTo(g, n)
    BY <1>2
  <2> DEFINE m == n + 1
             h == [k \in 0..m |-> IF k = m THEN IF m < 10 THEN 1 ELSE 1 + g[m \div 10]
                                  ELSE g[k]]
  <2>2. m \in Nat /\ m > 0
    OBVIOUS
  <2>3. ASSUME NEW k \in 0..m
        PROVE  h[k] = IF k < 10 THEN 1 ELSE 1 + h[k \div 10]
    <3>1. k < 10 \/ (k \div 10 \in 0..n /\ k \div 10 # m)
      BY <2>2, Tenth
    <3>2. k < 10 \/ h[k \div 10] = g[k \div 10]
      BY <3>1
    <3>3. CASE k = m
      BY <3>2, <3>3
    <3>4. CASE k # m
      <4>1. k \in 0..n /\ h[k] = g[k]
        BY <3>4
      <4>2. g[k] = IF k < 10 THEN 1 ELSE 1 + g[k \div 10]
        BY <2>1, <4>1 DEF LengthsUpTo
      <4> QED BY <3>2, <4>1, <4>2
    <3> QED BY <3>3, <3>4
  <2>4. h = [k \in 0..m |-> h[k]]
    OBVIOUS
  <2> HIDE DEF h
  <2>5. LengthsUpTo(h, m)
    BY <2>3, <2>4 DEF LengthsUpTo
  <2> QED BY <2>2, <2>5
<1>3. Nat \subseteq T
  <2> HIDE DEF T
  <2> QED BY <1>1, <1>2, AllNumbers
<1> QED BY <1>3

LEMMA DecimalFacts ==
    /\ DecimalsUpTo(Decimal, UINT32_MAX)
    /\ LengthsUpTo(numlen, UINT32_MAX)
<1>1. DecimalsUpTo(Decimal, UINT32_MAX)
  BY DecimalsExist, SizesAreNumbers DEF Decimal, DecimalsUpTo
<1>2. LengthsUpTo(numlen, UINT32_MAX)
  BY LengthsExist, SizesAreNumbers DEF numlen, LengthsUpTo
<1> QED BY <1>1, <1>2

LEMMA DecimalAt ==
    ASSUME NEW n \in 0..UINT32_MAX
    PROVE  /\ Decimal[n] = IF n < 10 THEN <<Base64[53 + n]>>
                           ELSE Append(Decimal[n \div 10], Base64[53 + (n % 10)])
           /\ numlen[n] = IF n < 10 THEN 1 ELSE 1 + numlen[n \div 10]
<1>1. Decimal[n] = IF n < 10 THEN <<Base64[53 + n]>>
                   ELSE Append(Decimal[n \div 10], Base64[53 + (n % 10)])
  BY DecimalFacts DEF DecimalsUpTo
<1>2. numlen[n] = IF n < 10 THEN 1 ELSE 1 + numlen[n \div 10]
  BY DecimalFacts DEF LengthsUpTo
<1> QED BY <1>1, <1>2

LEMMA Base64Facts ==
    /\ DOMAIN Base64 = 1..64
    /\ \A i \in 1..64 : Base64[i] \in Base64Chars
    /\ Digits \subseteq Base64Chars
    /\ \A i \in 53..62 : Base64[i] \in Digits
<1>1. DOMAIN Base64 = 1..64
  BY DEF Base64
<1> QED BY <1>1 DEF Base64Chars, Digits

\* A number has as many digits as numlen says, at least one.
IsDecimal(n) ==
    /\ Decimal[n] \in Seq(Digits)
    /\ numlen[n] \in Nat /\ numlen[n] >= 1
    /\ Len(Decimal[n]) = numlen[n]

LEMMA DecimalLength == \A n \in 0..UINT32_MAX : IsDecimal(n)
<1> DEFINE T == {n \in Nat : \A k \in 0..n : k <= UINT32_MAX => IsDecimal(k)}
<1>0. \A k \in 0..9 : k <= UINT32_MAX => IsDecimal(k)
  <2> SUFFICES ASSUME NEW k \in 0..9, k <= UINT32_MAX PROVE IsDecimal(k)
    OBVIOUS
  <2>1. k \in 0..UINT32_MAX /\ k < 10
    BY SizesAreNumbers
  <2>2. Decimal[k] = <<Base64[53 + k]>> /\ numlen[k] = 1
    BY <2>1, DecimalAt
  <2>3. Base64[53 + k] \in Digits
    BY Base64Facts
  <2> QED BY <2>2, <2>3 DEF IsDecimal
<1>1. 0 \in T
  BY <1>0
<1>2. ASSUME NEW n \in Nat, n \in T PROVE n + 1 \in T
  <2> DEFINE m == n + 1
             q == m \div 10
             x == Base64[53 + (m % 10)]
  <2>1. ASSUME m <= UINT32_MAX, m >= 10 PROVE IsDecimal(m)
    <3>1. m \in 0..UINT32_MAX /\ q \in 0..n /\ q <= UINT32_MAX
      BY <2>1, SizesAreNumbers, Tenth
    <3>2. Decimal[m] = Append(Decimal[q], x) /\ numlen[m] = 1 + numlen[q]
      <4>1. m \in 0..UINT32_MAX /\ ~ (m < 10)
        BY <2>1, <3>1
      <4> HIDE DEF m
      <4> QED BY <4>1, DecimalAt
    <3>3. x \in Digits
      BY Tenth, Base64Facts
    <3>4. IsDecimal(q)
      BY <1>2, <3>1
    <3> HIDE DEF m, q, x
    <3> QED BY <3>2, <3>3, <3>4, AppendProperties DEF IsDecimal
  <2>2. ASSUME m <= UINT32_MAX PROVE IsDecimal(m)
    BY <2>1, <2>2, <1>0
  <2> QED BY <1>2, <2>2
<1>3. Nat \subseteq T
  <2> HIDE DEF T
  <2> QED BY <1>1, <1>2, AllNumbers
<1> QED BY <1>3, SizesAreNumbers

LEMMA VersionLength == numlen[VersionNumber] = 2
<1>1. 19 \in 0..UINT32_MAX /\ 1 \in 0..UINT32_MAX /\ 19 \div 10 = 1
  BY SizesAreNumbers
<1>2. numlen[19] = 1 + numlen[1] /\ numlen[1] = 1
  BY <1>1, DecimalFacts DEF LengthsUpTo
<1> QED BY <1>2 DEF VersionNumber

-----------------------------------------------------------------------------
(* to_base64. *)

\* What a uint8_t holds.
IsByte(x) == x \in Nat /\ x < 256

\* The accumulator with eight bits more.
Shifted(acc, byte) == (acc * 256 + byte) % AccSize

LEMMA Powers == 2^0 = 1 /\ 2^2 = 4 /\ 2^4 = 16 /\ 2^6 = 64 /\ AccSize = 65536
BY DEF AccSize

LEMMA PutByteCases ==
    ASSUME NEW b, NEW byte
    PROVE  /\ b.acc_len = 0 =>
              PutByte(b, byte) =
                [acc |-> Shifted(b.acc, byte), acc_len |-> 2,
                 out |-> Append(b.out, b64_byte_to_char((Shifted(b.acc, byte) \div 4) % 64))]
           /\ b.acc_len = 2 =>
              PutByte(b, byte) =
                [acc |-> Shifted(b.acc, byte), acc_len |-> 4,
                 out |-> Append(b.out, b64_byte_to_char((Shifted(b.acc, byte) \div 16) % 64))]
           /\ b.acc_len = 4 =>
              PutByte(b, byte) =
                [acc |-> Shifted(b.acc, byte), acc_len |-> 0,
                 out |-> b.out \o << b64_byte_to_char((Shifted(b.acc, byte) \div 64) % 64),
                                     b64_byte_to_char((Shifted(b.acc, byte) \div 1) % 64) >>]
<1> DEFINE acc == (b.acc * 256 + byte) % AccSize
           Char(n) == b64_byte_to_char((acc \div 2^n) % 64)
           len == b.acc_len + 8
<1>1. PutByte(b, byte) =
         IF len >= 12
         THEN [acc |-> acc, acc_len |-> len - 12, out |-> b.out \o <<Char(len - 6), Char(len - 12)>>]
         ELSE [acc |-> acc, acc_len |-> len - 6, out |-> Append(b.out, Char(len - 6))]
  BY DEF PutByte
<1>2. acc = Shifted(b.acc, byte)
  BY DEF Shifted
<1>3. /\ Char(0) = b64_byte_to_char((acc \div 1) % 64)
      /\ Char(2) = b64_byte_to_char((acc \div 4) % 64)
      /\ Char(4) = b64_byte_to_char((acc \div 16) % 64)
      /\ Char(6) = b64_byte_to_char((acc \div 64) % 64)
  BY Powers
<1> HIDE DEF acc, Char
<1>4. ASSUME b.acc_len = 0
      PROVE  PutByte(b, byte) = [acc |-> acc, acc_len |-> 2, out |-> Append(b.out, Char(2))]
  <2>1. len - 6 = 2 /\ ~ (len >= 12)
    BY <1>4
  <2> HIDE DEF len
  <2> QED BY <1>1, <2>1
<1>5. ASSUME b.acc_len = 2
      PROVE  PutByte(b, byte) = [acc |-> acc, acc_len |-> 4, out |-> Append(b.out, Char(4))]
  <2>1. len - 6 = 4 /\ ~ (len >= 12)
    BY <1>5
  <2> HIDE DEF len
  <2> QED BY <1>1, <2>1
<1>6. ASSUME b.acc_len = 4
      PROVE  PutByte(b, byte) = [acc |-> acc, acc_len |-> 0, out |-> b.out \o <<Char(6), Char(0)>>]
  <2>1. len - 6 = 6 /\ len - 12 = 0 /\ len >= 12
    BY <1>6
  <2> HIDE DEF len
  <2> QED BY <1>1, <2>1
<1> QED BY <1>2, <1>3, <1>4, <1>5, <1>6

LEMMA SextetIsChar ==
    ASSUME NEW acc \in Nat
    PROVE  /\ b64_byte_to_char((acc \div 1) % 64) \in Base64Chars
           /\ b64_byte_to_char((acc \div 4) % 64) \in Base64Chars
           /\ b64_byte_to_char((acc \div 16) % 64) \in Base64Chars
           /\ b64_byte_to_char((acc \div 64) % 64) \in Base64Chars
           /\ b64_byte_to_char(acc % 64) \in Base64Chars
<1>1. \A x \in Nat : b64_byte_to_char(x % 64) \in Base64Chars
  <2> SUFFICES ASSUME NEW x \in Nat PROVE b64_byte_to_char(x % 64) \in Base64Chars
    OBVIOUS
  <2>1. (x % 64) + 1 \in 1..64
    OBVIOUS
  <2> QED BY <2>1, Base64Facts DEF b64_byte_to_char
<1>2. acc \div 1 \in Nat /\ acc \div 4 \in Nat /\ acc \div 16 \in Nat /\ acc \div 64 \in Nat
  OBVIOUS
<1> QED BY <1>1, <1>2

\* What is held of i bytes: their characters, and the bits left over.
Holds(b, i) ==
    /\ b.acc \in Nat /\ b.acc < 65536 /\ b.acc_len \in {0, 2, 4}
    /\ b.out \in Seq(Base64Chars)
    /\ 6 * Len(b.out) + b.acc_len = 8 * i

LEMMA OneMore ==
    ASSUME NEW S, NEW s \in Seq(S), NEW x \in S
    PROVE  Append(s, x) \in Seq(S) /\ Len(Append(s, x)) = Len(s) + 1 /\ Len(s) \in Nat
BY AppendProperties

LEMMA Joined ==
    ASSUME NEW S, NEW s \in Seq(S), NEW t \in Seq(S)
    PROVE  s \o t \in Seq(S) /\ Len(s \o t) = Len(s) + Len(t)
BY ConcatProperties

LEMMA PutByteHolds ==
    ASSUME NEW b, NEW i \in Nat, Holds(b, i), NEW byte, IsByte(byte)
    PROVE  Holds(PutByte(b, byte), i + 1)
<1> DEFINE acc == Shifted(b.acc, byte)
           c1  == b64_byte_to_char((acc \div 1) % 64)
           c4  == b64_byte_to_char((acc \div 4) % 64)
           c16 == b64_byte_to_char((acc \div 16) % 64)
           c64 == b64_byte_to_char((acc \div 64) % 64)
           out == b.out
           j   == i + 1
<1>1. acc \in Nat /\ acc < 65536
  BY Powers DEF Shifted, Holds, IsByte
<1>2. {c1, c4, c16, c64} \subseteq Base64Chars
  <2> HIDE DEF acc
  <2>1. acc \in Nat
    BY <1>1
  <2> QED BY <2>1, SextetIsChar
<1>3. out \in Seq(Base64Chars) /\ Len(out) \in Nat /\ 6 * Len(out) + b.acc_len = 8 * i
      /\ j \in Nat /\ 8 * j = 8 * i + 8
  BY DEF Holds
<1>4. /\ b.acc_len = 0 => PutByte(b, byte) = [acc |-> acc, acc_len |-> 2, out |-> Append(out, c4)]
      /\ b.acc_len = 2 => PutByte(b, byte) = [acc |-> acc, acc_len |-> 4, out |-> Append(out, c16)]
      /\ b.acc_len = 4 => PutByte(b, byte) = [acc |-> acc, acc_len |-> 0, out |-> out \o <<c64, c1>>]
  BY PutByteCases
<1> HIDE DEF acc, c1, c4, c16, c64, out, j
<1>5. CASE b.acc_len = 0
  <2> DEFINE o == Append(out, c4)
  <2>1. o \in Seq(Base64Chars) /\ Len(o) = Len(out) + 1
    BY <1>2, <1>3, OneMore
  <2> HIDE DEF o
  <2>2. 6 * Len(o) + 2 = 8 * j
    BY <1>3, <1>5, <2>1
  <2>3. Holds([acc |-> acc, acc_len |-> 2, out |-> o], j)
    BY SMTT(30), <1>1, <1>3, <2>1, <2>2 DEF Holds
  <2> QED BY <1>4, <1>5, <2>3 DEF o, j
<1>6. CASE b.acc_len = 2
  <2> DEFINE o == Append(out, c16)
  <2>1. o \in Seq(Base64Chars) /\ Len(o) = Len(out) + 1
    BY <1>2, <1>3, OneMore
  <2> HIDE DEF o
  <2>2. 6 * Len(o) + 4 = 8 * j
    BY <1>3, <1>6, <2>1
  <2>3. Holds([acc |-> acc, acc_len |-> 4, out |-> o], j)
    BY SMTT(30), <1>1, <1>3, <2>1, <2>2 DEF Holds
  <2> QED BY <1>4, <1>6, <2>3 DEF o, j
<1>7. CASE b.acc_len = 4
  <2> DEFINE two == <<c64, c1>>
             o == out \o two
  <2>1. two \in Seq(Base64Chars) /\ Len(two) = 2
    BY <1>2
  <2> HIDE DEF two
  <2>2. o \in Seq(Base64Chars) /\ Len(o) = Len(out) + 2
    BY <1>3, <2>1, Joined
  <2> HIDE DEF o
  <2>3. 6 * Len(o) = 8 * j /\ Len(o) \in Nat
    BY <1>3, <1>7, <2>2
  <2> DEFINE r == [acc |-> acc, acc_len |-> 0, out |-> o]
  <2>4. r.acc = acc /\ r.acc_len = 0 /\ r.out = o
    OBVIOUS
  <2> HIDE DEF r
  <2>5. Holds(r, j)
    <3>1. 6 * Len(o) + 0 = 8 * j
      BY <2>3
    <3>2. 6 * Len(r.out) + r.acc_len = 8 * j
      BY <2>4, <3>1, Zenon
    <3>3. r.acc \in Nat /\ r.acc < 65536 /\ r.out \in Seq(Base64Chars)
      BY <1>1, <2>2, <2>4
    <3>4. r.acc_len \in {0, 2, 4}
      BY <2>4
    <3> QED BY <3>2, <3>3, <3>4 DEF Holds
  <2> QED BY <1>4, <1>7, <2>5 DEF o, j, two, r
<1> QED BY <1>5, <1>6, <1>7 DEF Holds

\* g is what is held after each of n bytes.
InBytes(g, src, n) ==
    g = [i \in 0..n |-> IF i = 0 THEN [acc |-> 0, acc_len |-> 0, out |-> <<>>]
                        ELSE PutByte(g[i - 1], src[i])]

LEMMA BytesExist ==
    ASSUME NEW src, NEW n \in Nat
    PROVE  \E g : InBytes(g, src, n)
<1> DEFINE T == {j \in Nat : \E g : InBytes(g, src, j)}
           start == [acc |-> 0, acc_len |-> 0, out |-> <<>>]
<1>1. 0 \in T
  <2> DEFINE g == [i \in 0..0 |-> start]
  <2>1. \A i \in 0..0 : i = 0
    OBVIOUS
  <2>2. InBytes(g, src, 0)
    BY <2>1 DEF InBytes
  <2> QED BY <2>2
<1>2. ASSUME NEW j \in Nat, j \in T PROVE j + 1 \in T
  <2>1. PICK g : InBytes(g, src, j)
    BY <1>2
  <2> DEFINE x == PutByte(g[j], src[j + 1])
             f == [i \in 0..(j + 1) |-> IF i = j + 1 THEN x ELSE g[i]]
  <2>2. ASSUME NEW i \in 0..(j + 1)
        PROVE  f[i] = IF i = 0 THEN start ELSE PutByte(f[i - 1], src[i])
    <3>1. i # 0 => i - 1 \in 0..j /\ i - 1 # j + 1
      OBVIOUS
    <3>2. i # 0 => f[i - 1] = g[i - 1]
      BY <3>1
    <3>3. CASE i = j + 1
      <4>1. i - 1 = j /\ i # 0 /\ f[i] = x
        BY <3>3
      <4> QED BY <3>2, <3>3, <4>1
    <3>4. CASE i # j + 1
      <4>1. i \in 0..j /\ f[i] = g[i]
        BY <3>4
      <4>2. g[i] = IF i = 0 THEN start ELSE PutByte(g[i - 1], src[i])
        BY <2>1, <4>1 DEF InBytes
      <4> QED BY <3>2, <4>1, <4>2
    <3> QED BY <3>3, <3>4
  <2>3. f = [i \in 0..(j + 1) |-> f[i]]
    OBVIOUS
  <2> HIDE DEF f
  <2>4. InBytes(f, src, j + 1)
    BY <2>2, <2>3 DEF InBytes
  <2> QED BY <2>4
<1>3. Nat \subseteq T
  <2> HIDE DEF T
  <2> QED BY <1>1, <1>2, AllNumbers
<1> QED BY <1>3

LEMMA putBytesFacts ==
    ASSUME NEW src, Len(src) \in Nat
    PROVE  InBytes(putBytes(src), src, Len(src))
<1> DEFINE g == CHOOSE f : InBytes(f, src, Len(src))
<1>1. InBytes(g, src, Len(src))
  BY BytesExist
<1>2. putBytes(src) = g
  BY DEF putBytes, InBytes
<1> QED BY <1>1, <1>2

LEMMA putBytesHolds ==
    ASSUME NEW src, Len(src) \in Nat, \A i \in 1..Len(src) : IsByte(src[i])
    PROVE  Holds(putBytes(src)[Len(src)], Len(src))
<1> DEFINE g == putBytes(src)
           n == Len(src)
           T == {i \in Nat : i <= n => Holds(g[i], i)}
<1>0. InBytes(g, src, n) /\ n \in Nat
  BY putBytesFacts
<1> HIDE DEF g, n
<1>1. 0 \in T
  <2>1. g[0] = [acc |-> 0, acc_len |-> 0, out |-> <<>>]
    BY <1>0 DEF InBytes
  <2>2. g[0].acc = 0 /\ g[0].acc_len = 0 /\ g[0].out = <<>>
    BY <2>1
  <2>3. Holds(g[0], 0)
    BY <2>2 DEF Holds
  <2> QED BY <2>3
<1>2. ASSUME NEW i \in Nat, i \in T PROVE i + 1 \in T
  <2> SUFFICES ASSUME i + 1 <= n PROVE Holds(g[i + 1], i + 1)
    OBVIOUS
  <2>1. i + 1 \in 0..n /\ i + 1 # 0 /\ (i + 1) - 1 = i /\ i + 1 \in 1..n /\ i <= n
    BY <1>0
  <2>2. g[i + 1] = PutByte(g[i], src[i + 1])
    BY <1>0, <2>1 DEF InBytes
  <2>3. Holds(g[i], i)
    BY <1>2, <2>1
  <2>4. IsByte(src[i + 1])
    BY <2>1 DEF n
  <2> QED BY <2>2, <2>3, <2>4, PutByteHolds
<1>3. Nat \subseteq T
  <2> HIDE DEF T
  <2> QED BY <1>1, <1>2, AllNumbers
<1> QED BY <1>0, <1>3 DEF g, n

\* Four characters for three bytes, two for one and three for two.
LEMMA Base64Length ==
    ASSUME NEW src, Len(src) \in Nat, \A i \in 1..Len(src) : IsByte(src[i])
    PROVE  /\ to_base64(src) \in Seq(Base64Chars)
           /\ Len(to_base64(src)) = b64len(Len(src))
<1> DEFINE b == putBytes(src)[Len(src)]
           n == Len(src)
           last == b64_byte_to_char((b.acc * 2^(6 - b.acc_len)) % 64)
<1>1. Holds(b, n)
  BY putBytesHolds
<1>2. to_base64(src) = IF b.acc_len = 0 THEN b.out ELSE Append(b.out, last)
  BY DEF to_base64
<1>3. n \in Nat
  OBVIOUS
<1> HIDE DEF b, n
<1>4. /\ b.out \in Seq(Base64Chars) /\ Len(b.out) \in Nat
      /\ b.acc \in Nat /\ b.acc_len \in {0, 2, 4} /\ 6 * Len(b.out) + b.acc_len = 8 * n
  BY <1>1 DEF Holds
<1>5. b.acc_len # 0 => last \in Base64Chars
  <2>1. b.acc_len = 2 => 6 - b.acc_len = 4
    OBVIOUS
  <2>2. b.acc_len = 4 => 6 - b.acc_len = 2
    OBVIOUS
  <2>3. b.acc_len = 2 => b.acc * 2^(6 - b.acc_len) = b.acc * 16
    BY <2>1, Powers
  <2>4. b.acc_len = 4 => b.acc * 2^(6 - b.acc_len) = b.acc * 4
    BY <2>2, Powers
  <2>5. b.acc * 16 \in Nat /\ b.acc * 4 \in Nat
    BY <1>4
  <2> QED BY <1>4, <2>3, <2>4, <2>5, SextetIsChar
<1> HIDE DEF last
<1> DEFINE L == Len(b.out)
<1>6. /\ n % 3 = 0 => b.acc_len = 0 /\ L = 4 * (n \div 3)
      /\ n % 3 = 1 => b.acc_len = 2 /\ L = 4 * (n \div 3) + 1
      /\ n % 3 = 2 => b.acc_len = 4 /\ L = 4 * (n \div 3) + 2
      /\ n % 3 \in 0..2
  <2> DEFINE a == b.acc_len
  <2>1. L \in Nat /\ a \in {0, 2, 4} /\ 6 * L + a = 8 * n
    BY <1>4
  <2> HIDE DEF L, a
  <2>2. /\ n % 3 = 0 => a = 0 /\ L = 4 * (n \div 3)
        /\ n % 3 = 1 => a = 2 /\ L = 4 * (n \div 3) + 1
        /\ n % 3 = 2 => a = 4 /\ L = 4 * (n \div 3) + 2
        /\ n % 3 \in 0..2
    BY <1>3, <2>1
  <2> QED BY <2>2 DEF a
<1>7. b.acc_len # 0 => Append(b.out, last) \in Seq(Base64Chars)
                       /\ Len(Append(b.out, last)) = L + 1
  BY <1>4, <1>5, OneMore
<1>8. /\ n % 3 = 0 => b64len(n) = 4 * (n \div 3)
      /\ n % 3 = 1 => b64len(n) = 4 * (n \div 3) + 2
      /\ n % 3 = 2 => b64len(n) = 4 * (n \div 3) + 3
  BY <1>3 DEF b64len
<1> DEFINE t == to_base64(src)
<1>9. t \in Seq(Base64Chars) /\ Len(t) = b64len(n)
  <2> DEFINE q == n \div 3
             k == 4 * q
  <2>1. k \in Nat
    BY <1>3
  <2>2. CASE n % 3 = 0
    BY <1>2, <1>4, <1>6, <1>8, <2>2
  <2> HIDE DEF k
  <2>3. CASE n % 3 = 1
    <3>1. b64len(n) = k + 2 /\ L = k + 1 /\ b.acc_len # 0
      BY <1>6, <1>8, <2>3 DEF k
    <3>2. t \in Seq(Base64Chars) /\ Len(t) = L + 1
      BY <1>2, <1>7, <3>1
    <3> QED BY <2>1, <3>1, <3>2
  <2>4. CASE n % 3 = 2
    <3>1. b64len(n) = k + 3 /\ L = k + 2 /\ b.acc_len # 0
      BY <1>6, <1>8, <2>4 DEF k
    <3>2. t \in Seq(Base64Chars) /\ Len(t) = L + 1
      BY <1>2, <1>7, <3>1
    <3> QED BY <2>1, <3>1, <3>2
  <2> QED BY <1>6, <2>2, <2>3, <2>4
<1> QED BY <1>9 DEF n

-----------------------------------------------------------------------------
(* encode_string. *)

\* The characters that are written.
Alphabet == Base64Chars \cup {"$", "=", ",", "argon2", "v", "m", "t", "p", "d", "i"}

\* What is written of a text: all of it, if there is room for it and its final
\* 0, and otherwise what fitted in before.
Written(w, size, text) ==
    /\ DOMAIN w = {"ret", "dst", "dst_len"}
    /\ w.dst \in Seq(Alphabet) /\ w.dst_len \in Nat /\ Len(w.dst) + w.dst_len = size
    /\ w.dst = <<>> \/ w.dst_len >= 1
    /\ w.ret \in {"OK", "ENCODING_FAIL"}
    /\ w.ret = "OK" => w.dst = text
    /\ w.ret = "OK" <=> (Len(text) = 0 \/ Len(text) < size)

LEMMA PutWrites ==
    ASSUME NEW size \in Nat, NEW w, NEW text \in Seq(Alphabet), NEW str \in Seq(Alphabet),
           Written(w, size, text), Len(text) + Len(str) > 0
    PROVE  Written(Put(w, str), size, text \o str)
<1> DEFINE next == w.dst \o str
           left == w.dst_len - Len(str)
           done == [w EXCEPT !.dst = next, !.dst_len = left]
           fail == [w EXCEPT !.ret = "ENCODING_FAIL"]
           n    == Len(text)
           k    == Len(str)
           all  == text \o str
<1>1. Put(w, str) = IF w.ret # "OK" THEN w ELSE IF k >= w.dst_len THEN fail ELSE done
  BY DEF Put
<1>2. all \in Seq(Alphabet) /\ Len(all) = n + k /\ n \in Nat /\ k \in Nat /\ n + k > 0
  BY Joined, LenProperties
<1> HIDE DEF all
<1>3. CASE w.ret # "OK"
  <2>1. ~ (n = 0 \/ n < size)
    BY <1>3 DEF Written
  <2>2. ~ (Len(all) = 0 \/ Len(all) < size)
    BY <1>2, <2>1
  <2> QED BY <1>1, <1>3, <2>2 DEF Written, all
<1>4. CASE w.ret = "OK" /\ k >= w.dst_len
  <2>1. w.dst = text /\ n + w.dst_len = size /\ w.dst_len \in Nat
    BY <1>4 DEF Written
  <2>2. ~ (Len(all) = 0 \/ Len(all) < size)
    BY <1>2, <1>4, <2>1
  <2>3. fail.ret = "ENCODING_FAIL" /\ fail.dst = w.dst /\ fail.dst_len = w.dst_len
    BY <1>4 DEF Written
  <2> HIDE DEF fail, n, k
  <2>4. Written(fail, size, all)
    <3>1. DOMAIN fail = DOMAIN w
      BY DEF fail
    <3> QED BY <2>2, <2>3, <3>1 DEF Written
  <2> QED BY <1>1, <1>4, <2>4 DEF all
<1>5. CASE w.ret = "OK" /\ ~ (k >= w.dst_len)
  <2>1. w.dst = text /\ n + w.dst_len = size /\ w.dst_len \in Nat
    BY <1>5 DEF Written
  <2>2. left \in Nat /\ left >= 1 /\ Len(all) + left = size /\ Len(all) < size
    BY <1>2, <1>5, <2>1
  <2>3. done.ret = "OK" /\ done.dst = all /\ done.dst_len = left
    <3> HIDE DEF left, k, n
    <3>1. next = all
      BY <2>1 DEF all
    <3> HIDE DEF next
    <3> QED BY <1>5, <3>1 DEF Written
  <2> HIDE DEF done, left, n, k
  <2>4. Written(done, size, all)
    <3>1. DOMAIN done = DOMAIN w
      BY DEF done
    <3> QED BY <1>2, <2>2, <2>3, <3>1 DEF Written
  <2> QED BY <1>1, <1>5, <2>4 DEF all
<1> QED BY <1>3, <1>4, <1>5

\* g is what was written after each of n pieces.
InPieces(g, dst_len, pieces, n) ==
    g = [i \in 0..n |-> IF i = 0 THEN [ret |-> "OK", dst |-> <<>>, dst_len |-> dst_len]
                        ELSE Put(g[i - 1], pieces[i])]

LEMMA PiecesExist ==
    ASSUME NEW dst_len, NEW pieces, NEW n \in Nat
    PROVE  \E g : InPieces(g, dst_len, pieces, n)
<1> DEFINE T == {j \in Nat : \E g : InPieces(g, dst_len, pieces, j)}
           start == [ret |-> "OK", dst |-> <<>>, dst_len |-> dst_len]
<1>1. 0 \in T
  <2> DEFINE g == [i \in 0..0 |-> start]
  <2>1. \A i \in 0..0 : i = 0
    OBVIOUS
  <2>2. InPieces(g, dst_len, pieces, 0)
    BY <2>1 DEF InPieces
  <2> QED BY <2>2
<1>2. ASSUME NEW j \in Nat, j \in T PROVE j + 1 \in T
  <2>1. PICK g : InPieces(g, dst_len, pieces, j)
    BY <1>2
  <2> DEFINE x == Put(g[j], pieces[j + 1])
             f == [i \in 0..(j + 1) |-> IF i = j + 1 THEN x ELSE g[i]]
  <2>2. ASSUME NEW i \in 0..(j + 1)
        PROVE  f[i] = IF i = 0 THEN start ELSE Put(f[i - 1], pieces[i])
    <3>1. i # 0 => i - 1 \in 0..j /\ i - 1 # j + 1
      OBVIOUS
    <3>2. i # 0 => f[i - 1] = g[i - 1]
      BY <3>1
    <3>3. CASE i = j + 1
      <4>1. i - 1 = j /\ i # 0 /\ f[i] = x
        BY <3>3
      <4> QED BY <3>2, <3>3, <4>1
    <3>4. CASE i # j + 1
      <4>1. i \in 0..j /\ f[i] = g[i]
        BY <3>4
      <4>2. g[i] = IF i = 0 THEN start ELSE Put(g[i - 1], pieces[i])
        BY <2>1, <4>1 DEF InPieces
      <4> QED BY <3>2, <4>1, <4>2
    <3> QED BY <3>3, <3>4
  <2>3. f = [i \in 0..(j + 1) |-> f[i]]
    OBVIOUS
  <2> HIDE DEF f
  <2>4. InPieces(f, dst_len, pieces, j + 1)
    BY <2>2, <2>3 DEF InPieces
  <2> QED BY <2>4
<1>3. Nat \subseteq T
  <2> HIDE DEF T
  <2> QED BY <1>1, <1>2, AllNumbers
<1> QED BY <1>3

LEMMA putPiecesFacts ==
    ASSUME NEW dst_len, NEW pieces, Len(pieces) \in Nat
    PROVE  InPieces(putPieces(dst_len, pieces), dst_len, pieces, Len(pieces))
<1> DEFINE g == CHOOSE f : InPieces(f, dst_len, pieces, Len(pieces))
<1>1. InPieces(g, dst_len, pieces, Len(pieces))
  BY PiecesExist
<1>2. putPieces(dst_len, pieces) = g
  BY DEF putPieces, InPieces
<1> QED BY <1>1, <1>2

\* A context with a salt and an output of bytes, and words for its numbers.
IsBytes(s) == s \in Seq(Int) /\ \A i \in 1..Len(s) : IsByte(s[i])

IsHash(c) ==
    /\ DOMAIN c = ContextFields
    /\ IsBytes(c.salt) /\ c.saltlen = Len(c.salt)
    /\ IsBytes(c.out) /\ c.outlen = Len(c.out)
    /\ {c.saltlen, c.outlen, c.t_cost, c.m_cost, c.lanes, c.version} \subseteq 0..UINT32_MAX

\* A sequence of bytes is one of numbers, each of them a byte.
LEMMA BytesOfSeq ==
    ASSUME NEW s \in Seq(0..255)
    PROVE  IsBytes(s)
<1> DEFINE B == 0..255
<1>1. s \in Seq(B) /\ (\A x \in B : IsByte(x)) /\ B \subseteq Int
  BY DEF IsByte
<1> HIDE DEF B
<1>2. s \in Seq(Int)
  BY <1>1, SeqMonotonic
<1>3. \A i \in 1..Len(s) : s[i] \in B
  BY <1>1, ElementOfSeq
<1> QED BY <1>1, <1>2, <1>3 DEF IsBytes

\* Its string.
Text(c, type) ==
    <<"$">> \o type_string(type)
    \o <<"$", "v", "=">> \o Decimal[c.version]
    \o <<"$", "m", "=">> \o Decimal[c.m_cost]
    \o <<",", "t", "=">> \o Decimal[c.t_cost]
    \o <<",", "p", "=">> \o Decimal[c.lanes]
    \o <<"$">> \o to_base64(c.salt)
    \o <<"$">> \o to_base64(c.out)

\* What the fields of a hash are written as.
LEMMA FieldsAreText ==
    ASSUME NEW c, IsHash(c), NEW type \in Types
    PROVE  /\ type_string(type) \in Seq(Alphabet) /\ Len(type_string(type)) \in {2, 3}
           /\ \A n \in {c.t_cost, c.m_cost, c.lanes, c.version} :
                 /\ Decimal[n] \in Seq(Alphabet) /\ Len(Decimal[n]) = numlen[n]
                 /\ numlen[n] \in Nat
           /\ SubSeq(c.salt, 1, c.saltlen) = c.salt
           /\ SubSeq(c.out, 1, c.outlen) = c.out
           /\ to_base64(c.salt) \in Seq(Alphabet) /\ Len(to_base64(c.salt)) = b64len(c.saltlen)
           /\ to_base64(c.out) \in Seq(Alphabet) /\ Len(to_base64(c.out)) = b64len(c.outlen)
<1>1. Base64Chars \subseteq Alphabet /\ Digits \subseteq Alphabet
  BY Base64Facts DEF Alphabet
<1>2. type_string(type) \in Seq(Alphabet) /\ Len(type_string(type)) \in {2, 3}
  <2>1. {"argon2", "d", "i"} \subseteq Alphabet
    BY DEF Alphabet
  <2>2. /\ <<"argon2", "d">> \in Seq(Alphabet) /\ Len(<<"argon2", "d">>) = 2
        /\ <<"argon2", "i">> \in Seq(Alphabet) /\ Len(<<"argon2", "i">>) = 2
        /\ <<"argon2", "i", "d">> \in Seq(Alphabet) /\ Len(<<"argon2", "i", "d">>) = 3
    BY <2>1
  <2>3. \/ type_string(type) = <<"argon2", "d">>
        \/ type_string(type) = <<"argon2", "i">>
        \/ type_string(type) = <<"argon2", "i", "d">>
    BY DEF type_string, Types
  <2> QED BY <2>2, <2>3
<1>3. \A n \in {c.t_cost, c.m_cost, c.lanes, c.version} :
         Decimal[n] \in Seq(Alphabet) /\ Len(Decimal[n]) = numlen[n] /\ numlen[n] \in Nat
  <2> SUFFICES ASSUME NEW n \in {c.t_cost, c.m_cost, c.lanes, c.version}
               PROVE  Decimal[n] \in Seq(Alphabet) /\ Len(Decimal[n]) = numlen[n]
                      /\ numlen[n] \in Nat
    OBVIOUS
  <2>1. IsDecimal(n)
    BY DecimalLength DEF IsHash
  <2> QED BY <1>1, <2>1, SeqMonotonic DEF IsDecimal
<1>4. ASSUME NEW s, IsBytes(s)
      PROVE  /\ SubSeq(s, 1, Len(s)) = s
             /\ to_base64(s) \in Seq(Alphabet) /\ Len(to_base64(s)) = b64len(Len(s))
  <2>1. SubSeq(s, 1, Len(s)) = s /\ Len(s) \in Nat
    BY <1>4, SubSeqFull, LenProperties DEF IsBytes
  <2>2. to_base64(s) \in Seq(Base64Chars) /\ Len(to_base64(s)) = b64len(Len(s))
    BY <1>4, <2>1, Base64Length DEF IsBytes
  <2> QED BY <1>1, <2>1, <2>2, SeqMonotonic
<1> QED BY <1>2, <1>3, <1>4 DEF IsHash

LEMMA PieceWrites ==
    ASSUME NEW size \in Nat, NEW g, NEW pieces, NEW n \in Nat, InPieces(g, size, pieces, n),
           NEW k \in 1..n, NEW text \in Seq(Alphabet), Written(g[k - 1], size, text),
           pieces[k] \in Seq(Alphabet), Len(text) + Len(pieces[k]) > 0
    PROVE  /\ Written(g[k], size, text \o pieces[k])
           /\ text \o pieces[k] \in Seq(Alphabet)
           /\ Len(text \o pieces[k]) = Len(text) + Len(pieces[k])
<1>1. g[k] = Put(g[k - 1], pieces[k])
  BY DEF InPieces
<1> QED BY <1>1, PutWrites, Joined


LEMMA PiecesAre ==
    ASSUME NEW c, IsHash(c), NEW type \in Types
    PROVE  /\ Len(Pieces(c, type)) = 14
           /\ Pieces(c, type)[1] = <<"$">>
           /\ Pieces(c, type)[2] = type_string(type)
           /\ Pieces(c, type)[3] = <<"$", "v", "=">>
           /\ Pieces(c, type)[4] = Decimal[c.version]
           /\ Pieces(c, type)[5] = <<"$", "m", "=">>
           /\ Pieces(c, type)[6] = Decimal[c.m_cost]
           /\ Pieces(c, type)[7] = <<",", "t", "=">>
           /\ Pieces(c, type)[8] = Decimal[c.t_cost]
           /\ Pieces(c, type)[9] = <<",", "p", "=">>
           /\ Pieces(c, type)[10] = Decimal[c.lanes]
           /\ Pieces(c, type)[11] = <<"$">>
           /\ Pieces(c, type)[12] = to_base64(c.salt)
           /\ Pieces(c, type)[13] = <<"$">>
           /\ Pieces(c, type)[14] = to_base64(c.out)
BY FieldsAreText DEF Pieces

LEMMA SeparatorsAreText ==
    /\ <<"$">> \in Seq(Alphabet) /\ Len(<<"$">>) = 1
    /\ <<"$", "v", "=">> \in Seq(Alphabet) /\ Len(<<"$", "v", "=">>) = 3
    /\ <<"$", "m", "=">> \in Seq(Alphabet) /\ Len(<<"$", "m", "=">>) = 3
    /\ <<",", "t", "=">> \in Seq(Alphabet) /\ Len(<<",", "t", "=">>) = 3
    /\ <<",", "p", "=">> \in Seq(Alphabet) /\ Len(<<",", "p", "=">>) = 3
<1>1. {"$", "=", ",", "v", "m", "t", "p"} \subseteq Alphabet
  BY DEF Alphabet
<1>2. \A x \in Alphabet : <<x>> \in Seq(Alphabet) /\ Len(<<x>>) = 1
  OBVIOUS
<1>3. \A x, y, z \in Alphabet : <<x, y, z>> \in Seq(Alphabet) /\ Len(<<x, y, z>>) = 3
  OBVIOUS
<1> QED BY <1>1, <1>2, <1>3

\* A text of which something was to be written.
Begun(w, size, text) ==
    Written(w, size, text) /\ text \in Seq(Alphabet) /\ Len(text) \in Nat /\ Len(text) > 0

LEMMA NextPiece ==
    ASSUME NEW size \in Nat, NEW w, NEW text, Begun(w, size, text), NEW str \in Seq(Alphabet)
    PROVE  /\ Begun(Put(w, str), size, text \o str)
           /\ Len(text \o str) = Len(text) + Len(str)
<1>1. text \in Seq(Alphabet) /\ Len(text) + Len(str) > 0 /\ Len(text) \in Nat /\ Len(str) \in Nat
  BY LenProperties DEF Begun
<1>2. Written(Put(w, str), size, text \o str)
  BY <1>1, PutWrites DEF Begun
<1>3. text \o str \in Seq(Alphabet) /\ Len(text \o str) = Len(text) + Len(str)
  BY <1>1, Joined
<1> QED BY <1>1, <1>2, <1>3 DEF Begun

LEMMA FirstPiece ==
    ASSUME NEW size \in Nat
    PROVE  Begun(Put([ret |-> "OK", dst |-> <<>>, dst_len |-> size], <<"$">>), size, <<"$">>)
<1> DEFINE w == [ret |-> "OK", dst |-> <<>>, dst_len |-> size]
           t == <<>>
           d == <<"$">>
<1>1. DOMAIN w = {"ret", "dst", "dst_len"} /\ w.ret = "OK" /\ w.dst = t /\ w.dst_len = size
  OBVIOUS
<1>2. t \in Seq(Alphabet) /\ Len(t) = 0
  BY EmptySeq
<1>3. d \in Seq(Alphabet) /\ Len(d) = 1 /\ t \o d = d
  BY SeparatorsAreText, ConcatEmptySeq
<1> HIDE DEF w, t, d
<1>4. Written(w, size, t)
  BY <1>1, <1>2 DEF Written
<1>5. Len(t) + Len(d) > 0
  BY <1>2, <1>3
<1>6. Written(Put(w, d), size, t \o d)
  BY <1>2, <1>3, <1>4, <1>5, PutWrites
<1>7. Begun(Put(w, d), size, d)
  BY <1>3, <1>6 DEF Begun
<1> QED BY <1>7 DEF w, d

\* The pieces are written one after the other, as long as there is room.
LEMMA TextWritten ==
    ASSUME NEW size \in Nat, NEW c, IsHash(c), NEW type \in Types
    PROVE  /\ Written(putPieces(size, Pieces(c, type))[14], size, Text(c, type))
           /\ Text(c, type) \in Seq(Alphabet)
           /\ Len(Text(c, type)) \in Nat /\ Len(Text(c, type)) > 0
           /\ Len(Text(c, type)) =
                 15 + Len(type_string(type)) + numlen[c.version] + numlen[c.m_cost]
                    + numlen[c.t_cost] + numlen[c.lanes]
                    + b64len(c.saltlen) + b64len(c.outlen)
<1> DEFINE s   == Pieces(c, type)
           g   == putPieces(size, s)
           p1  == <<"$">>
           p2  == type_string(type)
           p3  == <<"$", "v", "=">>
           p4  == Decimal[c.version]
           p5  == <<"$", "m", "=">>
           p6  == Decimal[c.m_cost]
           p7  == <<",", "t", "=">>
           p8  == Decimal[c.t_cost]
           p9  == <<",", "p", "=">>
           p10 == Decimal[c.lanes]
           p11 == <<"$">>
           p12 == to_base64(c.salt)
           p13 == <<"$">>
           p14 == to_base64(c.out)
           x1  == p1
           x2  == x1 \o p2
           x3  == x2 \o p3
           x4  == x3 \o p4
           x5  == x4 \o p5
           x6  == x5 \o p6
           x7  == x6 \o p7
           x8  == x7 \o p8
           x9  == x8 \o p9
           x10 == x9 \o p10
           x11 == x10 \o p11
           x12 == x11 \o p12
           x13 == x12 \o p13
           x14 == x13 \o p14
<1>0. x14 = Text(c, type)
  BY DEF Text
<1>a. InPieces(g, size, s, 14)
  <2>1. Len(s) = 14
    BY PiecesAre
  <2> HIDE DEF s
  <2>2. Len(s) \in Nat
    BY <2>1
  <2> QED BY <2>1, <2>2, putPiecesFacts
<1>b. /\ s[1] = p1 /\ s[2] = p2 /\ s[3] = p3
      /\ s[4] = p4 /\ s[5] = p5 /\ s[6] = p6
      /\ s[7] = p7 /\ s[8] = p8 /\ s[9] = p9
      /\ s[10] = p10 /\ s[11] = p11 /\ s[12] = p12
      /\ s[13] = p13 /\ s[14] = p14
  BY PiecesAre
<1>c. /\ p1 \in Seq(Alphabet) /\ p2 \in Seq(Alphabet) /\ p3 \in Seq(Alphabet) /\ p4 \in Seq(Alphabet)
      /\ p5 \in Seq(Alphabet) /\ p6 \in Seq(Alphabet) /\ p7 \in Seq(Alphabet) /\ p8 \in Seq(Alphabet)
      /\ p9 \in Seq(Alphabet) /\ p10 \in Seq(Alphabet) /\ p11 \in Seq(Alphabet) /\ p12 \in Seq(Alphabet)
      /\ p13 \in Seq(Alphabet) /\ p14 \in Seq(Alphabet)
  BY SeparatorsAreText, FieldsAreText
<1>d. /\ Len(p1) = 1 /\ Len(p2) = Len(type_string(type)) /\ Len(p3) = 3 /\ Len(p4) = numlen[c.version]
      /\ Len(p5) = 3 /\ Len(p6) = numlen[c.m_cost] /\ Len(p7) = 3 /\ Len(p8) = numlen[c.t_cost]
      /\ Len(p9) = 3 /\ Len(p10) = numlen[c.lanes] /\ Len(p11) = 1 /\ Len(p12) = b64len(c.saltlen)
      /\ Len(p13) = 1 /\ Len(p14) = b64len(c.outlen)
  BY SeparatorsAreText, FieldsAreText
<1>e. /\ g[0] = [ret |-> "OK", dst |-> <<>>, dst_len |-> size]
      /\ g[1] = Put(g[0], p1) /\ g[2] = Put(g[1], p2)
      /\ g[3] = Put(g[2], p3) /\ g[4] = Put(g[3], p4)
      /\ g[5] = Put(g[4], p5) /\ g[6] = Put(g[5], p6)
      /\ g[7] = Put(g[6], p7) /\ g[8] = Put(g[7], p8)
      /\ g[9] = Put(g[8], p9) /\ g[10] = Put(g[9], p10)
      /\ g[11] = Put(g[10], p11) /\ g[12] = Put(g[11], p12)
      /\ g[13] = Put(g[12], p13) /\ g[14] = Put(g[13], p14)
  <2> HIDE DEF s, g, p1, p2, p3, p4, p5, p6, p7, p8, p9, p10, p11, p12, p13, p14
  <2> QED BY <1>a, <1>b DEF InPieces
<1>1. Begun(g[1], size, x1) /\ Len(x1) = 1
  BY <1>d, <1>e, FirstPiece
<1> HIDE DEF s, g, x1, p1, p2, p3, p4, p5, p6, p7, p8, p9, p10, p11, p12, p13, p14
<1>2. Begun(g[2], size, x2) /\ Len(x2) = Len(x1) + Len(p2)
  <2>1. p2 \in Seq(Alphabet) /\ g[2] = Put(g[1], p2)
    BY <1>c, <1>e
  <2> QED BY <1>1, <2>1, NextPiece
<1> HIDE DEF x2
<1>3. Begun(g[3], size, x3) /\ Len(x3) = Len(x2) + Len(p3)
  <2>1. p3 \in Seq(Alphabet) /\ g[3] = Put(g[2], p3)
    BY <1>c, <1>e
  <2> QED BY <1>2, <2>1, NextPiece
<1> HIDE DEF x3
<1>4. Begun(g[4], size, x4) /\ Len(x4) = Len(x3) + Len(p4)
  <2>1. p4 \in Seq(Alphabet) /\ g[4] = Put(g[3], p4)
    BY <1>c, <1>e
  <2> QED BY <1>3, <2>1, NextPiece
<1> HIDE DEF x4
<1>5. Begun(g[5], size, x5) /\ Len(x5) = Len(x4) + Len(p5)
  <2>1. p5 \in Seq(Alphabet) /\ g[5] = Put(g[4], p5)
    BY <1>c, <1>e
  <2> QED BY <1>4, <2>1, NextPiece
<1> HIDE DEF x5
<1>6. Begun(g[6], size, x6) /\ Len(x6) = Len(x5) + Len(p6)
  <2>1. p6 \in Seq(Alphabet) /\ g[6] = Put(g[5], p6)
    BY <1>c, <1>e
  <2> QED BY <1>5, <2>1, NextPiece
<1> HIDE DEF x6
<1>7. Begun(g[7], size, x7) /\ Len(x7) = Len(x6) + Len(p7)
  <2>1. p7 \in Seq(Alphabet) /\ g[7] = Put(g[6], p7)
    BY <1>c, <1>e
  <2> QED BY <1>6, <2>1, NextPiece
<1> HIDE DEF x7
<1>8. Begun(g[8], size, x8) /\ Len(x8) = Len(x7) + Len(p8)
  <2>1. p8 \in Seq(Alphabet) /\ g[8] = Put(g[7], p8)
    BY <1>c, <1>e
  <2> QED BY <1>7, <2>1, NextPiece
<1> HIDE DEF x8
<1>9. Begun(g[9], size, x9) /\ Len(x9) = Len(x8) + Len(p9)
  <2>1. p9 \in Seq(Alphabet) /\ g[9] = Put(g[8], p9)
    BY <1>c, <1>e
  <2> QED BY <1>8, <2>1, NextPiece
<1> HIDE DEF x9
<1>10. Begun(g[10], size, x10) /\ Len(x10) = Len(x9) + Len(p10)
  <2>1. p10 \in Seq(Alphabet) /\ g[10] = Put(g[9], p10)
    BY <1>c, <1>e
  <2> QED BY <1>9, <2>1, NextPiece
<1> HIDE DEF x10
<1>11. Begun(g[11], size, x11) /\ Len(x11) = Len(x10) + Len(p11)
  <2>1. p11 \in Seq(Alphabet) /\ g[11] = Put(g[10], p11)
    BY <1>c, <1>e
  <2> QED BY <1>10, <2>1, NextPiece
<1> HIDE DEF x11
<1>12. Begun(g[12], size, x12) /\ Len(x12) = Len(x11) + Len(p12)
  <2>1. p12 \in Seq(Alphabet) /\ g[12] = Put(g[11], p12)
    BY <1>c, <1>e
  <2> QED BY <1>11, <2>1, NextPiece
<1> HIDE DEF x12
<1>13. Begun(g[13], size, x13) /\ Len(x13) = Len(x12) + Len(p13)
  <2>1. p13 \in Seq(Alphabet) /\ g[13] = Put(g[12], p13)
    BY <1>c, <1>e
  <2> QED BY <1>12, <2>1, NextPiece
<1> HIDE DEF x13
<1>14. Begun(g[14], size, x14) /\ Len(x14) = Len(x13) + Len(p14)
  <2>1. p14 \in Seq(Alphabet) /\ g[14] = Put(g[13], p14)
    BY <1>c, <1>e
  <2> QED BY <1>13, <2>1, NextPiece
<1> HIDE DEF x14
<1>15. Len(x14) = 15 + Len(p2) + Len(p4) + Len(p6) + Len(p8) + Len(p10) + Len(p12) + Len(p14)
  <2>1. /\ Len(p2) \in Nat /\ Len(p4) \in Nat /\ Len(p6) \in Nat /\ Len(p8) \in Nat
        /\ Len(p10) \in Nat /\ Len(p12) \in Nat /\ Len(p14) \in Nat
    BY <1>c, LenProperties
  <2>2. Len(p3) = 3 /\ Len(p5) = 3 /\ Len(p7) = 3 /\ Len(p9) = 3 /\ Len(p11) = 1 /\ Len(p13) = 1
    BY <1>d
  <2> QED BY <1>1, <1>2, <1>3, <1>4, <1>5, <1>6, <1>7, <1>8, <1>9, <1>10, <1>11, <1>12, <1>13,
             <1>14, <2>1, <2>2
<1> QED BY <1>0, <1>14, <1>15, <1>d DEF Begun, g, s

\* encode_string writes the whole text or says that it did not, and in no case a
\* character behind the end of the buffer.
THEOREM EncodeString ==
    ASSUME NEW size \in Nat, NEW c, IsHash(c), NEW type \in Types,
           NEW e, e = encode_string(size, c, type)
    PROVE  /\ e.dst \in Seq(Alphabet)
           /\ e.dst = <<>> \/ Len(e.dst) + 1 <= size
           /\ e.ret = "OK" => e.dst = Text(c, type)
           /\ e.ret = "OK" <=> validate_inputs(c) = "OK" /\ Len(Text(c, type)) < size
           /\ e # [ret |-> "none"]
<1> DEFINE put  == putPieces(size, Pieces(c, type))
           code == validate_inputs(c)
           all  == put[14]
           fail == [put[0] EXCEPT !.ret = code]
<1>1. InPieces(put, size, Pieces(c, type), 14)
  <2>1. Len(Pieces(c, type)) = 14
    BY PiecesAre
  <2>2. Len(Pieces(c, type)) \in Nat
    BY <2>1
  <2> QED BY <2>1, <2>2, putPiecesFacts
<1>2. put[0] = [ret |-> "OK", dst |-> <<>>, dst_len |-> size]
  BY <1>1 DEF InPieces
<1>3. e = IF code # "OK" THEN fail ELSE all
  BY PiecesAre DEF encode_string
<1>4. Written(all, size, Text(c, type)) /\ Len(Text(c, type)) \in Nat /\ Len(Text(c, type)) > 0
  BY TextWritten
<1> HIDE DEF put, all, code
<1>5. CASE code # "OK"
  <2>1. fail.dst = <<>> /\ fail.ret = code /\ DOMAIN fail = {"ret", "dst", "dst_len"}
    BY <1>2
  <2>2. fail # [ret |-> "none"]
    BY <2>1
  <2> HIDE DEF fail
  <2>3. e.dst = <<>> /\ e.ret = code /\ e # [ret |-> "none"]
    BY <1>3, <1>5, <2>1, <2>2
  <2>4. <<>> \in Seq(Alphabet)
    BY EmptySeq
  <2> QED BY <1>5, <2>3, <2>4 DEF code
<1>6. CASE code = "OK"
  <2>1. e = all
    BY <1>3, <1>6
  <2>2. e # [ret |-> "none"]
    BY <1>4, <2>1 DEF Written
  <2>3. e.dst = <<>> \/ Len(e.dst) + 1 <= size
    <3>1. Len(e.dst) \in Nat
      BY <1>4, <2>1, LenProperties DEF Written
    <3> QED BY <1>4, <2>1, <3>1 DEF Written
  <2>4. e.ret = "OK" <=> Len(Text(c, type)) < size
    BY <1>4, <2>1 DEF Written
  <2> QED BY <1>4, <1>6, <2>1, <2>2, <2>3, <2>4 DEF Written, code
<1> QED BY <1>5, <1>6

-----------------------------------------------------------------------------
(* from_base64. *)

\* How far a string goes, and what is left of it.
LEMMA SpanFacts ==
    ASSUME NEW S, NEW str \in Seq(S), NEW C
    PROVE  /\ Span(str, C) \in 0..Len(str)
           /\ \A i \in 1..Span(str, C) : str[i] \in C
           /\ Span(str, C) < Len(str) => str[Span(str, C) + 1] \notin C
<1> DEFINE other == {i \in DOMAIN str : str[i] \notin C}
           m == Min(other)
<1>1. DOMAIN str = 1..Len(str) /\ Len(str) \in Nat
  BY LenProperties
<1>2. CASE other = {}
  <2>1. Span(str, C) = Len(str)
    BY <1>2 DEF Span
  <2> QED BY <1>1, <1>2, <2>1
<1>3. CASE other # {}
  <2>1. other \in SUBSET Nat
    BY <1>1
  <2>2. m \in other /\ \A y \in other : m <= y
    BY <1>3, <2>1, LeastNumber
  <2>3. Span(str, C) = m - 1
    BY <1>3 DEF Span
  <2>4. m \in 1..Len(str) /\ str[m] \notin C
    BY <1>1, <2>2
  <2>5. \A i \in 1..(m - 1) : i \in 1..Len(str) /\ ~ (m <= i)
    BY <1>1, <2>4
  <2>6. \A i \in 1..(m - 1) : str[i] \in C
    BY <1>1, <2>2, <2>5
  <2> HIDE DEF m, other
  <2>7. m - 1 \in 0..Len(str) /\ (m - 1) + 1 = m
    BY <1>1, <2>4
  <2> QED BY <2>3, <2>4, <2>6, <2>7
<1> QED BY <1>2, <1>3

LEMMA RestFacts ==
    ASSUME NEW S, NEW str \in Seq(S), NEW n \in Nat
    PROVE  /\ Rest(str, n) \in Seq(S)
           /\ n <= Len(str) => Len(Rest(str, n)) = Len(str) - n
           /\ \A i \in 1..(Len(str) - n) : Rest(str, n)[i] = str[n + i]
<1> DEFINE m == n + 1
           k == Len(str)
<1>1. m \in Int /\ k \in Int /\ k \in Nat
  BY LenProperties
<1>2. \A i \in m..k : str[i] \in S
  BY <1>1, ElementOfSeq
<1>3. Rest(str, n) = SubSeq(str, m, k)
  BY DEF Rest
<1> HIDE DEF m, k
<1>4. /\ SubSeq(str, m, k) \in Seq(S)
      /\ Len(SubSeq(str, m, k)) = IF m <= k THEN k - m + 1 ELSE 0
      /\ \A i \in 1..(k - m + 1) : SubSeq(str, m, k)[i] = str[m + i - 1]
  BY <1>1, <1>2, SubSeqProperties
<1>5. n <= k => (IF m <= k THEN k - m + 1 ELSE 0) = k - n
  BY <1>1 DEF m
<1>6. ASSUME NEW i \in 1..(k - n)
      PROVE  SubSeq(str, m, k)[i] = str[n + i]
  <2>1. i \in 1..(k - m + 1) /\ m + i - 1 = n + i
    BY <1>1 DEF m
  <2> QED BY <1>4, <2>1
<1> QED BY <1>3, <1>4, <1>5, <1>6 DEF k

\* The first n characters.
LEMMA FirstFacts ==
    ASSUME NEW S, NEW str \in Seq(S), NEW n \in 0..Len(str)
    PROVE  /\ SubSeq(str, 1, n) \in Seq(S) /\ Len(SubSeq(str, 1, n)) = n
           /\ \A i \in 1..n : SubSeq(str, 1, n)[i] = str[i]
<1>1. n \in Nat /\ n <= Len(str) /\ Len(str) \in Nat
  BY LenProperties
<1>2. \A i \in 1..n : str[i] \in S
  BY <1>1, ElementOfSeq
<1>3. /\ SubSeq(str, 1, n) \in Seq(S)
      /\ Len(SubSeq(str, 1, n)) = IF 1 <= n THEN n - 1 + 1 ELSE 0
      /\ \A i \in 1..(n - 1 + 1) : SubSeq(str, 1, n)[i] = str[1 + i - 1]
  BY <1>1, <1>2, SubSeqProperties
<1>4. (IF 1 <= n THEN n - 1 + 1 ELSE 0) = n
  BY <1>1
<1>5. ASSUME NEW i \in 1..n PROVE SubSeq(str, 1, n)[i] = str[i]
  <2>1. i \in 1..(n - 1 + 1) /\ 1 + i - 1 = i
    BY <1>1
  <2> QED BY <1>3, <2>1
<1> QED BY <1>3, <1>4, <1>5

LEMMA SextetOfChar ==
    ASSUME NEW c \in Base64Chars
    PROVE  b64_char_to_byte[c] \in Nat /\ b64_char_to_byte[c] < 64
<1> DEFINE i == CHOOSE j \in DOMAIN Base64 : Base64[j] = c
<1>1. i \in DOMAIN Base64
  BY DEF Base64Chars
<1>2. b64_char_to_byte[c] = i - 1
  BY DEF b64_char_to_byte
<1> HIDE DEF i
<1>3. i \in 1..64
  BY <1>1, Base64Facts
<1> QED BY <1>2, <1>3

\* The accumulator with six bits more.
Taken(acc, c) == (acc * 64 + b64_char_to_byte[c]) % AccSize

\* Six bits more make a byte, or there is none yet.
NextChar(b, acc, left) == [b EXCEPT !.acc = acc, !.acc_len = left]
NextByte(b, acc, left, byte) ==
    [b EXCEPT !.acc = acc, !.acc_len = left, !.buf = Append(b.buf, byte)]

LEMMA GetCharCases ==
    ASSUME NEW b, NEW c
    PROVE  LET acc  == Taken(b.acc, c)
               room == ~ (Len(b.buf) >= b.dst_len)
           IN /\ b.full => GetChar(b, c) = b
              /\ ~ b.full /\ b.acc_len = 0 => GetChar(b, c) = NextChar(b, acc, 6)
              /\ ~ b.full /\ b.acc_len # 0 /\ b.acc_len \in {2, 4, 6} /\ ~ room =>
                    GetChar(b, c) = [b EXCEPT !.full = TRUE]
              /\ ~ b.full /\ b.acc_len = 6 /\ room =>
                    GetChar(b, c) = NextByte(b, acc, 4, (acc \div 16) % 256)
              /\ ~ b.full /\ b.acc_len = 4 /\ room =>
                    GetChar(b, c) = NextByte(b, acc, 2, (acc \div 4) % 256)
              /\ ~ b.full /\ b.acc_len = 2 /\ room =>
                    GetChar(b, c) = NextByte(b, acc, 0, (acc \div 1) % 256)
<1> DEFINE acc == (b.acc * 64 + b64_char_to_byte[c]) % AccSize
           len == b.acc_len + 6
           Byte(n) == (acc \div 2^n) % 256
           room == ~ (Len(b.buf) >= b.dst_len)
<1>1. GetChar(b, c) =
         IF b.full THEN b
         ELSE IF len < 8 THEN NextChar(b, acc, len)
         ELSE IF ~ room THEN [b EXCEPT !.full = TRUE]
         ELSE NextByte(b, acc, len - 8, Byte(len - 8))
  BY DEF GetChar, NextChar, NextByte
<1>2. acc = Taken(b.acc, c)
  BY DEF Taken
<1>3. Byte(0) = (acc \div 1) % 256 /\ Byte(2) = (acc \div 4) % 256 /\ Byte(4) = (acc \div 16) % 256
  BY Powers
<1> HIDE DEF acc, Byte, room
<1>4. ASSUME b.acc_len = 0 PROVE len = 6 /\ len < 8
  BY <1>4
<1>5. ASSUME b.acc_len = 2 PROVE len - 8 = 0 /\ ~ (len < 8)
  BY <1>5
<1>6. ASSUME b.acc_len = 4 PROVE len - 8 = 2 /\ ~ (len < 8)
  BY <1>6
<1>7. ASSUME b.acc_len = 6 PROVE len - 8 = 4 /\ ~ (len < 8)
  BY <1>7
<1> HIDE DEF len
<1>8. b.full => GetChar(b, c) = b
  BY <1>1
<1>9. ~ b.full /\ b.acc_len = 0 => GetChar(b, c) = NextChar(b, acc, 6)
  BY <1>1, <1>4
<1>10. ~ b.full /\ b.acc_len # 0 /\ b.acc_len \in {2, 4, 6} /\ ~ room =>
          GetChar(b, c) = [b EXCEPT !.full = TRUE]
  BY <1>1, <1>5, <1>6, <1>7
<1>11. ~ b.full /\ b.acc_len = 6 /\ room => GetChar(b, c) = NextByte(b, acc, 4, (acc \div 16) % 256)
  BY <1>1, <1>3, <1>7
<1>12. ~ b.full /\ b.acc_len = 4 /\ room => GetChar(b, c) = NextByte(b, acc, 2, (acc \div 4) % 256)
  BY <1>1, <1>3, <1>6
<1>13. ~ b.full /\ b.acc_len = 2 /\ room => GetChar(b, c) = NextByte(b, acc, 0, (acc \div 1) % 256)
  BY <1>1, <1>3, <1>5
<1> QED BY <1>2, <1>8, <1>9, <1>10, <1>11, <1>12, <1>13 DEF room

\* What is held of i characters: the bytes they made, never more than there is
\* room for, and the bits left over.
Gathered(b, n, i) ==
    /\ DOMAIN b = {"acc", "acc_len", "buf", "full", "dst_len"}
    /\ b.dst_len = n /\ b.full \in BOOLEAN
    /\ b.acc \in Nat /\ b.acc < 65536 /\ b.acc_len \in {0, 2, 4, 6}
    /\ IsBytes(b.buf) /\ Len(b.buf) <= n
    /\ ~ b.full => 6 * i = 8 * Len(b.buf) + b.acc_len

LEMMA OneByteMore ==
    ASSUME NEW s, IsBytes(s), NEW x, IsByte(x)
    PROVE  IsBytes(Append(s, x)) /\ Len(Append(s, x)) = Len(s) + 1 /\ Len(s) \in Nat
<1> DEFINE a == Append(s, x)
<1>1. s \in Seq(Int) /\ x \in Int /\ Len(s) \in Nat
  BY LenProperties DEF IsBytes, IsByte
<1>2. /\ a \in Seq(Int) /\ Len(a) = Len(s) + 1 /\ a[Len(s) + 1] = x
      /\ \A i \in 1..Len(s) : a[i] = s[i]
  BY <1>1, AppendProperties
<1> HIDE DEF a
<1>3. ASSUME NEW i \in 1..Len(a) PROVE IsByte(a[i])
  <2>1. i \in 1..Len(s) \/ i = Len(s) + 1
    BY <1>1, <1>2
  <2> QED BY <1>2, <2>1 DEF IsBytes
<1>4. IsBytes(a)
  BY <1>2, <1>3 DEF IsBytes
<1> QED BY <1>1, <1>2, <1>4 DEF a

LEMMA NextByteGathers ==
    ASSUME NEW b, NEW n \in Nat, NEW i \in Nat, Gathered(b, n, i), ~ b.full,
           Len(b.buf) < n, NEW acc \in Nat, acc < 65536, NEW left \in {0, 2, 4, 6},
           left + 2 = b.acc_len, NEW byte, IsByte(byte)
    PROVE  Gathered(NextByte(b, acc, left, byte), n, i + 1)
<1> DEFINE r == NextByte(b, acc, left, byte)
           a == Append(b.buf, byte)
           j == i + 1
<1>1. IsBytes(a) /\ Len(a) = Len(b.buf) + 1 /\ Len(b.buf) \in Nat
  BY OneByteMore DEF Gathered
<1>2. /\ DOMAIN r = {"acc", "acc_len", "buf", "full", "dst_len"}
      /\ r.dst_len = n /\ r.full = b.full /\ r.acc = acc /\ r.acc_len = left /\ r.buf = a
  BY DEF Gathered, NextByte
<1>3. 6 * i = 8 * Len(b.buf) + b.acc_len /\ j \in Nat /\ 6 * j = 6 * i + 6
  BY DEF Gathered
<1> HIDE DEF r, a, j
<1>4. 6 * j = 8 * Len(a) + left
  <2> DEFINE x == Len(b.buf)
             y == Len(a)
             l == b.acc_len
  <2>1. x \in Nat /\ y = x + 1 /\ 6 * i = 8 * x + l /\ l \in {0, 2, 4, 6} /\ left + 2 = l
    BY <1>1, <1>3 DEF Gathered
  <2> HIDE DEF x, y, l
  <2>2. 6 * j = 8 * y + left
    BY <1>3, <2>1
  <2> QED BY <2>2 DEF y
<1>5. Len(a) <= n
  BY <1>1
<1>6. b.full \in BOOLEAN
  BY DEF Gathered
<1>7. Gathered(r, n, j)
  BY SMTT(30), <1>1, <1>2, <1>4, <1>5, <1>6 DEF Gathered
<1> QED BY <1>7 DEF r, j

LEMMA FullGathers ==
    ASSUME NEW b, NEW n, NEW i, Gathered(b, n, i), NEW r, r.full = TRUE,
           DOMAIN r = DOMAIN b, r.dst_len = b.dst_len, r.acc = b.acc, r.acc_len = b.acc_len,
           r.buf = b.buf, NEW j
    PROVE  Gathered(r, n, j)
<1>1. ~ r.full => 6 * j = 8 * Len(r.buf) + r.acc_len
  OBVIOUS
<1>2. /\ DOMAIN b = {"acc", "acc_len", "buf", "full", "dst_len"} /\ b.dst_len = n
      /\ b.acc \in Nat /\ b.acc < 65536 /\ b.acc_len \in {0, 2, 4, 6}
      /\ IsBytes(b.buf) /\ Len(b.buf) <= n
  BY DEF Gathered
<1>3. DOMAIN r = {"acc", "acc_len", "buf", "full", "dst_len"} /\ r.dst_len = n
  BY <1>2
<1>4. r.acc \in Nat /\ r.acc < 65536 /\ r.acc_len \in {0, 2, 4, 6}
  BY <1>2
<1>5. IsBytes(r.buf) /\ Len(r.buf) <= n
  BY <1>2
<1>6. r.full \in BOOLEAN
  BY Zenon
<1> QED BY <1>1, <1>3, <1>4, <1>5, <1>6 DEF Gathered

LEMMA GetCharGathers ==
    ASSUME NEW b, NEW n \in Nat, NEW i \in Nat, Gathered(b, n, i), NEW c \in Base64Chars
    PROVE  Gathered(GetChar(b, c), n, i + 1)
<1> DEFINE acc  == Taken(b.acc, c)
           room == ~ (Len(b.buf) >= b.dst_len)
<1>1. acc \in Nat /\ acc < 65536
  BY SextetOfChar, Powers DEF Taken, Gathered
<1>2. /\ b.full => GetChar(b, c) = b
      /\ ~ b.full /\ b.acc_len = 0 => GetChar(b, c) = NextChar(b, acc, 6)
      /\ ~ b.full /\ b.acc_len # 0 /\ b.acc_len \in {2, 4, 6} /\ ~ room =>
            GetChar(b, c) = [b EXCEPT !.full = TRUE]
      /\ ~ b.full /\ b.acc_len = 6 /\ room =>
            GetChar(b, c) = NextByte(b, acc, 4, (acc \div 16) % 256)
      /\ ~ b.full /\ b.acc_len = 4 /\ room =>
            GetChar(b, c) = NextByte(b, acc, 2, (acc \div 4) % 256)
      /\ ~ b.full /\ b.acc_len = 2 /\ room =>
            GetChar(b, c) = NextByte(b, acc, 0, (acc \div 1) % 256)
  BY GetCharCases
<1>3. /\ IsByte((acc \div 16) % 256) /\ IsByte((acc \div 4) % 256) /\ IsByte((acc \div 1) % 256)
  <2> HIDE DEF acc
  <2> QED BY <1>1 DEF IsByte
<1>4. Len(b.buf) \in Nat /\ (room => Len(b.buf) < n) /\ b.acc_len \in {0, 2, 4, 6}
      /\ b.full \in BOOLEAN
  BY LenProperties DEF Gathered, IsBytes
<1> HIDE DEF acc, room
<1>5. CASE b.full
  <2>1. GetChar(b, c) = b /\ b.full = TRUE
    BY <1>2, <1>4, <1>5
  <2> QED BY <2>1, FullGathers
<1>6. CASE ~ b.full /\ b.acc_len = 0
  <2> DEFINE r == NextChar(b, acc, 6)
             j == i + 1
  <2>1. /\ DOMAIN r = {"acc", "acc_len", "buf", "full", "dst_len"}
        /\ r.dst_len = n /\ r.full = b.full /\ r.acc = acc /\ r.acc_len = 6 /\ r.buf = b.buf
    BY DEF Gathered, NextChar
  <2>2. 6 * i = 8 * Len(b.buf) + b.acc_len /\ j \in Nat /\ 6 * j = 6 * i + 6
    BY <1>6 DEF Gathered
  <2> HIDE DEF r, j
  <2>3. 6 * j = 8 * Len(b.buf) + 6
    BY <1>4, <1>6, <2>2
  <2>4. IsBytes(b.buf) /\ Len(b.buf) <= n
    BY DEF Gathered
  <2>5. Gathered(r, n, j)
    BY <1>1, <1>4, <2>1, <2>3, <2>4 DEF Gathered
  <2> QED BY <1>2, <1>6, <2>5 DEF r, j
<1>7. CASE ~ b.full /\ b.acc_len # 0 /\ ~ room
  <2> DEFINE r == [b EXCEPT !.full = TRUE]
  <2>1. /\ DOMAIN r = DOMAIN b
        /\ r.dst_len = b.dst_len /\ r.full = TRUE /\ r.acc = b.acc /\ r.acc_len = b.acc_len
        /\ r.buf = b.buf
    BY DEF Gathered
  <2>2. GetChar(b, c) = r
    BY <1>2, <1>4, <1>7
  <2> HIDE DEF r
  <2> QED BY <2>1, <2>2, FullGathers
<1>8. CASE ~ b.full /\ b.acc_len = 6 /\ room
  BY SMTT(30), <1>1, <1>2, <1>3, <1>4, <1>8, NextByteGathers
<1>9. CASE ~ b.full /\ b.acc_len = 4 /\ room
  BY SMTT(30), <1>1, <1>2, <1>3, <1>4, <1>9, NextByteGathers
<1>10. CASE ~ b.full /\ b.acc_len = 2 /\ room
  BY SMTT(30), <1>1, <1>2, <1>3, <1>4, <1>10, NextByteGathers
<1> QED BY <1>4, <1>5, <1>6, <1>7, <1>8, <1>9, <1>10

\* g is what is held after each of n characters.
InChars(g, dst_len, chars, n) ==
    g = [i \in 0..n |-> IF i = 0 THEN [acc |-> 0, acc_len |-> 0, buf |-> <<>>, full |-> FALSE,
                                       dst_len |-> dst_len]
                        ELSE GetChar(g[i - 1], chars[i])]

LEMMA CharsExist ==
    ASSUME NEW dst_len, NEW chars, NEW n \in Nat
    PROVE  \E g : InChars(g, dst_len, chars, n)
<1> DEFINE T == {j \in Nat : \E g : InChars(g, dst_len, chars, j)}
           start == [acc |-> 0, acc_len |-> 0, buf |-> <<>>, full |-> FALSE, dst_len |-> dst_len]
<1>1. 0 \in T
  <2> DEFINE g == [i \in 0..0 |-> start]
  <2>1. \A i \in 0..0 : i = 0
    OBVIOUS
  <2>2. InChars(g, dst_len, chars, 0)
    BY <2>1 DEF InChars
  <2> QED BY <2>2
<1>2. ASSUME NEW j \in Nat, j \in T PROVE j + 1 \in T
  <2>1. PICK g : InChars(g, dst_len, chars, j)
    BY <1>2
  <2> DEFINE x == GetChar(g[j], chars[j + 1])
             f == [i \in 0..(j + 1) |-> IF i = j + 1 THEN x ELSE g[i]]
  <2>2. ASSUME NEW i \in 0..(j + 1)
        PROVE  f[i] = IF i = 0 THEN start ELSE GetChar(f[i - 1], chars[i])
    <3>1. i # 0 => i - 1 \in 0..j /\ i - 1 # j + 1
      OBVIOUS
    <3>2. i # 0 => f[i - 1] = g[i - 1]
      BY <3>1
    <3>3. CASE i = j + 1
      <4>1. i - 1 = j /\ i # 0 /\ f[i] = x
        BY <3>3
      <4> QED BY <3>2, <3>3, <4>1
    <3>4. CASE i # j + 1
      <4>1. i \in 0..j /\ f[i] = g[i]
        BY <3>4
      <4>2. g[i] = IF i = 0 THEN start ELSE GetChar(g[i - 1], chars[i])
        BY <2>1, <4>1 DEF InChars
      <4> QED BY <3>2, <4>1, <4>2
    <3> QED BY <3>3, <3>4
  <2>3. f = [i \in 0..(j + 1) |-> f[i]]
    OBVIOUS
  <2> HIDE DEF f
  <2>4. InChars(f, dst_len, chars, j + 1)
    BY <2>2, <2>3 DEF InChars
  <2> QED BY <2>4
<1>3. Nat \subseteq T
  <2> HIDE DEF T
  <2> QED BY <1>1, <1>2, AllNumbers
<1> QED BY <1>3

LEMMA getCharsFacts ==
    ASSUME NEW dst_len, NEW chars, Len(chars) \in Nat
    PROVE  InChars(getChars(dst_len, chars), dst_len, chars, Len(chars))
<1> DEFINE g == CHOOSE f : InChars(f, dst_len, chars, Len(chars))
<1>1. InChars(g, dst_len, chars, Len(chars))
  BY CharsExist
<1>2. getChars(dst_len, chars) = g
  BY DEF getChars, InChars
<1> QED BY <1>1, <1>2

LEMMA getCharsGather ==
    ASSUME NEW n \in Nat, NEW chars \in Seq(Base64Chars)
    PROVE  Gathered(getChars(n, chars)[Len(chars)], n, Len(chars))
<1> DEFINE g == getChars(n, chars)
           m == Len(chars)
           T == {i \in Nat : i <= m => Gathered(g[i], n, i)}
<1>0. m \in Nat /\ InChars(g, n, chars, m)
  BY LenProperties, getCharsFacts
<1> HIDE DEF g, m
<1>1. 0 \in T
  <2> DEFINE x == g[0]
  <2>1. x = [acc |-> 0, acc_len |-> 0, buf |-> <<>>, full |-> FALSE, dst_len |-> n]
    BY <1>0 DEF InChars
  <2>2. /\ DOMAIN x = {"acc", "acc_len", "buf", "full", "dst_len"}
        /\ x.acc = 0 /\ x.acc_len = 0 /\ x.buf = <<>> /\ x.full = FALSE /\ x.dst_len = n
    BY <2>1
  <2> HIDE DEF x
  <2>3. IsBytes(<<>>) /\ Len(<<>>) = 0
    BY EmptySeq DEF IsBytes
  <2>4. Gathered(x, n, 0)
    <3>1. 6 * 0 = 8 * 0 + 0
      OBVIOUS
    <3>2. 6 * 0 = 8 * Len(x.buf) + x.acc_len
      BY <2>2, <2>3, <3>1, Zenon
    <3>3. x.acc \in Nat /\ x.acc < 65536 /\ x.acc_len \in {0, 2, 4, 6}
      <4>1. x.acc = 0 /\ x.acc_len = 0
        BY <2>2
      <4> QED BY <4>1
    <3>5. x.full \in BOOLEAN
      BY <2>2, Zenon
    <3>4. IsBytes(x.buf) /\ Len(x.buf) <= n
      BY <2>2, <2>3
    <3> QED BY <2>2, <3>2, <3>3, <3>4, <3>5 DEF Gathered
  <2> QED BY <2>4 DEF x
<1>2. ASSUME NEW i \in Nat, i \in T PROVE i + 1 \in T
  <2> SUFFICES ASSUME i + 1 <= m PROVE Gathered(g[i + 1], n, i + 1)
    OBVIOUS
  <2>1. i + 1 \in 0..m /\ i + 1 # 0 /\ (i + 1) - 1 = i /\ i + 1 \in 1..m /\ i <= m
    BY <1>0
  <2>2. g[i + 1] = GetChar(g[i], chars[i + 1])
    BY <1>0, <2>1 DEF InChars
  <2>3. Gathered(g[i], n, i)
    BY <1>2, <2>1
  <2>4. chars[i + 1] \in Base64Chars
    BY <2>1, ElementOfSeq DEF m
  <2> QED BY <2>2, <2>3, <2>4, GetCharGathers
<1>3. Nat \subseteq T
  <2> HIDE DEF T
  <2> QED BY <1>1, <1>2, AllNumbers
<1> QED BY <1>0, <1>3 DEF g, m

\* The bytes of the characters that were read, as many as fit.
LEMMA from_base64Facts ==
    ASSUME NEW S, NEW str \in Seq(S), NEW n \in Nat, NEW b, b = from_base64(n, str)
    PROVE  IsBytes(b.buf) /\ Len(b.buf) <= n /\ b.str \in Seq(S)
<1> DEFINE k == Span(str, Base64Chars)
           chars == SubSeq(str, 1, k)
           g == getChars(n, chars)[k]
<1>1. k \in 0..Len(str) /\ \A i \in 1..k : str[i] \in Base64Chars
  BY SpanFacts
<1>2. k \in Nat /\ Len(chars) = k /\ \A i \in 1..k : chars[i] = str[i]
  BY <1>1, FirstFacts, LenProperties
<1>3. chars \in Seq(Base64Chars)
  <2>1. chars \in Seq(S)
    BY <1>1, FirstFacts
  <2> HIDE DEF chars, k
  <2>2. chars \in [1..k -> Base64Chars]
    BY <1>1, <1>2, <2>1, LenProperties
  <2> QED BY <1>2, <2>2
<1>4. b = [null |-> g.full \/ leftover(g), buf |-> g.buf, str |-> Rest(str, k)]
  BY DEF from_base64
<1> HIDE DEF k, chars
<1>5. Gathered(g, n, k)
  BY <1>2, <1>3, getCharsGather
<1> HIDE DEF g
<1>6. b.buf = g.buf /\ b.str = Rest(str, k)
  BY <1>4
<1> QED BY <1>2, <1>5, <1>6, RestFacts DEF Gathered

-----------------------------------------------------------------------------
(* decode_string. *)

\* A parse that came after p: what it changed of the context is neither a
\* buffer nor a length, unless it is one of those.
IsParse(p, S) ==
    DOMAIN p = {"str", "ctx", "ret"} /\ DOMAIN p.ctx = ContextFields /\ p.str \in Seq(S)

Reads(p, q, S, changed) ==
    /\ IsParse(q, S)
    /\ \A f \in {"salt", "saltlen", "out", "outlen"} \ changed : q.ctx[f] = p.ctx[f]

LEMMA ReadsOn ==
    ASSUME NEW S, NEW p, NEW q, NEW r, NEW changed,
           Reads(p, q, S, changed), Reads(q, r, S, changed)
    PROVE  Reads(p, r, S, changed)
BY DEF Reads

LEMMA FailReads ==
    ASSUME NEW S, NEW p, IsParse(p, S)
    PROVE  Reads(p, p, S, {}) /\ Reads(p, DecodingFail(p), S, {})
<1> DEFINE q == DecodingFail(p)
<1>1. DOMAIN q = DOMAIN p /\ q.ctx = p.ctx /\ q.str = p.str
  BY DEF IsParse, DecodingFail
<1> HIDE DEF q
<1>2. IsParse(q, S)
  BY <1>1 DEF IsParse
<1> QED BY <1>1, <1>2 DEF Reads, q

LEMMA CCReads ==
    ASSUME NEW S, NEW p, IsParse(p, S), NEW prefix, Len(prefix) \in Nat
    PROVE  Reads(p, CC(p, prefix), S, {})
<1> DEFINE q == [p EXCEPT !.str = Rest(@, Len(prefix))]
<1>1. Reads(p, q, S, {})
  <2>1. DOMAIN q = DOMAIN p /\ q.ctx = p.ctx /\ q.str = Rest(p.str, Len(prefix))
    BY DEF IsParse
  <2>2. Rest(p.str, Len(prefix)) \in Seq(S)
    BY RestFacts DEF IsParse
  <2> HIDE DEF q
  <2>3. IsParse(q, S)
    BY <2>1, <2>2 DEF IsParse
  <2> QED BY <2>1, <2>3 DEF Reads
<1>2. CC(p, prefix) = p \/ CC(p, prefix) = q \/ CC(p, prefix) = DecodingFail(p)
  BY DEF CC
<1> HIDE DEF q
<1> QED BY <1>1, <1>2, FailReads

LEMMA DecimalReads ==
    ASSUME NEW S, NEW p, IsParse(p, S), NEW f \in {"version", "m_cost", "t_cost", "lanes"}
    PROVE  Reads(p, DECIMAL_U32(p, f), S, {})
<1> DEFINE d == decode_decimal(p.str)
           q == [p EXCEPT !.str = d.str, !.ctx = [@ EXCEPT ![f] = d.v]]
<1>1. d.str \in Seq(S)
  <2>1. d.str = Rest(p.str, Span(p.str, Digits))
    BY DEF decode_decimal
  <2>2. p.str \in Seq(S)
    BY DEF IsParse
  <2>3. Span(p.str, Digits) \in Nat
    BY <2>2, SpanFacts, LenProperties
  <2> HIDE DEF d
  <2> QED BY <2>1, <2>2, <2>3, RestFacts
<1>2. DECIMAL_U32(p, f) = p \/ DECIMAL_U32(p, f) = q \/ DECIMAL_U32(p, f) = DecodingFail(p)
  BY DEF DECIMAL_U32
<1> HIDE DEF d
<1>3. Reads(p, q, S, {})
  <2> DEFINE ctx == [p.ctx EXCEPT ![f] = d.v]
  <2>1. DOMAIN q = DOMAIN p /\ q.ctx = ctx /\ q.str = d.str
    BY DEF IsParse
  <2>2. DOMAIN ctx = DOMAIN p.ctx
    OBVIOUS
  <2>3. \A g \in {"salt", "saltlen", "out", "outlen"} : g \in ContextFields /\ g # f
    BY DEF ContextFields
  <2>4. \A g \in {"salt", "saltlen", "out", "outlen"} : ctx[g] = p.ctx[g]
    BY <2>3 DEF IsParse
  <2> HIDE DEF q, ctx
  <2>5. IsParse(q, S)
    BY <1>1, <2>1, <2>2 DEF IsParse
  <2> QED BY <2>1, <2>4, <2>5 DEF Reads
<1> HIDE DEF q
<1> QED BY <1>2, <1>3, FailReads

LEMMA VersionReads ==
    ASSUME NEW S, NEW p, IsParse(p, S), NEW prefix, Len(prefix) \in Nat
    PROVE  Reads(p, CC_opt(p, prefix), S, {})
<1> DEFINE q == [p EXCEPT !.ctx.version = Version10]
           r == DECIMAL_U32(CC(p, prefix), "version")
<1>1. CC_opt(p, prefix) = p \/ CC_opt(p, prefix) = q \/ CC_opt(p, prefix) = r
  BY DEF CC_opt
<1>2. Reads(p, q, S, {})
  <2> DEFINE ctx == [p.ctx EXCEPT !.version = Version10]
  <2>1. DOMAIN q = DOMAIN p /\ q.ctx = ctx /\ q.str = p.str
    BY DEF IsParse
  <2>2. DOMAIN ctx = DOMAIN p.ctx
    OBVIOUS
  <2>3. \A g \in {"salt", "saltlen", "out", "outlen"} : ctx[g] = p.ctx[g]
    BY DEF IsParse, ContextFields
  <2> HIDE DEF q, ctx
  <2>4. IsParse(q, S)
    BY <2>1, <2>2 DEF IsParse
  <2> QED BY <2>1, <2>3, <2>4 DEF Reads
<1>3. Reads(p, r, S, {})
  <2> DEFINE s == CC(p, prefix)
  <2>1. Reads(p, s, S, {}) /\ IsParse(s, S)
    BY CCReads DEF Reads
  <2> HIDE DEF s
  <2>2. Reads(s, DECIMAL_U32(s, "version"), S, {})
    BY <2>1, DecimalReads
  <2> QED BY <2>1, <2>2, ReadsOn DEF s
<1> HIDE DEF q, r
<1> QED BY <1>1, <1>2, <1>3, FailReads

\* A salt or an output: no more is written than its length in the context allows.
LEMMA BINReads ==
    ASSUME NEW S, NEW p, IsParse(p, S), NEW buf \in {"salt", "out"},
           NEW len \in {"saltlen", "outlen"}, p.ctx[len] \in Nat,
           NEW q, q = BIN(p, buf, len)
    PROVE  /\ Reads(p, q, S, {buf, len})
           /\ q.ctx[buf] = p.ctx[buf] \/ Len(q.ctx[buf]) <= p.ctx[len]
<1> DEFINE b == from_base64(p.ctx[len], p.str)
           ctx1 == [p.ctx EXCEPT ![buf] = b.buf]
           ctx2 == [ctx1 EXCEPT ![len] = Len(b.buf)]
           q1 == [p EXCEPT !.ctx = ctx1]
           q2 == [q1 EXCEPT !.str = b.str, !.ctx = ctx2]
<1>1. Len(b.buf) <= p.ctx[len] /\ b.str \in Seq(S)
  BY from_base64Facts DEF IsParse
<1>2. q = p \/ q = DecodingFail(q1) \/ q = q2
  BY DEF BIN
<1>3. p.ctx = p.ctx /\ DOMAIN p = {"str", "ctx", "ret"} /\ DOMAIN p.ctx = ContextFields
      /\ p.str \in Seq(S)
  BY DEF IsParse
<1>4. buf \in ContextFields /\ len \in ContextFields /\ buf # len
  BY DEF ContextFields
<1> HIDE DEF b
<1>5. /\ DOMAIN ctx1 = ContextFields /\ ctx1[buf] = b.buf
      /\ \A f \in ContextFields \ {buf, len} : ctx1[f] = p.ctx[f]
  BY <1>3, <1>4
<1>6. q1.ctx = ctx1 /\ DOMAIN q1 = {"str", "ctx", "ret"} /\ q1.str = p.str
  BY <1>3
<1> HIDE DEF ctx1
<1>7. /\ DOMAIN ctx2 = ContextFields /\ ctx2[buf] = b.buf
      /\ \A f \in ContextFields \ {buf, len} : ctx2[f] = p.ctx[f]
  BY <1>4, <1>5
<1>8. q2.ctx = ctx2 /\ DOMAIN q2 = {"str", "ctx", "ret"} /\ q2.str = b.str
  BY <1>6
<1> HIDE DEF ctx2, q1, q2
<1>9. {"salt", "saltlen", "out", "outlen"} \subseteq ContextFields
  BY DEF ContextFields
<1>10. IsParse(q1, S) /\ Reads(p, q1, S, {buf, len}) /\ Len(q1.ctx[buf]) <= p.ctx[len]
  BY <1>1, <1>3, <1>5, <1>6, <1>9 DEF IsParse, Reads
<1>11. Reads(p, q2, S, {buf, len}) /\ Len(q2.ctx[buf]) <= p.ctx[len]
  BY <1>1, <1>7, <1>8, <1>9 DEF IsParse, Reads
<1>12. CASE q = p
  BY <1>12 DEF Reads
<1>13. CASE q = DecodingFail(q1)
  <2>1. Reads(q1, q, S, {})
    BY <1>10, <1>13, FailReads
  <2>2. q.ctx[buf] = q1.ctx[buf] /\ IsParse(q, S)
    BY <2>1 DEF Reads
  <2>3. Reads(q1, q, S, {buf, len})
    BY <2>1 DEF Reads
  <2>4. Reads(p, q, S, {buf, len})
    BY <1>10, <2>3, ReadsOn
  <2> QED BY <1>10, <2>2, <2>4
<1>14. CASE q = q2
  BY <1>11, <1>14
<1> QED BY <1>2, <1>12, <1>13, <1>14

LEMMA PrefixLengths ==
    ASSUME NEW type \in Types
    PROVE  /\ Len(<<"$">>) \in Nat /\ Len(type_string(type)) \in Nat
           /\ Len(<<"$", "v", "=">>) \in Nat /\ Len(<<"$", "m", "=">>) \in Nat
           /\ Len(<<",", "t", "=">>) \in Nat /\ Len(<<",", "p", "=">>) \in Nat
<1>1. type \in {"d", "i", "id"}
  BY DEF Types
<1>2. Len(type_string(type)) \in Nat
  BY <1>1 DEF type_string
<1> QED BY <1>2

LEMMA ParametersRead ==
    ASSUME NEW S, NEW p, IsParse(p, S), NEW type \in Types
    PROVE  Reads(p, Parameters(p, type), S, {})
<1> DEFINE p1 == CC(p, <<"$">>)
           p2 == CC(p1, type_string(type))
           p3 == CC_opt(p2, <<"$", "v", "=">>)
           p4 == CC(p3, <<"$", "m", "=">>)
           p5 == DECIMAL_U32(p4, "m_cost")
           p6 == CC(p5, <<",", "t", "=">>)
           p7 == DECIMAL_U32(p6, "t_cost")
           p8 == CC(p7, <<",", "p", "=">>)
           p9 == DECIMAL_U32(p8, "lanes")
<1>0. Parameters(p, type) = p9
  BY DEF Parameters
<1>1. Reads(p, p1, S, {}) /\ IsParse(p1, S)
  BY PrefixLengths, CCReads DEF Reads
<1> HIDE DEF p1
<1>2. Reads(p1, p2, S, {}) /\ IsParse(p2, S)
  BY <1>1, PrefixLengths, CCReads DEF Reads
<1> HIDE DEF p2
<1>3. Reads(p2, p3, S, {}) /\ IsParse(p3, S)
  BY <1>2, PrefixLengths, VersionReads DEF Reads
<1> HIDE DEF p3
<1>4. Reads(p3, p4, S, {}) /\ IsParse(p4, S)
  BY <1>3, PrefixLengths, CCReads DEF Reads
<1> HIDE DEF p4
<1>5. Reads(p4, p5, S, {}) /\ IsParse(p5, S)
  BY <1>4, DecimalReads DEF Reads
<1> HIDE DEF p5
<1>6. Reads(p5, p6, S, {}) /\ IsParse(p6, S)
  BY ZenonT(30), <1>5, PrefixLengths, CCReads DEF Reads
<1> HIDE DEF p6
<1>7. Reads(p6, p7, S, {}) /\ IsParse(p7, S)
  BY <1>6, DecimalReads DEF Reads
<1> HIDE DEF p7
<1>8. Reads(p7, p8, S, {}) /\ IsParse(p8, S)
  BY ZenonT(30), <1>7, PrefixLengths, CCReads DEF Reads
<1> HIDE DEF p8
<1>9. Reads(p8, p9, S, {})
  BY <1>8, DecimalReads
<1> HIDE DEF p9
<1>10. Reads(p, p3, S, {})
  BY <1>1, <1>2, <1>3, ReadsOn
<1>11. Reads(p, p6, S, {})
  BY <1>4, <1>5, <1>6, <1>10, ReadsOn
<1>12. Reads(p, p9, S, {})
  BY <1>7, <1>8, <1>9, <1>11, ReadsOn
<1> QED BY <1>0, <1>12

LEMMA SaltReads ==
    ASSUME NEW S, NEW p, IsParse(p, S), p.ctx.saltlen \in Nat, NEW q, q = BIN(p, "salt", "saltlen")
    PROVE  /\ IsParse(q, S) /\ q.ctx.out = p.ctx.out /\ q.ctx.outlen = p.ctx.outlen
           /\ q.ctx.salt = p.ctx.salt \/ Len(q.ctx.salt) <= p.ctx.saltlen
<1> DEFINE buf == "salt"
           len == "saltlen"
<1>1. buf \in {"salt", "out"} /\ len \in {"saltlen", "outlen"} /\ p.ctx[len] \in Nat
      /\ q = BIN(p, buf, len)
  OBVIOUS
<1> HIDE DEF buf, len
<1>2. /\ Reads(p, q, S, {buf, len})
      /\ q.ctx[buf] = p.ctx[buf] \/ Len(q.ctx[buf]) <= p.ctx[len]
  BY <1>1, BINReads
<1> QED BY <1>2 DEF Reads, buf, len

LEMMA OutputReads ==
    ASSUME NEW S, NEW p, IsParse(p, S), p.ctx.outlen \in Nat, NEW q, q = BIN(p, "out", "outlen")
    PROVE  /\ IsParse(q, S) /\ q.ctx.salt = p.ctx.salt
           /\ q.ctx.out = p.ctx.out \/ Len(q.ctx.out) <= p.ctx.outlen
<1> DEFINE buf == "out"
           len == "outlen"
<1>1. buf \in {"salt", "out"} /\ len \in {"saltlen", "outlen"} /\ p.ctx[len] \in Nat
      /\ q = BIN(p, buf, len)
  OBVIOUS
<1> HIDE DEF buf, len
<1>2. /\ Reads(p, q, S, {buf, len})
      /\ q.ctx[buf] = p.ctx[buf] \/ Len(q.ctx[buf]) <= p.ctx[len]
  BY <1>1, BINReads
<1> QED BY <1>2 DEF Reads, buf, len

\* What was in the buffers is still there, or something that fits into them.
LEMMA SaltAndOutputRead ==
    ASSUME NEW S, NEW p, IsParse(p, S), p.ctx.saltlen \in Nat, p.ctx.outlen \in Nat,
           NEW q, q = SaltAndOutput(p)
    PROVE  /\ IsParse(q, S)
           /\ q.ctx.salt = p.ctx.salt \/ Len(q.ctx.salt) <= p.ctx.saltlen
           /\ q.ctx.out = p.ctx.out \/ Len(q.ctx.out) <= p.ctx.outlen
<1> DEFINE p1 == CC(p, <<"$">>)
           p2 == BIN(p1, "salt", "saltlen")
           p3 == CC(p2, <<"$">>)
           p4 == BIN(p3, "out", "outlen")
<1>0. q = p4
  BY DEF SaltAndOutput
<1>a. Len(<<"$">>) \in Nat
  OBVIOUS
<1>1. Reads(p, p1, S, {}) /\ IsParse(p1, S)
  BY <1>a, CCReads DEF Reads
<1> HIDE DEF p1
<1>2. /\ p1.ctx.salt = p.ctx.salt /\ p1.ctx.saltlen = p.ctx.saltlen
      /\ p1.ctx.out = p.ctx.out /\ p1.ctx.outlen = p.ctx.outlen
  BY <1>1 DEF Reads
<1>3. /\ IsParse(p2, S) /\ p2.ctx.out = p.ctx.out /\ p2.ctx.outlen = p.ctx.outlen
      /\ p2.ctx.salt = p.ctx.salt \/ Len(p2.ctx.salt) <= p.ctx.saltlen
  <2>1. p1.ctx.saltlen \in Nat
    BY <1>2
  <2> HIDE DEF p2
  <2>2. /\ IsParse(p2, S) /\ p2.ctx.out = p1.ctx.out /\ p2.ctx.outlen = p1.ctx.outlen
        /\ p2.ctx.salt = p1.ctx.salt \/ Len(p2.ctx.salt) <= p1.ctx.saltlen
    BY <1>1, <2>1, SaltReads DEF p2
  <2> QED BY <1>2, <2>2
<1> HIDE DEF p2
<1>5. Reads(p2, p3, S, {}) /\ IsParse(p3, S)
  BY <1>a, <1>3, CCReads DEF Reads
<1> HIDE DEF p3
<1>6. p3.ctx.salt = p2.ctx.salt /\ p3.ctx.out = p.ctx.out /\ p3.ctx.outlen = p.ctx.outlen
  BY <1>3, <1>5 DEF Reads
<1>7. /\ IsParse(p4, S) /\ p4.ctx.salt = p3.ctx.salt
      /\ p4.ctx.out = p3.ctx.out \/ Len(p4.ctx.out) <= p3.ctx.outlen
  <2>1. p3.ctx.outlen \in Nat
    BY <1>6
  <2> QED BY <1>5, <2>1, OutputReads
<1> HIDE DEF p4
<1> QED BY <1>0, <1>3, <1>6, <1>7

\* decode_string leaves the salt and the output alone or writes what fits.
THEOREM DecodeString ==
    ASSUME NEW S, NEW str \in Seq(S), NEW c, DOMAIN c = ContextFields,
           c.saltlen \in Nat, c.outlen \in Nat, NEW type,
           NEW d, d = decode_string(c, str, type)
    PROVE  /\ d.ctx.salt = c.salt \/ Len(d.ctx.salt) <= c.saltlen
           /\ d.ctx.out = c.out \/ Len(d.ctx.out) <= c.outlen
<1> DEFINE start == [str |-> str, ctx |-> c, ret |-> "OK"]
           p == Parameters(start, type)
           q == SaltAndOutput(p)
           r == [q EXCEPT !.ctx = Defaults(@)]
<1>0. d = IF type \notin Types THEN [start EXCEPT !.ret = "INCORRECT_TYPE"]
          ELSE IF q.ret # "OK" THEN q ELSE Validated(r)
  BY DEF decode_string
<1>1. IsParse(start, S) /\ start.ctx = c
  BY DEF IsParse
<1>2. CASE type \notin Types
  BY <1>0, <1>2
<1>3. CASE type \in Types
  <2> HIDE DEF start
  <2>1. Reads(start, p, S, {})
    BY <1>1, <1>3, ParametersRead
  <2> HIDE DEF p
  <2>2. IsParse(p, S) /\ p.ctx.salt = c.salt /\ p.ctx.saltlen = c.saltlen
        /\ p.ctx.out = c.out /\ p.ctx.outlen = c.outlen
    BY <1>1, <2>1 DEF Reads
  <2>3. /\ IsParse(q, S)
        /\ q.ctx.salt = c.salt \/ Len(q.ctx.salt) <= c.saltlen
        /\ q.ctx.out = c.out \/ Len(q.ctx.out) <= c.outlen
    BY <2>2, SaltAndOutputRead
  <2> HIDE DEF q
  <2>4. Defaults(q.ctx).salt = q.ctx.salt /\ Defaults(q.ctx).out = q.ctx.out
    BY <2>3 DEF Defaults, IsParse, ContextFields
  <2>5. r.ctx = Defaults(q.ctx) /\ DOMAIN r = {"str", "ctx", "ret"}
    BY <2>3 DEF IsParse
  <2> HIDE DEF r
  <2>6. Validated(r).ctx = r.ctx
    BY <2>5 DEF Validated
  <2> QED BY <1>0, <1>3, <2>3, <2>4, <2>5, <2>6
<1> QED BY <1>2, <1>3

-----------------------------------------------------------------------------
(* Characters and the numbers they stand for. *)

LEMMA CharsDiffer ==
    ASSUME NEW i \in 1..64, NEW j \in 1..64, Base64[i] = Base64[j]
    PROVE  i = j
BY DEF Base64

LEMMA CharToByte ==
    ASSUME NEW i \in 1..64
    PROVE  b64_char_to_byte[Base64[i]] = i - 1
<1> DEFINE c == Base64[i]
           j == CHOOSE k \in DOMAIN Base64 : Base64[k] = c
<1>1. c \in Base64Chars /\ i \in DOMAIN Base64
  BY Base64Facts
<1>2. j \in DOMAIN Base64 /\ Base64[j] = c
  BY <1>1
<1>3. b64_char_to_byte[c] = j - 1
  BY <1>1 DEF b64_char_to_byte
<1> HIDE DEF j
<1>4. j = i
  BY <1>2, Base64Facts, CharsDiffer
<1> QED BY <1>3, <1>4

\* What ends a number or a text in base64.
LEMMA SeparatorIsNoChar == "$" \notin Base64Chars /\ "$" \notin Digits /\ "," \notin Digits
<1>1. ASSUME NEW i \in 1..64 PROVE Base64[i] # "$"
  BY DEF Base64
<1>2. "$" \notin Base64Chars
  BY <1>1, Base64Facts DEF Base64Chars
<1>3. ASSUME NEW i \in 53..62 PROVE Base64[i] \in {"0", "1", "2", "3", "4", "5", "6", "7", "8", "9"}
  BY DEF Base64
<1>4. Digits \subseteq {"0", "1", "2", "3", "4", "5", "6", "7", "8", "9"}
  BY <1>3 DEF Digits
<1>5. "," \notin {"0", "1", "2", "3", "4", "5", "6", "7", "8", "9"}
  BY Zenon
<1> QED BY <1>2, <1>4, <1>5, Base64Facts

\* The digits, and what follows the first of a number.
LEMMA DigitAt ==
    ASSUME NEW k \in 0..9
    PROVE  /\ Base64[53 + k] \in Digits /\ DigitValue(Base64[53 + k]) = k
           /\ Base64[53 + k] = "0" <=> k = 0
<1>1. 53 + k \in 1..64 /\ 53 + k \in 53..62 /\ (53 + k) - 1 - 52 = k
  OBVIOUS
<1>2. DigitValue(Base64[53 + k]) = k
  BY <1>1, CharToByte DEF DigitValue
<1>3. Base64[53] = "0"
  BY DEF Base64
<1>4. Base64[53 + k] = "0" <=> k = 0
  <2> DEFINE i == 53 + k
  <2>1. i \in 1..64 /\ 53 \in 1..64 /\ (i = 53 <=> k = 0)
    BY <1>1
  <2> HIDE DEF i
  <2>2. Base64[i] = Base64[53] => i = 53
    BY <2>1, CharsDiffer
  <2>3. Base64[i] = "0" <=> k = 0
    BY <1>3, <2>1, <2>2
  <2> QED BY <2>3 DEF i
<1> QED BY <1>1, <1>2, <1>4, Base64Facts

LEMMA DigitValues ==
    ASSUME NEW c \in Digits
    PROVE  DigitValue(c) \in 0..9
<1>1. PICK i \in 53..62 : c = Base64[i]
  BY DEF Digits
<1>2. i - 53 \in 0..9 /\ 53 + (i - 53) = i
  OBVIOUS
<1> QED BY <1>1, <1>2, DigitAt

-----------------------------------------------------------------------------
(* decode_decimal. *)

\* g is the values of the first n of these digits.
InDigits(g, digits, n) ==
    g = [i \in 0..n |-> IF i = 0 THEN 0 ELSE AddDigit(g[i - 1], digits[i])]

LEMMA DigitsExist ==
    ASSUME NEW digits, NEW n \in Nat
    PROVE  \E g : InDigits(g, digits, n)
<1> DEFINE T == {j \in Nat : \E g : InDigits(g, digits, j)}
<1>1. 0 \in T
  <2> DEFINE g == [i \in 0..0 |-> 0]
  <2>1. \A i \in 0..0 : i = 0
    OBVIOUS
  <2>2. InDigits(g, digits, 0)
    BY <2>1 DEF InDigits
  <2> QED BY <2>2
<1>2. ASSUME NEW j \in Nat, j \in T PROVE j + 1 \in T
  <2>1. PICK g : InDigits(g, digits, j)
    BY <1>2
  <2> DEFINE x == AddDigit(g[j], digits[j + 1])
             f == [i \in 0..(j + 1) |-> IF i = j + 1 THEN x ELSE g[i]]
  <2>2. ASSUME NEW i \in 0..(j + 1)
        PROVE  f[i] = IF i = 0 THEN 0 ELSE AddDigit(f[i - 1], digits[i])
    <3>1. i # 0 => i - 1 \in 0..j /\ i - 1 # j + 1
      OBVIOUS
    <3>2. i # 0 => f[i - 1] = g[i - 1]
      BY <3>1
    <3>3. CASE i = j + 1
      <4>1. i - 1 = j /\ i # 0 /\ f[i] = x
        BY <3>3
      <4> QED BY <3>2, <3>3, <4>1
    <3>4. CASE i # j + 1
      <4>1. i \in 0..j /\ f[i] = g[i]
        BY <3>4
      <4>2. g[i] = IF i = 0 THEN 0 ELSE AddDigit(g[i - 1], digits[i])
        BY <2>1, <4>1 DEF InDigits
      <4> QED BY <3>2, <4>1, <4>2
    <3> QED BY <3>3, <3>4
  <2>3. f = [i \in 0..(j + 1) |-> f[i]]
    OBVIOUS
  <2> HIDE DEF f
  <2>4. InDigits(f, digits, j + 1)
    BY <2>2, <2>3 DEF InDigits
  <2> QED BY <2>4
<1>3. Nat \subseteq T
  <2> HIDE DEF T
  <2> QED BY <1>1, <1>2, AllNumbers
<1> QED BY <1>3

LEMMA addDigitsFacts ==
    ASSUME NEW digits, Len(digits) \in Nat
    PROVE  InDigits(addDigits(digits), digits, Len(digits))
<1> DEFINE g == CHOOSE f : InDigits(f, digits, Len(digits))
<1>1. InDigits(g, digits, Len(digits))
  BY DigitsExist
<1>2. addDigits(digits) = g
  BY DEF addDigits, InDigits
<1> QED BY <1>1, <1>2

LEMMA SameDigits ==
    ASSUME NEW s, NEW t, NEW n \in Nat, NEW m \in Nat, n <= m, NEW g, NEW h,
           InDigits(g, s, n), InDigits(h, t, m), \A i \in 1..n : s[i] = t[i]
    PROVE  g[n] = h[n]
<1> DEFINE T == {j \in Nat : j <= n => g[j] = h[j]}
<1>1. 0 \in T
  BY DEF InDigits
<1>2. ASSUME NEW j \in Nat, j \in T PROVE j + 1 \in T
  <2> SUFFICES ASSUME j + 1 <= n PROVE g[j + 1] = h[j + 1]
    OBVIOUS
  <2>1. j + 1 \in 0..n /\ j + 1 \in 0..m /\ j + 1 \in 1..n /\ j + 1 # 0 /\ (j + 1) - 1 = j
    OBVIOUS
  <2>2. g[j] = h[j] /\ s[j + 1] = t[j + 1]
    BY <1>2, <2>1
  <2>3. g[j + 1] = AddDigit(g[j], s[j + 1])
    BY <2>1 DEF InDigits
  <2>4. h[j + 1] = AddDigit(h[j], t[j + 1])
    BY <2>1 DEF InDigits
  <2> QED BY <2>2, <2>3, <2>4
<1>3. Nat \subseteq T
  <2> HIDE DEF T
  <2> QED BY <1>1, <1>2, AllNumbers
<1> QED BY <1>3

LEMMA OneDigitMore ==
    ASSUME NEW S, NEW s \in Seq(S), NEW c \in S
    PROVE  addDigits(Append(s, c))[Len(s) + 1] = AddDigit(addDigits(s)[Len(s)], c)
<1> DEFINE t == Append(s, c)
           n == Len(s)
           m == n + 1
           g == addDigits(s)
           h == addDigits(t)
<1>1. n \in Nat /\ m \in Nat /\ Len(t) = m /\ t[m] = c /\ \A i \in 1..n : s[i] = t[i]
  BY LenProperties, AppendProperties
<1> HIDE DEF t, n
<1>2. InDigits(g, s, n) /\ InDigits(h, t, m)
  BY <1>1, addDigitsFacts DEF n
<1> HIDE DEF g, h
<1>3. g[n] = h[n]
  BY <1>1, <1>2, SameDigits
<1>4. m \in 0..m /\ m # 0 /\ m - 1 = n
  BY <1>1
<1> HIDE DEF m
<1>5. h[m] = AddDigit(h[n], t[m])
  BY <1>2, <1>4 DEF InDigits
<1>6. h[m] = AddDigit(g[n], c)
  BY <1>1, <1>3, <1>5
<1> QED BY <1>6 DEF t, n, m, g, h

LEMMA NoDigit == addDigits(<<>>)[0] = 0
<1>1. Len(<<>>) = 0 /\ 0 \in Nat
  OBVIOUS
<1>2. InDigits(addDigits(<<>>), <<>>, 0)
  BY <1>1, addDigitsFacts
<1> HIDE DEF addDigits
<1> QED BY <1>2 DEF InDigits

\* One digit more does not overflow on the way to a value that does not.
LEMMA ValueOfDigits ==
    ASSUME NEW a \in Nat, NEW k \in 0..9, a * 10 + k <= ULONG_MAX
    PROVE  AddDigit(a, Base64[53 + k]) = a * 10 + k
<1>1. DigitValue(Base64[53 + k]) = k
  BY DigitAt
<1>2. ULONG_MAX \in Nat
  BY SizesAreNumbers
<1>3. ~ (a > ULONG_MAX \div 10) /\ ~ (k > ULONG_MAX - a * 10) /\ a # -1
  BY <1>2
<1> QED BY <1>1, <1>3 DEF AddDigit

\* The decimals of a number are read as this number, and begin with no 0.
IsValue(n) ==
    /\ addDigits(Decimal[n])[Len(Decimal[n])] = n
    /\ Decimal[n][1] = "0" => Len(Decimal[n]) = 1

LEMMA DecimalValue == \A n \in 0..UINT32_MAX : IsValue(n)
<1> DEFINE T == {n \in Nat : \A k \in 0..n : k <= UINT32_MAX => IsValue(k) /\ (Decimal[k][1] = "0" => k = 0)}
<1>0. ASSUME NEW k \in 0..9, k <= UINT32_MAX
      PROVE  IsValue(k) /\ (Decimal[k][1] = "0" => k = 0)
  <2> DEFINE x == Base64[53 + k]
  <2>1. k \in 0..UINT32_MAX /\ k < 10
    BY <1>0, SizesAreNumbers
  <2>2. Decimal[k] = <<x>>
    BY <2>1, DecimalAt
  <2>3. x \in Digits /\ (x = "0" <=> k = 0)
    BY DigitAt
  <2>4. AddDigit(0, x) = k
    <3>1. 0 * 10 + k <= ULONG_MAX /\ 0 * 10 + k = k /\ 0 \in Nat
      BY SizesAreNumbers
    <3> QED BY <3>1, ValueOfDigits
  <2> HIDE DEF x
  <2>5. addDigits(<<x>>)[1] = k
    <3>1. <<>> \in Seq(Digits) /\ Append(<<>>, x) = <<x>> /\ Len(<<>>) = 0 /\ 0 + 1 = 1
      OBVIOUS
    <3>2. addDigits(Append(<<>>, x))[Len(<<>>) + 1] = AddDigit(addDigits(<<>>)[Len(<<>>)], x)
      BY <2>3, <3>1, OneDigitMore
    <3> QED BY <2>4, <3>1, <3>2, NoDigit
  <2>6. Len(<<x>>) = 1 /\ <<x>>[1] = x
    OBVIOUS
  <2> QED BY <2>2, <2>3, <2>5, <2>6 DEF IsValue
<1>1. 0 \in T
  BY <1>0
<1>2. ASSUME NEW n \in Nat, n \in T PROVE n + 1 \in T
  <2> DEFINE m == n + 1
             q == m \div 10
             k == m % 10
             x == Base64[53 + k]
  <2> SUFFICES ASSUME m <= UINT32_MAX PROVE IsValue(m) /\ (Decimal[m][1] = "0" => m = 0)
    BY <1>2
  <2>1. CASE m < 10
    BY <1>0, <2>1
  <2>2. CASE m >= 10
    <3>1. q \in Nat /\ k \in 0..9 /\ m = q * 10 + k /\ q < m /\ q >= 1
      BY <2>2, Tenth
    <3>2. m \in 0..UINT32_MAX /\ q \in 0..UINT32_MAX /\ q \in 0..n /\ ~ (m < 10)
      BY <2>2, <3>1, SizesAreNumbers
    <3>3. Decimal[m] = Append(Decimal[q], x)
      BY <3>2, DecimalAt
    <3>4. IsValue(q) /\ Decimal[q][1] # "0"
      BY <1>2, <3>1, <3>2
    <3>5. Decimal[q] \in Seq(Digits) /\ Len(Decimal[q]) \in Nat /\ Len(Decimal[q]) >= 1
      BY <3>2, DecimalLength DEF IsDecimal
    <3>6. x \in Digits
      BY <3>1, DigitAt
    <3>7. AddDigit(q, x) = m
      <4>1. q * 10 + k <= ULONG_MAX
        BY <3>1, SizesAreNumbers
      <4> HIDE DEF q, k, m
      <4> QED BY <3>1, <4>1, ValueOfDigits
    <3> HIDE DEF x, q, k, m
    <3>8. /\ Len(Append(Decimal[q], x)) = Len(Decimal[q]) + 1
          /\ Append(Decimal[q], x)[1] = Decimal[q][1]
      BY <3>5, <3>6, AppendProperties
    <3>9. addDigits(Append(Decimal[q], x))[Len(Decimal[q]) + 1] = m
      BY <3>4, <3>5, <3>6, <3>7, OneDigitMore DEF IsValue
    <3> QED BY <3>3, <3>4, <3>8, <3>9 DEF IsValue
  <2> QED BY <2>1, <2>2
<1>3. Nat \subseteq T
  <2> HIDE DEF T
  <2> QED BY <1>1, <1>2, AllNumbers
<1>4. ASSUME NEW n \in 0..UINT32_MAX PROVE IsValue(n)
  <2>1. n \in Nat /\ n \in 0..n /\ n <= UINT32_MAX /\ n \in T
    BY <1>3, SizesAreNumbers
  <2> QED BY <2>1
<1> QED BY <1>4

-----------------------------------------------------------------------------
(* A string that begins with what is read, and goes on with the rest. *)

LEMMA SpanIs ==
    ASSUME NEW S, NEW str \in Seq(S), NEW C, NEW k \in 0..Len(str),
           \A i \in 1..k : str[i] \in C, k = Len(str) \/ str[k + 1] \notin C
    PROVE  Span(str, C) = k
<1> DEFINE s == Span(str, C)
<1>1. /\ s \in 0..Len(str) /\ Len(str) \in Nat
      /\ \A i \in 1..s : str[i] \in C
      /\ s < Len(str) => str[s + 1] \notin C
  BY SpanFacts, LenProperties
<1> HIDE DEF s
<1>2. ASSUME s < k PROVE FALSE
  <2>1. s + 1 \in 1..k /\ s < Len(str)
    BY <1>1, <1>2
  <2> QED BY <1>1, <2>1
<1>3. ASSUME k < s PROVE FALSE
  <2>1. k + 1 \in 1..s /\ k # Len(str)
    BY <1>1, <1>3
  <2> QED BY <1>1, <2>1
<1> QED BY <1>1, <1>2, <1>3 DEF s

LEMMA Split ==
    ASSUME NEW S, NEW x \in Seq(S), NEW rest \in Seq(S)
    PROVE  /\ x \o rest \in Seq(S) /\ Len(x) \in 0..Len(x \o rest) /\ Len(x) \in Nat
           /\ SubSeq(x \o rest, 1, Len(x)) = x
           /\ Rest(x \o rest, Len(x)) = rest
           /\ \A i \in 1..Len(x) : (x \o rest)[i] = x[i]
           /\ rest = <<>> => Len(x) = Len(x \o rest)
           /\ rest # <<>> => (x \o rest)[Len(x) + 1] = rest[1]
<1> DEFINE s == x \o rest
           k == Len(x)
           m == Len(rest)
<1>1. /\ s \in Seq(S) /\ Len(s) = k + m /\ k \in Nat /\ m \in Nat
      /\ \A i \in 1..(k + m) : s[i] = IF i <= k THEN x[i] ELSE rest[i - k]
  BY ConcatProperties, LenProperties
<1>2. rest = <<>> => m = 0
  BY EmptySeq
<1>3. rest # <<>> => m # 0
  BY EmptySeq
<1> HIDE DEF s
<1>4. \A i \in 1..k : s[i] = x[i]
  BY <1>1
<1>5. rest # <<>> => s[k + 1] = rest[1]
  <2>1. ASSUME rest # <<>> PROVE k + 1 \in 1..(k + m) /\ ~ (k + 1 <= k) /\ (k + 1) - k = 1
    BY <1>1, <1>3, <2>1
  <2> QED BY <1>1, <2>1
<1>6. SubSeq(s, 1, k) = x
  <2> DEFINE t == SubSeq(s, 1, k)
  <2>1. k \in 0..Len(s)
    BY <1>1
  <2>2. t \in Seq(S) /\ Len(t) = k /\ \A i \in 1..k : t[i] = s[i]
    BY <1>1, <2>1, FirstFacts
  <2> HIDE DEF t
  <2>3. \A i \in 1..Len(t) : t[i] = x[i]
    BY <1>4, <2>2
  <2>4. t = x
    BY <2>2, <2>3, SeqEqual
  <2> QED BY <2>4 DEF t
<1>7. Rest(s, k) = rest
  <2> DEFINE t == Rest(s, k)
  <2>1. t \in Seq(S) /\ Len(t) = Len(s) - k /\ \A i \in 1..(Len(s) - k) : t[i] = s[k + i]
    <3>1. k \in Nat /\ k <= Len(s) /\ s \in Seq(S)
      BY <1>1
    <3> HIDE DEF k
    <3> QED BY <3>1, RestFacts
  <2> HIDE DEF t
  <2>2. Len(t) = m
    BY <1>1, <2>1
  <2>3. ASSUME NEW i \in 1..m PROVE t[i] = rest[i]
    <3>1. i \in 1..(Len(s) - k) /\ k + i \in 1..(k + m) /\ ~ (k + i <= k) /\ (k + i) - k = i
      BY <1>1
    <3> QED BY <1>1, <2>1, <3>1
  <2>4. t = rest
    BY <2>1, <2>2, <2>3, SeqEqual
  <2> QED BY <2>4 DEF t
<1>8. k \in 0..Len(s)
  BY <1>1
<1>9. rest = <<>> => k = Len(s)
  BY <1>1, <1>2
<1>10. s \in Seq(S) /\ k \in Nat
  BY <1>1
<1> QED BY <1>4, <1>5, <1>6, <1>7, <1>8, <1>9, <1>10 DEF s

\* The number is read, and what follows it is left.
LEMMA DecodeDecimal ==
    ASSUME NEW n \in 0..UINT32_MAX, NEW S, Digits \subseteq S, NEW rest \in Seq(S),
           rest # <<>>, rest[1] \notin Digits,
           NEW d, d = decode_decimal(Decimal[n] \o rest)
    PROVE  ~ d.null /\ d.v = n /\ d.str = rest
<1> DEFINE x == Decimal[n]
           str == x \o rest
           k == Len(x)
<1>1. IsDecimal(n) /\ IsValue(n)
  BY DecimalLength, DecimalValue
<1>2. x \in Seq(Digits) /\ x \in Seq(S) /\ k >= 1 /\ addDigits(x)[k] = n /\ (x[1] = "0" => k = 1)
  BY <1>1, SeqMonotonic DEF IsDecimal, IsValue
<1> HIDE DEF x
<1>3. /\ str \in Seq(S) /\ k \in 0..Len(str) /\ k \in Nat
      /\ SubSeq(str, 1, k) = x /\ Rest(str, k) = rest
      /\ \A i \in 1..k : str[i] = x[i]
      /\ str[k + 1] = rest[1]
  BY <1>2, Split
<1>4. \A i \in 1..k : x[i] \in Digits
  BY <1>2, ElementOfSeq
<1> HIDE DEF str, k
<1>5. Span(str, Digits) = k
  <2>1. \A i \in 1..k : str[i] \in Digits
    BY <1>3, <1>4
  <2>2. str[k + 1] \notin Digits
    BY <1>3
  <2> QED BY <1>3, <2>1, <2>2, SpanIs
<1>6. /\ d.null = (addDigits(SubSeq(str, 1, k))[k] = -1 \/ k = 0 \/ (str[1] = "0" /\ k # 1))
      /\ d.v = addDigits(SubSeq(str, 1, k))[k]
      /\ d.str = Rest(str, k)
  BY <1>5 DEF decode_decimal, str, x
<1>7. d.v = n /\ d.str = rest /\ d.null = (n = -1 \/ k = 0 \/ (str[1] = "0" /\ k # 1))
  BY <1>2, <1>3, <1>6
<1>8. str[1] = x[1]
  BY <1>2, <1>3
<1>9. n # -1 /\ k # 0 /\ ~ (str[1] = "0" /\ k # 1)
  BY <1>2, <1>3, <1>8, SizesAreNumbers
<1> QED BY <1>7, <1>9

\* The parse of a string that was as it should be, so far.
Read(p, str, ctx) ==
    DOMAIN p = {"str", "ctx", "ret"} /\ p.str = str /\ p.ctx = ctx /\ p.ret = "OK"

LEMMA ReadPrefix ==
    ASSUME NEW S, NEW x \in Seq(S), NEW rest \in Seq(S), NEW ctx,
           NEW p, Read(p, x \o rest, ctx)
    PROVE  Read(CC(p, x), rest, ctx)
<1> DEFINE str == x \o rest
           q == [p EXCEPT !.str = Rest(@, Len(x))]
<1>1. Len(x) <= Len(str) /\ SubSeq(str, 1, Len(x)) = x /\ Rest(str, Len(x)) = rest
  BY Split
<1>2. SubSeq(x, 1, Len(x)) = x
  BY SubSeqFull
<1>3. IsPrefix(x, str)
  BY <1>1, <1>2 DEF IsPrefix
<1> HIDE DEF str
<1>4. CC(p, x) = q
  BY <1>3 DEF CC, Read, str
<1>5. DOMAIN q = {"str", "ctx", "ret"} /\ q.str = rest /\ q.ctx = ctx /\ q.ret = "OK"
  BY <1>1 DEF Read, str
<1> HIDE DEF q
<1> QED BY <1>4, <1>5 DEF Read

LEMMA ReadNumber ==
    ASSUME NEW n \in 0..UINT32_MAX, NEW S, Digits \subseteq S, NEW rest \in Seq(S),
           rest # <<>>, rest[1] \notin Digits, NEW ctx, NEW f,
           NEW p, Read(p, Decimal[n] \o rest, ctx)
    PROVE  Read(DECIMAL_U32(p, f), rest, [ctx EXCEPT ![f] = n])
<1> DEFINE d == decode_decimal(p.str)
           x == [p.ctx EXCEPT ![f] = d.v]
           q == [p EXCEPT !.str = d.str, !.ctx = x]
<1>1. ~ d.null /\ d.v = n /\ d.str = rest
  <2>1. p.str = Decimal[n] \o rest
    BY DEF Read
  <2> HIDE DEF d
  <2> QED BY <2>1, DecodeDecimal DEF d
<1> HIDE DEF d
<1>2. p.ret = "OK" /\ p.ctx = ctx /\ DOMAIN p = {"str", "ctx", "ret"}
  BY DEF Read
<1>3. DECIMAL_U32(p, f) = q
  BY <1>1, <1>2 DEF DECIMAL_U32, d
<1>4. x = [ctx EXCEPT ![f] = n]
  BY <1>1, <1>2
<1> HIDE DEF x
<1>5. DOMAIN q = {"str", "ctx", "ret"} /\ q.str = rest /\ q.ctx = x /\ q.ret = "OK"
  BY <1>1, <1>2
<1> HIDE DEF q
<1>6. Read(q, rest, x)
  BY <1>5 DEF Read
<1> QED BY <1>3, <1>4, <1>6

\* A failure is final.
LEMMA FailureStays ==
    ASSUME NEW p, p.ret # "OK", NEW x, NEW f, NEW g
    PROVE  CC(p, x) = p /\ DECIMAL_U32(p, f) = p /\ CC_opt(p, x) = p /\ BIN(p, f, g) = p
<1>1. CC(p, x) = p
  BY Zenon DEF CC
<1>2. DECIMAL_U32(p, f) = p
  BY Zenon DEF DECIMAL_U32
<1>3. CC_opt(p, x) = p
  BY Zenon DEF CC_opt
<1>4. BIN(p, f, g) = p
  BY Zenon DEF BIN
<1> QED BY <1>1, <1>2, <1>3, <1>4

-----------------------------------------------------------------------------
(* The bits of a byte y and of the byte x after it, as they are written and  *)
(* read: e is the encoder's accumulator, a the decoder's.                    *)

\* A byte of two parts.
LEMMA TwoParts ==
    ASSUME NEW y \in Nat, y < 256
    PROVE  /\ \A u, v \in Nat : u = y \div 4 /\ v = y % 4 => (u * 4 + v) % 256 = y
           /\ \A u, v \in Nat : u = y \div 16 /\ v = y % 16 => (u * 16 + v) % 256 = y
           /\ \A u, v \in Nat : u = y \div 64 /\ v = y % 64 => (u * 64 + v) % 256 = y
OBVIOUS

LEMMA ReadBits ==
    ASSUME NEW a \in Nat, NEW c \in Nat, c < 64, NEW r, r = (a * 64 + c) % 65536
    PROVE  /\ r \in Nat /\ r % 64 = c /\ r % 16 = c % 16 /\ r % 4 = c % 4
           /\ (r \div 16) % 256 = ((a % 64) * 4 + c \div 16) % 256
           /\ (r \div 4) % 256 = ((a % 16) * 16 + c \div 4) % 256
           /\ (r \div 1) % 256 = ((a % 4) * 64 + c) % 256
<1>1. r \in Nat /\ r % 64 = c /\ r % 16 = c % 16 /\ r % 4 = c % 4
  OBVIOUS
<1>2. (r \div 16) % 256 = ((a % 64) * 4 + c \div 16) % 256
  OBVIOUS
<1>3. (r \div 4) % 256 = ((a % 16) * 16 + c \div 4) % 256
  OBVIOUS
<1>4. (r \div 1) % 256 = ((a % 4) * 64 + c) % 256
  OBVIOUS
<1> QED BY <1>1, <1>2, <1>3, <1>4

Bits8(e, x, s, y) ==
    e \in Nat /\ x \in Nat /\ x < 256 /\ s = (e * 256 + x) % 65536 /\ y = e % 256

LEMMA WrittenBits ==
    ASSUME NEW e, NEW x, NEW s, NEW y, Bits8(e, x, s, y)
    PROVE  /\ s \in Nat /\ s < 65536 /\ s % 256 = x
           /\ (s \div 4) % 64 = x \div 4
           /\ (s \div 16) % 64 = (y % 4) * 16 + x \div 16
           /\ (s \div 64) % 64 = (y % 16) * 4 + x \div 64
           /\ (s \div 1) % 64 = x % 64
           /\ (e * 16) % 64 = (y % 4) * 16
           /\ (e * 4) % 64 = (y % 16) * 4
<1>1. y \in Nat /\ y < 256 /\ x \in Nat /\ x < 256
  BY DEF Bits8
<1>2. s = y * 256 + x
  BY DEF Bits8
<1>3. s \in Nat /\ s < 65536 /\ s % 256 = x
  BY DEF Bits8
<1>4. (s \div 4) % 64 = x \div 4 /\ (s \div 1) % 64 = x % 64
  BY <1>1, <1>3
<1>5. (s \div 16) % 64 = (y % 4) * 16 + x \div 16
  BY <1>1, <1>2
<1>6. (s \div 64) % 64 = (y % 16) * 4 + x \div 64
  BY <1>1, <1>2
<1>7. (e * 16) % 64 = (y % 4) * 16 /\ (e * 4) % 64 = (y % 16) * 4
  BY DEF Bits8
<1> QED BY <1>3, <1>4, <1>5, <1>6, <1>7

\* A character with the rest of y, and z of what follows, makes y.
Bits6(a, y, z, c, r) ==
    /\ y \in Nat /\ y < 256 /\ a \in Nat /\ a % 64 = y \div 4 /\ z \in Nat /\ z < 16
    /\ c = (y % 4) * 16 + z /\ r = (a * 64 + c) % 65536

LEMMA Read64 ==
    ASSUME NEW a, NEW y, NEW z, NEW c, NEW r, Bits6(a, y, z, c, r)
    PROVE  r \in Nat /\ (r \div 16) % 256 = y /\ r % 16 = z
<1> DEFINE u == a % 64
           v == c \div 16
<1>0. a \in Nat /\ r = (a * 64 + c) % 65536 
  BY DEF Bits6
<1>b. y \in Nat /\ y < 256
  BY DEF Bits6
<1>a. c \in Nat /\ c < 64
  BY DEF Bits6
<1>1. v = y % 4 /\ c % 16 = z /\ v \in Nat /\ u \in Nat /\ u = y \div 4
  BY DEF Bits6
<1>3. r \in Nat /\ (r \div 16) % 256 = (u * 4 + v) % 256 /\ r % 16 = c % 16
  BY <1>0, <1>a, ReadBits
<1> HIDE DEF u, v
<1>4. (u * 4 + v) % 256 = y
  BY <1>b, <1>a, <1>1, TwoParts
<1> QED BY <1>1, <1>3, <1>4

Bits4(a, y, z, c, r) ==
    /\ y \in Nat /\ y < 256 /\ a \in Nat /\ a % 16 = y \div 16 /\ z \in Nat /\ z < 4
    /\ c = (y % 16) * 4 + z /\ r = (a * 64 + c) % 65536

LEMMA Read16 ==
    ASSUME NEW a, NEW y, NEW z, NEW c, NEW r, Bits4(a, y, z, c, r)
    PROVE  r \in Nat /\ (r \div 4) % 256 = y /\ r % 4 = z
<1> DEFINE u == a % 16
           v == c \div 4
<1>0. a \in Nat /\ r = (a * 64 + c) % 65536 
  BY DEF Bits4
<1>b. y \in Nat /\ y < 256
  BY DEF Bits4
<1>a. c \in Nat /\ c < 64
  BY DEF Bits4
<1>1. v = y % 16 /\ c % 4 = z /\ v \in Nat /\ u \in Nat /\ u = y \div 16
  BY DEF Bits4
<1>3. r \in Nat /\ (r \div 4) % 256 = (u * 16 + v) % 256 /\ r % 4 = c % 4
  BY <1>0, <1>a, ReadBits
<1> HIDE DEF u, v
<1>4. (u * 16 + v) % 256 = y
  BY <1>b, <1>a, <1>1, TwoParts
<1> QED BY <1>1, <1>3, <1>4

Bits2(a, y, c, r) ==
    /\ y \in Nat /\ y < 256 /\ a \in Nat /\ a % 4 = y \div 64
    /\ c = y % 64 /\ r = (a * 64 + c) % 65536

LEMMA Read4 ==
    ASSUME NEW a, NEW y, NEW c, NEW r, Bits2(a, y, c, r)
    PROVE  r \in Nat /\ (r \div 1) % 256 = y
<1> DEFINE u == a % 4
<1>0. a \in Nat /\ r = (a * 64 + c) % 65536 
  BY DEF Bits2
<1>b. y \in Nat /\ y < 256 /\ c = y % 64
  BY DEF Bits2
<1>a. c \in Nat /\ c < 64
  BY DEF Bits2
<1>1. u \in Nat /\ u = y \div 64
  BY DEF Bits2
<1>3. r \in Nat /\ (r \div 1) % 256 = (u * 64 + c) % 256
  BY <1>0, <1>a, ReadBits
<1> HIDE DEF u
<1>4. (u * 64 + c) % 256 = y
  BY <1>b, <1>a, <1>1, TwoParts
<1> QED BY <1>1, <1>3, <1>4

-----------------------------------------------------------------------------
(* from_base64 of to_base64. *)

\* The decoder has made these bytes and holds len bits more.
Decoder(d, n, len, buf) ==
    /\ DOMAIN d = {"acc", "acc_len", "buf", "full", "dst_len"}
    /\ d.full = FALSE /\ d.dst_len = n /\ d.acc \in Nat /\ d.acc_len = len /\ d.buf = buf

LEMMA SextetRead ==
    ASSUME NEW k \in Nat, k < 64, NEW a
    PROVE  /\ b64_byte_to_char(k) \in Base64Chars
           /\ Taken(a, b64_byte_to_char(k)) = (a * 64 + k) % 65536
<1>1. k + 1 \in 1..64 /\ (k + 1) - 1 = k
  OBVIOUS
<1>2. Base64[k + 1] \in Base64Chars
  BY <1>1, Base64Facts
<1>3. b64_char_to_byte[Base64[k + 1]] = k
  BY <1>1, CharToByte
<1>4. AccSize = 65536
  BY Powers
<1> QED BY <1>2, <1>3, <1>4 DEF b64_byte_to_char, Taken

LEMMA NextByteDecodes ==
    ASSUME NEW d, NEW n, NEW len, NEW buf, Decoder(d, n, len, buf),
           NEW acc \in Nat, NEW left, NEW byte
    PROVE  /\ Decoder(NextByte(d, acc, left, byte), n, left, Append(buf, byte))
           /\ NextByte(d, acc, left, byte).acc = acc
<1> DEFINE r == NextByte(d, acc, left, byte)
<1>1. /\ DOMAIN r = DOMAIN d
      /\ r.dst_len = d.dst_len /\ r.full = d.full /\ r.acc = acc /\ r.acc_len = left
      /\ r.buf = Append(d.buf, byte)
  BY DEF Decoder, NextByte
<1> HIDE DEF r
<1>2. r.full = FALSE /\ r.dst_len = n /\ r.buf = Append(buf, byte)
  BY <1>1 DEF Decoder
<1>3. Decoder(r, n, left, Append(buf, byte))
  BY <1>1, <1>2 DEF Decoder
<1> QED BY <1>1, <1>3 DEF r

LEMMA CharDecodes0 ==
    ASSUME NEW d, NEW n, NEW buf, Decoder(d, n, 0, buf), NEW k \in Nat, k < 64,
           NEW r, r = GetChar(d, b64_byte_to_char(k))
    PROVE  Decoder(r, n, 6, buf) /\ r.acc % 64 = k
<1> DEFINE c == b64_byte_to_char(k)
           acc == Taken(d.acc, c)
<1>1. acc = (d.acc * 64 + k) % 65536
  BY SextetRead
<1>2. d.acc \in Nat /\ d.acc_len = 0 /\ ~ d.full
  BY DEF Decoder
<1> HIDE DEF c
<1>3. GetChar(d, c) = NextChar(d, acc, 6)
  BY <1>2, GetCharCases
<1> HIDE DEF acc
<1>4. acc \in Nat /\ acc % 64 = k
  BY <1>1, <1>2, ReadBits
<1> DEFINE q == NextChar(d, acc, 6)
<1>5. /\ DOMAIN q = DOMAIN d
      /\ q.dst_len = d.dst_len /\ q.full = d.full /\ q.acc = acc /\ q.acc_len = 6
      /\ q.buf = d.buf
  BY DEF Decoder, NextChar
<1> HIDE DEF q
<1>6. Decoder(q, n, 6, buf)
  BY <1>4, <1>5 DEF Decoder
<1> QED BY <1>3, <1>4, <1>5, <1>6 DEF q, c

LEMMA CharDecodes6 ==
    ASSUME NEW d, NEW n \in Nat, NEW buf, Len(buf) \in Nat, Len(buf) < n, Decoder(d, n, 6, buf),
           NEW y, IsByte(y), d.acc % 64 = y \div 4, NEW z \in Nat, z < 16,
           NEW r, r = GetChar(d, b64_byte_to_char((y % 4) * 16 + z))
    PROVE  Decoder(r, n, 4, Append(buf, y)) /\ r.acc % 16 = z
<1> DEFINE k == (y % 4) * 16 + z
           c == b64_byte_to_char(k)
           acc == Taken(d.acc, c)
<1>1. d.acc \in Nat /\ d.acc_len = 6 /\ ~ d.full /\ ~ (Len(d.buf) >= d.dst_len)
  BY DEF Decoder
<1>2. y \in Nat /\ y < 256
  BY DEF IsByte
<1>2a. k = (y % 4) * 16 + z
  OBVIOUS
<1>3. k \in Nat /\ k < 64
  BY <1>2
<1> HIDE DEF k
<1>4. acc = (d.acc * 64 + k) % 65536
  BY <1>3, SextetRead
<1> HIDE DEF c
<1>5. GetChar(d, c) = NextByte(d, acc, 4, (acc \div 16) % 256)
  BY <1>1, GetCharCases
<1> HIDE DEF acc
<1>6. acc \in Nat /\ (acc \div 16) % 256 = y /\ acc % 16 = z
  <2> DEFINE a == d.acc
  <2>1. a \in Nat /\ a % 64 = y \div 4 /\ acc = (a * 64 + k) % 65536
    BY <1>1, <1>4
  <2> HIDE DEF a
  <2>2. Bits6(a, y, z, k, acc)
    BY <1>2, <1>2a, <2>1 DEF Bits6
  <2> QED BY <2>2, Read64
<1>7. GetChar(d, c) = NextByte(d, acc, 4, y)
  BY <1>5, <1>6
<1>8. Decoder(NextByte(d, acc, 4, y), n, 4, Append(buf, y)) /\ NextByte(d, acc, 4, y).acc = acc
  BY SMTT(30), <1>6, NextByteDecodes
<1>9. r = GetChar(d, c)
  BY DEF c, k
<1>10. r = NextByte(d, acc, 4, y)
  BY <1>7, <1>9, Zenon
<1> QED BY <1>6, <1>8, <1>10, ZenonT(30)

LEMMA CharDecodes4 ==
    ASSUME NEW d, NEW n \in Nat, NEW buf, Len(buf) \in Nat, Len(buf) < n, Decoder(d, n, 4, buf),
           NEW y, IsByte(y), d.acc % 16 = y \div 16, NEW z \in Nat, z < 4,
           NEW r, r = GetChar(d, b64_byte_to_char((y % 16) * 4 + z))
    PROVE  Decoder(r, n, 2, Append(buf, y)) /\ r.acc % 4 = z
<1> DEFINE k == (y % 16) * 4 + z
           c == b64_byte_to_char(k)
           acc == Taken(d.acc, c)
<1>1. d.acc \in Nat /\ d.acc_len = 4 /\ ~ d.full /\ ~ (Len(d.buf) >= d.dst_len)
  BY DEF Decoder
<1>2. y \in Nat /\ y < 256
  BY DEF IsByte
<1>2a. k = (y % 16) * 4 + z
  OBVIOUS
<1>3. k \in Nat /\ k < 64
  BY <1>2
<1> HIDE DEF k
<1>4. acc = (d.acc * 64 + k) % 65536
  BY <1>3, SextetRead
<1> HIDE DEF c
<1>5. GetChar(d, c) = NextByte(d, acc, 2, (acc \div 4) % 256)
  BY <1>1, GetCharCases
<1> HIDE DEF acc
<1>6. acc \in Nat /\ (acc \div 4) % 256 = y /\ acc % 4 = z
  <2> DEFINE a == d.acc
  <2>1. a \in Nat /\ a % 16 = y \div 16 /\ acc = (a * 64 + k) % 65536
    BY <1>1, <1>4
  <2> HIDE DEF a
  <2>2. Bits4(a, y, z, k, acc)
    BY <1>2, <1>2a, <2>1 DEF Bits4
  <2> QED BY <2>2, Read16
<1>7. GetChar(d, c) = NextByte(d, acc, 2, y)
  BY <1>5, <1>6
<1>8. Decoder(NextByte(d, acc, 2, y), n, 2, Append(buf, y)) /\ NextByte(d, acc, 2, y).acc = acc
  BY SMTT(30), <1>6, NextByteDecodes
<1>9. r = GetChar(d, c)
  BY DEF c, k
<1>10. r = NextByte(d, acc, 2, y)
  BY <1>7, <1>9, Zenon
<1> QED BY <1>6, <1>8, <1>10, ZenonT(30)

LEMMA CharDecodes2 ==
    ASSUME NEW d, NEW n \in Nat, NEW buf, Len(buf) \in Nat, Len(buf) < n, Decoder(d, n, 2, buf),
           NEW y, IsByte(y), d.acc % 4 = y \div 64,
           NEW r, r = GetChar(d, b64_byte_to_char(y % 64))
    PROVE  Decoder(r, n, 0, Append(buf, y))
<1> DEFINE k == y % 64
           c == b64_byte_to_char(k)
           acc == Taken(d.acc, c)
<1>1. d.acc \in Nat /\ d.acc_len = 2 /\ ~ d.full /\ ~ (Len(d.buf) >= d.dst_len)
  BY DEF Decoder
<1>2. y \in Nat /\ y < 256
  BY DEF IsByte
<1>2a. k = y % 64
  OBVIOUS
<1>3. k \in Nat /\ k < 64
  BY <1>2
<1> HIDE DEF k
<1>4. acc = (d.acc * 64 + k) % 65536
  BY <1>3, SextetRead
<1> HIDE DEF c
<1>5. GetChar(d, c) = NextByte(d, acc, 0, (acc \div 1) % 256)
  BY <1>1, GetCharCases
<1> HIDE DEF acc
<1>6. acc \in Nat /\ (acc \div 1) % 256 = y
  <2> DEFINE a == d.acc
  <2>1. a \in Nat /\ a % 4 = y \div 64 /\ acc = (a * 64 + k) % 65536
    BY <1>1, <1>4
  <2> HIDE DEF a
  <2>2. Bits2(a, y, k, acc)
    BY <1>2, <1>2a, <2>1 DEF Bits2
  <2> QED BY <2>2, Read4
<1>7. GetChar(d, c) = NextByte(d, acc, 0, y)
  BY <1>5, <1>6
<1>8. Decoder(NextByte(d, acc, 0, y), n, 0, Append(buf, y))
  BY SMTT(30), <1>6, NextByteDecodes
<1> QED BY <1>7, <1>8 DEF c, k

\* What the decoder holds after all of these characters.
After(n, chars) == getChars(n, chars)[Len(chars)]

LEMMA SameChars ==
    ASSUME NEW dst_len, NEW s, NEW t, NEW n \in Nat, NEW m \in Nat, n <= m, NEW g, NEW h,
           InChars(g, dst_len, s, n), InChars(h, dst_len, t, m), \A i \in 1..n : s[i] = t[i]
    PROVE  g[n] = h[n]
<1> DEFINE T == {j \in Nat : j <= n => g[j] = h[j]}
<1>1. 0 \in T
  BY DEF InChars
<1>2. ASSUME NEW j \in Nat, j \in T PROVE j + 1 \in T
  <2> SUFFICES ASSUME j + 1 <= n PROVE g[j + 1] = h[j + 1]
    OBVIOUS
  <2>1. j + 1 \in 0..n /\ j + 1 \in 0..m /\ j + 1 \in 1..n /\ j + 1 # 0 /\ (j + 1) - 1 = j
    OBVIOUS
  <2>2. g[j] = h[j] /\ s[j + 1] = t[j + 1]
    BY <1>2, <2>1
  <2>3. g[j + 1] = GetChar(g[j], s[j + 1])
    BY <2>1 DEF InChars
  <2>4. h[j + 1] = GetChar(h[j], t[j + 1])
    BY <2>1 DEF InChars
  <2> QED BY <2>2, <2>3, <2>4
<1>3. Nat \subseteq T
  <2> HIDE DEF T
  <2> QED BY <1>1, <1>2, AllNumbers
<1> QED BY <1>3

LEMMA OneCharMore ==
    ASSUME NEW dst_len, NEW S, NEW s \in Seq(S), NEW c \in S
    PROVE  After(dst_len, Append(s, c)) = GetChar(After(dst_len, s), c)
<1> DEFINE t == Append(s, c)
           n == Len(s)
           m == n + 1
           g == getChars(dst_len, s)
           h == getChars(dst_len, t)
<1>1. n \in Nat /\ m \in Nat /\ Len(t) = m /\ t[m] = c /\ \A i \in 1..n : s[i] = t[i]
  BY LenProperties, AppendProperties
<1> HIDE DEF t, n
<1>2. InChars(g, dst_len, s, n) /\ InChars(h, dst_len, t, m)
  BY <1>1, getCharsFacts DEF n
<1> HIDE DEF g, h
<1>3. g[n] = h[n]
  BY <1>1, <1>2, SameChars
<1>4. m \in 0..m /\ m # 0 /\ m - 1 = n
  BY <1>1
<1> HIDE DEF m
<1>5. h[m] = GetChar(h[n], t[m])
  BY <1>2, <1>4 DEF InChars
<1>6. h[m] = GetChar(g[n], c)
  BY <1>1, <1>3, <1>5
<1> QED BY <1>1, <1>6 DEF t, n, g, h, After

LEMMA NoChar ==
    ASSUME NEW n
    PROVE  Decoder(After(n, <<>>), n, 0, <<>>)
<1> DEFINE d == After(n, <<>>)
<1>1. Len(<<>>) = 0 /\ 0 \in Nat
  OBVIOUS
<1>2. InChars(getChars(n, <<>>), n, <<>>, 0)
  BY <1>1, getCharsFacts
<1>3. getChars(n, <<>>)[0] =
         [acc |-> 0, acc_len |-> 0, buf |-> <<>>, full |-> FALSE, dst_len |-> n]
  BY <1>2 DEF InChars
<1>4. d = [acc |-> 0, acc_len |-> 0, buf |-> <<>>, full |-> FALSE, dst_len |-> n]
  BY <1>1, <1>3 DEF After
<1>5. /\ DOMAIN d = {"acc", "acc_len", "buf", "full", "dst_len"}
      /\ d.acc = 0 /\ d.acc_len = 0 /\ d.buf = <<>> /\ d.full = FALSE /\ d.dst_len = n
  BY <1>4
<1> HIDE DEF d
<1> QED BY <1>5 DEF Decoder, d

\* The first i bytes, and one more.
First(s, i) == SubSeq(s, 1, i)

LEMMA FirstBytes ==
    ASSUME NEW s, IsBytes(s)
    PROVE  /\ First(s, 0) = <<>> /\ First(s, Len(s)) = s /\ Len(s) \in Nat
           /\ \A i \in 0..Len(s) : Len(First(s, i)) = i
           /\ \A i \in 0..(Len(s) - 1) : Append(First(s, i), s[i + 1]) = First(s, i + 1)
<1>1. s \in Seq(Int) /\ Len(s) \in Nat
  BY LenProperties DEF IsBytes
<1>2. ASSUME NEW i \in 0..Len(s)
      PROVE  First(s, i) \in Seq(Int) /\ Len(First(s, i)) = i
             /\ \A j \in 1..i : First(s, i)[j] = s[j]
  BY <1>1, FirstFacts DEF First
<1>3. First(s, Len(s)) = s
  BY <1>1, SubSeqFull DEF First
<1>4. First(s, 0) = <<>>
  <2>1. 0 \in 0..Len(s)
    BY <1>1
  <2>2. First(s, 0) \in Seq(Int) /\ Len(First(s, 0)) = 0
    BY <1>2, <2>1
  <2> QED BY <2>2, EmptySeq
<1>5. ASSUME NEW i \in 0..(Len(s) - 1)
      PROVE  Append(First(s, i), s[i + 1]) = First(s, i + 1)
  <2> DEFINE u == First(s, i)
             v == First(s, i + 1)
             w == Append(u, s[i + 1])
             k == i + 1
  <2>1. i \in 0..Len(s) /\ k \in 0..Len(s) /\ k \in 1..Len(s) /\ i \in Nat
    BY <1>1
  <2>2. s[k] \in Int
    BY <1>1, <2>1, ElementOfSeq
  <2>3. u \in Seq(Int) /\ Len(u) = i /\ \A j \in 1..i : u[j] = s[j]
    BY <1>2, <2>1
  <2>4. v \in Seq(Int) /\ Len(v) = k /\ \A j \in 1..k : v[j] = s[j]
    BY <1>2, <2>1
  <2> HIDE DEF u, v
  <2>5. w \in Seq(Int) /\ Len(w) = k /\ w[k] = s[k] /\ \A j \in 1..i : w[j] = u[j]
    BY <2>2, <2>3, AppendProperties
  <2> HIDE DEF w
  <2>6. ASSUME NEW j \in 1..k PROVE w[j] = v[j]
    <3>1. j \in 1..i \/ j = k
      BY <2>1
    <3> QED BY <2>3, <2>4, <2>5, <3>1
  <2>7. w = v
    BY <2>4, <2>5, <2>6, SeqEqual
  <2> QED BY <2>7 DEF w, v, u
<1> QED BY <1>1, <1>2, <1>3, <1>4, <1>5

\* The encoder after i bytes and the decoder after the characters of those: the
\* decoder has the same bytes, or lacks some bits of the last.
Paired(b, s, i, n) ==
    /\ Holds(b, i)
    /\ i > 0 => b.acc % 256 = s[i]
    /\ LET d == After(n, b.out) IN
       \/ b.acc_len = 0 /\ Decoder(d, n, 0, First(s, i))
       \/ b.acc_len = 2 /\ Decoder(d, n, 6, First(s, i - 1)) /\ d.acc % 64 = s[i] \div 4 /\ i > 0
       \/ b.acc_len = 4 /\ Decoder(d, n, 4, First(s, i - 1)) /\ d.acc % 16 = s[i] \div 16 /\ i > 0

LEMMA ByteParts ==
    ASSUME NEW x, IsByte(x)
    PROVE  /\ x \div 4 \in Nat /\ x \div 4 < 64 /\ x \div 16 \in Nat /\ x \div 16 < 16
           /\ x \div 64 \in Nat /\ x \div 64 < 4
BY DEF IsByte

LEMMA WrittenByte ==
    ASSUME NEW b, NEW i, Holds(b, i), NEW x, IsByte(x), NEW acc, acc = Shifted(b.acc, x),
           NEW y, y = b.acc % 256
    PROVE  /\ acc \in Nat /\ acc % 256 = x
           /\ (acc \div 4) % 64 = x \div 4
           /\ (acc \div 16) % 64 = (y % 4) * 16 + x \div 16
           /\ (acc \div 64) % 64 = (y % 16) * 4 + x \div 64
           /\ (acc \div 1) % 64 = x % 64
<1>1. AccSize = 65536
  BY Powers
<1>2. b.acc \in Nat
  BY DEF Holds
<1>3. x \in Nat /\ x < 256
  BY DEF IsByte
<1>4. Bits8(b.acc, x, acc, y)
  BY <1>1, <1>2, <1>3 DEF Shifted, Bits8
<1> QED BY <1>4, WrittenBits

LEMMA TwoMore ==
    ASSUME NEW S, NEW s \in Seq(S), NEW x \in S, NEW y \in S
    PROVE  s \o <<x, y>> = Append(Append(s, x), y)
OBVIOUS

LEMMA JoinedBits ==
    ASSUME NEW y, IsByte(y), NEW x, IsByte(x)
    PROVE  /\ (y % 4) * 16 + x \div 16 \in Nat /\ (y % 4) * 16 + x \div 16 < 64
           /\ (y % 16) * 4 + x \div 64 \in Nat /\ (y % 16) * 4 + x \div 64 < 64
<1>1. y % 4 \in Nat /\ y % 4 < 4 /\ y % 16 \in Nat /\ y % 16 < 16
  BY DEF IsByte
<1>2. x \div 16 \in Nat /\ x \div 16 < 16 /\ x \div 64 \in Nat /\ x \div 64 < 4
  BY ByteParts
<1> DEFINE a == y % 4
           b == y % 16
           c == x \div 16
           d == x \div 64
<1>3. a \in Nat /\ a < 4 /\ b \in Nat /\ b < 16 /\ c \in Nat /\ c < 16 /\ d \in Nat /\ d < 4
  BY <1>1, <1>2
<1> HIDE DEF a, b, c, d
<1>4. a * 16 + c \in Nat /\ a * 16 + c < 64 /\ b * 4 + d \in Nat /\ b * 4 + d < 64
  BY <1>3
<1> QED BY <1>4 DEF a, b, c, d

LEMMA PutByteDecodes ==
    ASSUME NEW s, IsBytes(s), NEW n \in Nat, Len(s) <= n, NEW i \in 0..(Len(s) - 1),
           NEW b, Paired(b, s, i, n)
    PROVE  Paired(PutByte(b, s[i + 1]), s, i + 1, n)
<1> DEFINE x   == s[i + 1]
           y   == b.acc % 256
           acc == Shifted(b.acc, x)
           r   == PutByte(b, x)
           d   == After(n, b.out)
           c4  == b64_byte_to_char(x \div 4)
           c16 == b64_byte_to_char((y % 4) * 16 + x \div 16)
           c64 == b64_byte_to_char((y % 16) * 4 + x \div 64)
           c1  == b64_byte_to_char(x % 64)
           o2  == b.out \o <<c64, c1>>
           j   == i + 1
<1>1. /\ Len(s) \in Nat /\ i \in Nat /\ j \in Nat /\ j > 0 /\ j - 1 = i /\ i < n
      /\ i \in 0..Len(s) /\ j \in 1..Len(s)
  BY FirstBytes
<1>2. IsByte(x)
  BY <1>1 DEF IsBytes
<1>3. Holds(b, i)
  BY DEF Paired
<1> HIDE DEF x
<1>4. /\ acc \in Nat /\ acc % 256 = x
      /\ (acc \div 4) % 64 = x \div 4
      /\ (acc \div 16) % 64 = (y % 4) * 16 + x \div 16
      /\ (acc \div 64) % 64 = (y % 16) * 4 + x \div 64
      /\ (acc \div 1) % 64 = x % 64
  BY <1>2, <1>3, WrittenByte
<1> HIDE DEF y
<1>5. /\ b.acc_len = 0 => r = [acc |-> acc, acc_len |-> 2, out |-> Append(b.out, c4)]
      /\ b.acc_len = 2 => r = [acc |-> acc, acc_len |-> 4, out |-> Append(b.out, c16)]
      /\ b.acc_len = 4 => r = [acc |-> acc, acc_len |-> 0, out |-> o2]
  <2> DEFINE e4 == b64_byte_to_char((acc \div 4) % 64)
             e16 == b64_byte_to_char((acc \div 16) % 64)
             e64 == b64_byte_to_char((acc \div 64) % 64)
             e1 == b64_byte_to_char((acc \div 1) % 64)
             f == b.out \o <<e64, e1>>
  <2>1. /\ b.acc_len = 0 => r = [acc |-> acc, acc_len |-> 2, out |-> Append(b.out, e4)]
        /\ b.acc_len = 2 => r = [acc |-> acc, acc_len |-> 4, out |-> Append(b.out, e16)]
        /\ b.acc_len = 4 => r = [acc |-> acc, acc_len |-> 0, out |-> f]
    BY SMTT(30), PutByteCases
  <2>2. e4 = c4 /\ e16 = c16 /\ e64 = c64 /\ e1 = c1
    BY <1>4
  <2> HIDE DEF e4, e16, e64, e1, c4, c16, c64, c1
  <2>3. f = o2
    BY <2>2
  <2> HIDE DEF f, o2, acc, r
  <2> QED BY <2>1, <2>2, <2>3
<1>6. Holds(r, j)
  BY <1>1, <1>2, <1>3, PutByteHolds
<1>7. b.out \in Seq(Base64Chars) /\ b.acc_len \in {0, 2, 4}
  BY <1>3 DEF Holds
<1>8. /\ x \div 4 \in Nat /\ x \div 4 < 64 /\ x \div 16 \in Nat /\ x \div 16 < 16
      /\ x \div 64 \in Nat /\ x \div 64 < 4
  BY <1>2, ByteParts
<1>9. i > 0 => y = s[i] /\ IsByte(y) /\ Len(First(s, i - 1)) = i - 1 /\ i - 1 \in Nat /\ i - 1 < n
               /\ Append(First(s, i - 1), y) = First(s, i)
  <2> SUFFICES ASSUME i > 0
               PROVE  y = s[i] /\ IsByte(y) /\ Len(First(s, i - 1)) = i - 1 /\ i - 1 \in Nat
                      /\ i - 1 < n /\ Append(First(s, i - 1), y) = First(s, i)
    OBVIOUS
  <2>1. i \in 1..Len(s) /\ i - 1 \in 0..Len(s) /\ i - 1 \in 0..(Len(s) - 1) /\ (i - 1) + 1 = i
        /\ i - 1 \in Nat /\ i - 1 < n
    BY <1>1
  <2>2. y = s[i]
    BY DEF Paired, y
  <2>3. IsByte(s[i])
    BY <2>1 DEF IsBytes
  <2>4. Len(First(s, i - 1)) = i - 1 /\ Append(First(s, i - 1), s[(i - 1) + 1]) = First(s, (i - 1) + 1)
    BY <2>1, FirstBytes
  <2> QED BY <2>1, <2>2, <2>3, <2>4
<1>10. Append(First(s, i), x) = First(s, j) /\ Len(First(s, i)) = i
  BY <1>1, FirstBytes DEF x
<1>11. /\ b.acc_len = 0 => Decoder(d, n, 0, First(s, i))
       /\ b.acc_len = 2 => Decoder(d, n, 6, First(s, i - 1)) /\ d.acc % 64 = s[i] \div 4 /\ i > 0
       /\ b.acc_len = 4 => Decoder(d, n, 4, First(s, i - 1)) /\ d.acc % 16 = s[i] \div 16 /\ i > 0
  BY <1>7 DEF Paired
<1> HIDE DEF d, r, acc, c4, c16, c64, c1, o2, j
<1>12. CASE b.acc_len = 0
  <2>1. r.acc = acc /\ r.acc_len = 2 /\ r.out = Append(b.out, c4)
    BY <1>5, <1>12
  <2>2. c4 \in Base64Chars
    BY <1>8, SextetRead DEF c4
  <2>3. After(n, r.out) = GetChar(d, c4)
    BY <1>7, <2>1, <2>2, OneCharMore DEF d
  <2> DEFINE q == After(n, r.out)
  <2>4. q = GetChar(d, c4)
    BY <2>3
  <2> HIDE DEF q
  <2>5. Decoder(q, n, 6, First(s, i)) /\ q.acc % 64 = x \div 4
    BY <1>8, <1>11, <1>12, <2>4, CharDecodes0 DEF c4
  <2>6. s[j] = x
    BY DEF j, x
  <2>7. Decoder(q, n, 6, First(s, j - 1)) /\ q.acc % 64 = s[j] \div 4
    BY <1>1, <2>5, <2>6
  <2>8. r.acc % 256 = s[j]
    BY <1>4, <2>1, <2>6
  <2> QED BY <1>1, <1>6, <2>1, <2>7, <2>8 DEF Paired, q, r, j, x
<1>13. CASE b.acc_len = 2
  <2>1. r.acc = acc /\ r.acc_len = 4 /\ r.out = Append(b.out, c16)
    BY <1>5, <1>13
  <2>2. c16 \in Base64Chars
    <3> DEFINE k == (y % 4) * 16 + x \div 16
    <3>1. k \in Nat /\ k < 64
      BY <1>2, <1>9, <1>11, <1>13, JoinedBits
    <3> HIDE DEF k
    <3>2. b64_byte_to_char(k) \in Base64Chars
      BY <3>1, SextetRead
    <3> QED BY <3>2 DEF c16, k
  <2>3. After(n, r.out) = GetChar(d, c16)
    BY <1>7, <2>1, <2>2, OneCharMore DEF d
  <2> DEFINE q == After(n, r.out)
             z == x \div 16
             buf == First(s, i - 1)
  <2>4. q = GetChar(d, b64_byte_to_char((y % 4) * 16 + z))
    BY <2>3 DEF c16
  <2>5. /\ i > 0 /\ IsByte(y) /\ z \in Nat /\ z < 16 /\ d.acc % 64 = y \div 4
        /\ Decoder(d, n, 6, buf) /\ Len(buf) \in Nat /\ Len(buf) < n
    BY <1>8, <1>9, <1>11, <1>13
  <2> HIDE DEF q, z, buf
  <2>6. Decoder(q, n, 4, Append(buf, y)) /\ q.acc % 16 = z
    BY <2>4, <2>5, CharDecodes6
  <2>7. s[j] = x
    BY DEF j, x
  <2>8. Decoder(q, n, 4, First(s, j - 1)) /\ q.acc % 16 = s[j] \div 16
    BY <1>1, <1>9, <2>5, <2>6, <2>7 DEF buf, z
  <2>9. r.acc % 256 = s[j]
    BY <1>4, <2>1, <2>7
  <2> QED BY <1>1, <1>6, <2>1, <2>8, <2>9 DEF Paired, q, r, j, x
<1>14. CASE b.acc_len = 4
  <2>1. r.acc = acc /\ r.acc_len = 0 /\ r.out = o2
    BY <1>5, <1>14
  <2>2. c64 \in Base64Chars
    <3> DEFINE k == (y % 16) * 4 + x \div 64
    <3>1. k \in Nat /\ k < 64
      BY <1>2, <1>9, <1>11, <1>14, JoinedBits
    <3> HIDE DEF k
    <3>2. b64_byte_to_char(k) \in Base64Chars
      BY <3>1, SextetRead
    <3> QED BY <3>2 DEF c64, k
  <2>3. c1 \in Base64Chars
    <3> DEFINE k == x % 64
    <3>1. k \in Nat /\ k < 64
      BY <1>2 DEF IsByte
    <3> HIDE DEF k
    <3>2. b64_byte_to_char(k) \in Base64Chars
      BY <3>1, SextetRead
    <3> QED BY <3>2 DEF c1, k
  <2> DEFINE o == Append(b.out, c64)
             p == After(n, o)
             q == After(n, r.out)
             z == x \div 64
             buf == First(s, i - 1)
  <2>4. o \in Seq(Base64Chars)
    BY <1>7, <2>2, OneMore
  <2>5. r.out = Append(o, c1)
    <3>1. b.out \o <<c64, c1>> = Append(Append(b.out, c64), c1)
      BY SMTT(30), <1>7, <2>2, <2>3, TwoMore
    <3> QED BY <2>1, <3>1 DEF o2
  <2>6. p = GetChar(d, b64_byte_to_char((y % 16) * 4 + z))
    BY <1>7, <2>2, OneCharMore DEF d, c64
  <2> HIDE DEF o
  <2>7. q = GetChar(p, b64_byte_to_char(x % 64))
    BY <2>3, <2>4, <2>5, OneCharMore DEF c1
  <2>8. /\ i > 0 /\ IsByte(y) /\ z \in Nat /\ z < 4 /\ d.acc % 16 = y \div 16
        /\ Decoder(d, n, 4, buf) /\ Len(buf) \in Nat /\ Len(buf) < n
    BY <1>8, <1>9, <1>11, <1>14
  <2> HIDE DEF p, q, z, buf
  <2>9. Decoder(p, n, 2, Append(buf, y)) /\ p.acc % 4 = z
    BY <2>6, <2>8, CharDecodes4
  <2>10. Decoder(p, n, 2, First(s, i)) /\ p.acc % 4 = x \div 64
    BY <1>9, <2>8, <2>9 DEF buf, z
  <2>11. Len(First(s, i)) \in Nat /\ Len(First(s, i)) < n
    BY <1>1, <1>10
  <2>12. Decoder(q, n, 0, Append(First(s, i), x))
    BY <1>2, <2>7, <2>10, <2>11, CharDecodes2
  <2>13. Decoder(q, n, 0, First(s, j))
    BY <1>10, <2>12
  <2>14. s[j] = x
    BY DEF j, x
  <2>15. r.acc % 256 = s[j]
    BY <1>4, <2>1, <2>14
  <2> QED BY <1>6, <2>1, <2>13, <2>15 DEF Paired, q, r, j, x
<1> QED BY <1>7, <1>12, <1>13, <1>14

LEMMA putBytesPaired ==
    ASSUME NEW s, IsBytes(s), NEW n \in Nat, Len(s) <= n
    PROVE  Paired(putBytes(s)[Len(s)], s, Len(s), n)
<1> DEFINE g == putBytes(s)
           m == Len(s)
           T == {i \in Nat : i <= m => Paired(g[i], s, i, n)}
<1>0. m \in Nat /\ First(s, 0) = <<>> /\ m <= n
  BY FirstBytes
<1>a. InBytes(g, s, m)
  BY <1>0, putBytesFacts
<1> HIDE DEF g, m
<1>1. 0 \in T
  <2>1. g[0] = [acc |-> 0, acc_len |-> 0, out |-> <<>>]
    BY <1>0, <1>a DEF InBytes
  <2> DEFINE b == g[0]
  <2>2. b.acc = 0 /\ b.acc_len = 0 /\ b.out = <<>>
    BY <2>1
  <2> HIDE DEF b
  <2>3. Holds(b, 0)
    BY <2>2 DEF Holds
  <2>4. Decoder(After(n, b.out), n, 0, First(s, 0))
    BY <1>0, <2>2, NoChar
  <2>5. Paired(b, s, 0, n)
    BY <2>2, <2>3, <2>4 DEF Paired
  <2> QED BY <2>5 DEF b
<1>2. ASSUME NEW i \in Nat, i \in T PROVE i + 1 \in T
  <2> SUFFICES ASSUME i + 1 <= m PROVE Paired(g[i + 1], s, i + 1, n)
    OBVIOUS
  <2>1. i + 1 \in 0..m /\ i + 1 # 0 /\ (i + 1) - 1 = i /\ i <= m /\ i \in 0..(m - 1)
    BY <1>0
  <2>2. g[i + 1] = PutByte(g[i], s[i + 1])
    BY <1>a, <2>1 DEF InBytes
  <2>3. Paired(g[i], s, i, n)
    BY <1>2, <2>1
  <2> QED BY <1>0, <2>1, <2>2, <2>3, PutByteDecodes DEF m
<1>3. Nat \subseteq T
  <2> HIDE DEF T
  <2> QED BY <1>1, <1>2, AllNumbers
<1> QED BY <1>0, <1>3 DEF g, m

\* The characters of some bytes make these bytes again, and nothing is left of
\* them but bits that are 0.
LEMMA DecodesAll ==
    ASSUME NEW s, IsBytes(s), NEW n \in Nat, Len(s) <= n, NEW d, d = After(n, to_base64(s))
    PROVE  ~ d.full /\ ~ leftover(d) /\ d.buf = s
<1> DEFINE b == putBytes(s)[Len(s)]
           L == Len(s)
           e == After(n, b.out)
           y == b.acc % 256
           last == b64_byte_to_char((b.acc * 2^(6 - b.acc_len)) % 64)
<1>1. L \in Nat /\ First(s, L) = s
  BY FirstBytes
<1>2. Paired(b, s, L, n)
  BY putBytesPaired
<1>3. to_base64(s) = IF b.acc_len = 0 THEN b.out ELSE Append(b.out, last)
  BY DEF to_base64
<1> HIDE DEF b, L
<1>4. b.out \in Seq(Base64Chars) /\ b.acc \in Nat /\ b.acc_len \in {0, 2, 4}
  BY <1>2 DEF Paired, Holds
<1>4a. /\ b.acc_len = 2 => b.acc * 2^(6 - b.acc_len) = b.acc * 16
       /\ b.acc_len = 4 => b.acc * 2^(6 - b.acc_len) = b.acc * 4
  <2>1. b.acc_len = 2 => 6 - b.acc_len = 4
    OBVIOUS
  <2>2. b.acc_len = 4 => 6 - b.acc_len = 2
    OBVIOUS
  <2>3. b.acc_len = 2 => b.acc * 2^(6 - b.acc_len) = b.acc * 16
    BY <2>1, Powers
  <2>4. b.acc_len = 4 => b.acc * 2^(6 - b.acc_len) = b.acc * 4
    BY <2>2, Powers
  <2> QED BY <2>3, <2>4
<1>5. /\ b.acc_len = 0 => Decoder(e, n, 0, First(s, L))
      /\ b.acc_len = 2 => Decoder(e, n, 6, First(s, L - 1)) /\ e.acc % 64 = s[L] \div 4 /\ L > 0
      /\ b.acc_len = 4 => Decoder(e, n, 4, First(s, L - 1)) /\ e.acc % 16 = s[L] \div 16 /\ L > 0
  BY <1>2 DEF Paired
<1>6. L > 0 => /\ y = s[L] /\ IsByte(y) /\ Len(First(s, L - 1)) \in Nat /\ Len(First(s, L - 1)) < n
               /\ Append(First(s, L - 1), y) = s
  <2> SUFFICES ASSUME L > 0
               PROVE  /\ y = s[L] /\ IsByte(y)
                      /\ Len(First(s, L - 1)) \in Nat /\ Len(First(s, L - 1)) < n
                      /\ Append(First(s, L - 1), y) = s
    OBVIOUS
  <2>1. L \in 1..L /\ L - 1 \in 0..L /\ L - 1 \in 0..(L - 1) /\ (L - 1) + 1 = L /\ L - 1 < n
        /\ L - 1 \in Nat
    BY <1>1 DEF L
  <2>2. y = s[L]
    BY <1>2 DEF Paired
  <2>3. IsByte(s[L])
    BY <2>1 DEF IsBytes, L
  <2>4. Len(First(s, L - 1)) = L - 1 /\ Append(First(s, L - 1), s[(L - 1) + 1]) = First(s, (L - 1) + 1)
    BY <2>1, FirstBytes DEF L
  <2> HIDE DEF y
  <2> QED BY <1>1, <2>1, <2>2, <2>3, <2>4
<1>7. (b.acc * 16) % 64 = (y % 4) * 16 /\ (b.acc * 4) % 64 = (y % 16) * 4
  <2> DEFINE a == b.acc
             z == 0
             r == (a * 256 + z) % 65536
  <2>1. Bits8(a, z, r, y)
    BY <1>4 DEF Bits8
  <2> HIDE DEF a, z, r, y
  <2>2. (a * 16) % 64 = (y % 4) * 16 /\ (a * 4) % 64 = (y % 16) * 4
    BY <2>1, WrittenBits
  <2> QED BY <2>2 DEF a
<1> HIDE DEF e, y
<1>8. ASSUME d.full = FALSE, d.acc_len \in {0, 2, 4}, d.acc \in Nat,
             d.acc_len = 2 => d.acc % 4 = 0, d.acc_len = 4 => d.acc % 16 = 0
      PROVE  ~ d.full /\ ~ leftover(d)
  <2>1. CASE d.acc_len = 0
    <3>1. d.acc % 1 = 0
      BY <1>8
    <3> QED BY <1>8, <2>1, <3>1, Powers DEF leftover
  <2>2. CASE d.acc_len = 2
    BY <1>8, <2>2, Powers DEF leftover
  <2>3. CASE d.acc_len = 4
    BY <1>8, <2>3, Powers DEF leftover
  <2> QED BY <1>8, <2>1, <2>2, <2>3
<1>9. CASE b.acc_len = 0
  <2>1. d = e
    BY <1>3, <1>9 DEF e
  <2>2. d.full = FALSE /\ d.acc \in Nat /\ d.acc_len = 0 /\ d.buf = s
    BY <1>1, <1>5, <1>9, <2>1 DEF Decoder
  <2>3. d.acc_len \in {0, 2, 4} /\ d.acc_len # 2 /\ d.acc_len # 4
    BY <2>2
  <2>4. ~ d.full /\ ~ leftover(d)
    BY <1>8, <2>2, <2>3
  <2> QED BY <2>2, <2>4
<1>10. CASE b.acc_len = 2
  <2> DEFINE k == (y % 4) * 16 + 0
             buf == First(s, L - 1)
             z == 0
  <2>1. last = b64_byte_to_char(k)
    <3>2. b.acc * 2^(6 - b.acc_len) = b.acc * 16
      BY <1>4a, <1>10
    <3>3. (b.acc * 16) % 64 = k
      BY <1>4, <1>7
    <3> QED BY <3>2, <3>3
  <2>2. k \in Nat /\ k < 64 /\ IsByte(y) /\ e.acc % 64 = y \div 4 /\ Append(buf, y) = s
        /\ Decoder(e, n, 6, buf) /\ Len(buf) \in Nat /\ Len(buf) < n
    <3>1. IsByte(y) /\ e.acc % 64 = y \div 4 /\ Append(buf, y) = s
          /\ Decoder(e, n, 6, buf) /\ Len(buf) \in Nat /\ Len(buf) < n
      BY <1>5, <1>6, <1>10
    <3>2. k \in Nat /\ k < 64
      BY <3>1 DEF IsByte
    <3> QED BY <3>1, <3>2
  <2>3. z \in Nat /\ z < 16 /\ k = (y % 4) * 16 + z
    OBVIOUS
  <2> HIDE DEF k, buf, z, last
  <2>4. b64_byte_to_char(k) \in Base64Chars
    BY <2>2, SextetRead
  <2>5. d = GetChar(e, b64_byte_to_char((y % 4) * 16 + z))
    BY <1>3, <1>4, <1>10, <2>1, <2>3, <2>4, OneCharMore DEF e
  <2>6. Decoder(d, n, 4, Append(buf, y)) /\ d.acc % 16 = z
    <3>1. /\ IsByte(y) /\ z \in Nat /\ z < 16 /\ e.acc % 64 = y \div 4
          /\ Decoder(e, n, 6, buf) /\ Len(buf) \in Nat /\ Len(buf) < n
      BY <2>2, <2>3
    <3> QED BY <2>5, <3>1, CharDecodes6
  <2>7. d.full = FALSE /\ d.acc \in Nat /\ d.acc_len = 4 /\ d.buf = s /\ d.acc % 16 = 0
    BY <2>2, <2>6 DEF Decoder, z
  <2> QED BY <1>8, <2>7
<1>11. CASE b.acc_len = 4
  <2> DEFINE k == (y % 16) * 4 + 0
             buf == First(s, L - 1)
             z == 0
  <2>1. last = b64_byte_to_char(k)
    <3>2. b.acc * 2^(6 - b.acc_len) = b.acc * 4
      BY <1>4a, <1>11
    <3>3. (b.acc * 4) % 64 = k
      BY <1>4, <1>7
    <3> QED BY <3>2, <3>3
  <2>2. k \in Nat /\ k < 64 /\ IsByte(y) /\ e.acc % 16 = y \div 16 /\ Append(buf, y) = s
        /\ Decoder(e, n, 4, buf) /\ Len(buf) \in Nat /\ Len(buf) < n
    <3>1. IsByte(y) /\ e.acc % 16 = y \div 16 /\ Append(buf, y) = s
          /\ Decoder(e, n, 4, buf) /\ Len(buf) \in Nat /\ Len(buf) < n
      BY <1>5, <1>6, <1>11
    <3>2. k \in Nat /\ k < 64
      BY <3>1 DEF IsByte
    <3> QED BY <3>1, <3>2
  <2>3. z \in Nat /\ z < 4 /\ k = (y % 16) * 4 + z
    OBVIOUS
  <2> HIDE DEF k, buf, z, last
  <2>4. b64_byte_to_char(k) \in Base64Chars
    BY <2>2, SextetRead
  <2>5. d = GetChar(e, b64_byte_to_char((y % 16) * 4 + z))
    BY <1>3, <1>4, <1>11, <2>1, <2>3, <2>4, OneCharMore DEF e
  <2>6. Decoder(d, n, 2, Append(buf, y)) /\ d.acc % 4 = z
    <3>1. /\ IsByte(y) /\ z \in Nat /\ z < 4 /\ e.acc % 16 = y \div 16
          /\ Decoder(e, n, 4, buf) /\ Len(buf) \in Nat /\ Len(buf) < n
      BY <2>2, <2>3
    <3> QED BY <2>5, <3>1, CharDecodes4
  <2>7. d.full = FALSE /\ d.acc \in Nat /\ d.acc_len = 2 /\ d.buf = s /\ d.acc % 4 = 0
    BY <2>2, <2>6 DEF Decoder, z
  <2> QED BY <1>8, <2>7
<1> QED BY <1>4, <1>9, <1>10, <1>11

\* If they do not fit into the buffer, the decoder stops.
LEMMA TooManyBytes ==
    ASSUME NEW s, IsBytes(s), NEW n \in Nat, n < Len(s), NEW d, d = After(n, to_base64(s))
    PROVE  d.full
<1> DEFINE t == to_base64(s)
           L == Len(s)
           k == Len(t)
           m == Len(d.buf)
<1>1. L \in Nat /\ \A i \in 1..L : IsByte(s[i])
  BY LenProperties DEF IsBytes
<1>2. t \in Seq(Base64Chars) /\ k = b64len(L)
  BY <1>1, Base64Length
<1> HIDE DEF t
<1>3. Gathered(d, n, k)
  BY <1>2, getCharsGather DEF After, t
<1>4. IsBytes(d.buf) /\ m <= n /\ d.acc_len \in {0, 2, 4, 6} /\ (~ d.full => 6 * k = 8 * m + d.acc_len)
  BY <1>3 DEF Gathered
<1>5. m \in Nat
  BY <1>4, LenProperties DEF IsBytes
<1> HIDE DEF L, k, m
<1>6. 6 * k >= 8 * L
  <2>1. L % 3 \in {0, 1, 2}
    BY <1>1
  <2>2. CASE L % 3 = 0
    BY <1>1, <1>2, <2>2 DEF b64len
  <2>3. CASE L % 3 = 1
    BY <1>1, <1>2, <2>3 DEF b64len
  <2>4. CASE L % 3 = 2
    BY <1>1, <1>2, <2>4 DEF b64len
  <2> QED BY <2>1, <2>2, <2>3, <2>4
<1>7. ASSUME ~ d.full PROVE FALSE
  <2> DEFINE a == d.acc_len
  <2>1. 6 * k = 8 * m + a /\ a <= 6 /\ a \in Nat
    BY <1>4, <1>7
  <2>2. m <= n /\ n < L
    BY <1>4 DEF L
  <2> HIDE DEF a
  <2> QED BY <1>1, <1>5, <1>6, <2>1, <2>2
<1> QED BY <1>7

LEMMA DecodeBase64 ==
    ASSUME NEW s, IsBytes(s), NEW n \in Nat, NEW S, Base64Chars \subseteq S,
           NEW rest \in Seq(S), rest = <<>> \/ rest[1] \notin Base64Chars,
           NEW b, b = from_base64(n, to_base64(s) \o rest)
    PROVE  /\ Len(s) <= n => ~ b.null /\ b.buf = s /\ b.str = rest
           /\ n < Len(s) => b.null
<1> DEFINE x == to_base64(s)
           str == x \o rest
           k == Len(x)
           d == After(n, x)
<1>1. Len(s) \in Nat /\ \A i \in 1..Len(s) : IsByte(s[i])
  BY LenProperties DEF IsBytes
<1>2. x \in Seq(Base64Chars) /\ x \in Seq(S)
  <2>1. x \in Seq(Base64Chars)
    BY <1>1, Base64Length
  <2> HIDE DEF x
  <2> QED BY <2>1, SeqMonotonic
<1> HIDE DEF x
<1>3. /\ str \in Seq(S) /\ k \in 0..Len(str) /\ k \in Nat
      /\ SubSeq(str, 1, k) = x /\ Rest(str, k) = rest
      /\ \A i \in 1..k : str[i] = x[i]
      /\ rest = <<>> => k = Len(str)
      /\ rest # <<>> => str[k + 1] = rest[1]
  BY <1>2, Split
<1>4. \A i \in 1..k : x[i] \in Base64Chars
  BY <1>2, ElementOfSeq
<1> HIDE DEF str, k
<1>5. Span(str, Base64Chars) = k
  <2>1. \A i \in 1..k : str[i] \in Base64Chars
    BY <1>3, <1>4
  <2>2. k = Len(str) \/ str[k + 1] \notin Base64Chars
    BY <1>3
  <2> QED BY <1>3, <2>1, <2>2, SpanIs
<1>6. b = [null |-> d.full \/ leftover(d), buf |-> d.buf, str |-> rest]
  BY <1>3, <1>5 DEF from_base64, str, After, k, x
<1> HIDE DEF d
<1>7. b.null = (d.full \/ leftover(d)) /\ b.buf = d.buf /\ b.str = rest
  BY <1>6
<1>8. ASSUME Len(s) <= n PROVE ~ d.full /\ ~ leftover(d) /\ d.buf = s
  BY <1>8, DecodesAll DEF d, x
<1>9. ASSUME n < Len(s) PROVE d.full
  BY <1>9, TooManyBytes DEF d, x
<1> QED BY <1>7, <1>8, <1>9

-----------------------------------------------------------------------------
(* The text of a hash, from its end. *)

OutputText(c)   == <<"$">> \o (to_base64(c.out) \o <<>>)
SaltText(c)     == <<"$">> \o (to_base64(c.salt) \o OutputText(c))
LanesText(c)    == <<",", "p", "=">> \o (Decimal[c.lanes] \o SaltText(c))
TimeText(c)     == <<",", "t", "=">> \o (Decimal[c.t_cost] \o LanesText(c))
MemoryText(c)   == <<"$", "m", "=">> \o (Decimal[c.m_cost] \o TimeText(c))
VersionText(c)  == <<"$", "v", "=">> \o (Decimal[c.version] \o MemoryText(c))

\* One piece that begins with x, and the rest.
LEMMA Begins ==
    ASSUME NEW S, NEW s \in Seq(S), Len(s) > 0, NEW t \in Seq(S)
    PROVE  s \o t \in Seq(S) /\ s \o t # <<>> /\ (s \o t)[1] = s[1]
<1> DEFINE u == s \o t
           n == Len(s)
           m == Len(t)
<1>1. /\ u \in Seq(S) /\ Len(u) = n + m /\ n \in Nat /\ m \in Nat
      /\ \A i \in 1..(n + m) : u[i] = IF i <= n THEN s[i] ELSE t[i - n]
  BY ConcatProperties, LenProperties
<1> HIDE DEF u, n, m
<1>2. n > 0
  BY DEF n
<1>3. 1 \in 1..(n + m) /\ 1 <= n /\ n + m > 0
  BY <1>1, <1>2
<1>4. u[1] = s[1]
  BY <1>1, <1>3
<1>5. u # <<>>
  <2>1. Len(u) # 0
    BY <1>1, <1>3
  <2> QED BY <2>1
<1> QED BY <1>1, <1>4, <1>5 DEF u

\* Fourteen pieces, each of them a text.
AreTexts(S, p) == \A i \in 1..14 : p[i] \in Seq(S)

LEMMA FourteenPieces ==
    ASSUME NEW S, NEW p, AreTexts(S, p)
    PROVE  p[1] \o (p[2] \o (p[3] \o (p[4] \o (p[5] \o (p[6] \o (p[7] \o (p[8] \o (p[9]
              \o (p[10] \o (p[11] \o (p[12] \o (p[13] \o (p[14] \o <<>>)))))))))))))
           = p[1] \o p[2] \o p[3] \o p[4] \o p[5] \o p[6] \o p[7] \o p[8] \o p[9]
                \o p[10] \o p[11] \o p[12] \o p[13] \o p[14]
<1> DEFINE y15 == <<>>
           y14 == p[14] \o y15
           y13 == p[13] \o y14
           y12 == p[12] \o y13
           y11 == p[11] \o y12
           y10 == p[10] \o y11
           y9 == p[9] \o y10
           y8 == p[8] \o y9
           y7 == p[7] \o y8
           y6 == p[6] \o y7
           y5 == p[5] \o y6
           y4 == p[4] \o y5
           y3 == p[3] \o y4
           y2 == p[2] \o y3
           t == p[1] \o y2
           x1 == p[1]
           x2 == x1 \o p[2]
           x3 == x2 \o p[3]
           x4 == x3 \o p[4]
           x5 == x4 \o p[5]
           x6 == x5 \o p[6]
           x7 == x6 \o p[7]
           x8 == x7 \o p[8]
           x9 == x8 \o p[9]
           x10 == x9 \o p[10]
           x11 == x10 \o p[11]
           x12 == x11 \o p[12]
           x13 == x12 \o p[13]
           x14 == x13 \o p[14]
<1>1. y15 \in Seq(S) /\ \A u \in Seq(S) : u \o y15 = u
  BY ConcatEmptySeq
<1> HIDE DEF y15
<1>2. y14 \in Seq(S)
  <2>1. p[14] \in Seq(S)
    BY DEF AreTexts
  <2> QED BY <1>1, <2>1, ConcatProperties
<1> HIDE DEF y14
<1>3. y13 \in Seq(S)
  <2>1. p[13] \in Seq(S)
    BY DEF AreTexts
  <2> QED BY <1>2, <2>1, ConcatProperties
<1> HIDE DEF y13
<1>4. y12 \in Seq(S)
  <2>1. p[12] \in Seq(S)
    BY DEF AreTexts
  <2> QED BY <1>3, <2>1, ConcatProperties
<1> HIDE DEF y12
<1>5. y11 \in Seq(S)
  <2>1. p[11] \in Seq(S)
    BY DEF AreTexts
  <2> QED BY <1>4, <2>1, ConcatProperties
<1> HIDE DEF y11
<1>6. y10 \in Seq(S)
  <2>1. p[10] \in Seq(S)
    BY DEF AreTexts
  <2> QED BY <1>5, <2>1, ConcatProperties
<1> HIDE DEF y10
<1>7. y9 \in Seq(S)
  <2>1. p[9] \in Seq(S)
    BY DEF AreTexts
  <2> QED BY <1>6, <2>1, ConcatProperties
<1> HIDE DEF y9
<1>8. y8 \in Seq(S)
  <2>1. p[8] \in Seq(S)
    BY DEF AreTexts
  <2> QED BY <1>7, <2>1, ConcatProperties
<1> HIDE DEF y8
<1>9. y7 \in Seq(S)
  <2>1. p[7] \in Seq(S)
    BY DEF AreTexts
  <2> QED BY <1>8, <2>1, ConcatProperties
<1> HIDE DEF y7
<1>10. y6 \in Seq(S)
  <2>1. p[6] \in Seq(S)
    BY DEF AreTexts
  <2> QED BY <1>9, <2>1, ConcatProperties
<1> HIDE DEF y6
<1>11. y5 \in Seq(S)
  <2>1. p[5] \in Seq(S)
    BY DEF AreTexts
  <2> QED BY <1>10, <2>1, ConcatProperties
<1> HIDE DEF y5
<1>12. y4 \in Seq(S)
  <2>1. p[4] \in Seq(S)
    BY DEF AreTexts
  <2> QED BY <1>11, <2>1, ConcatProperties
<1> HIDE DEF y4
<1>13. y3 \in Seq(S)
  <2>1. p[3] \in Seq(S)
    BY DEF AreTexts
  <2> QED BY <1>12, <2>1, ConcatProperties
<1> HIDE DEF y3
<1>14. y2 \in Seq(S)
  <2>1. p[2] \in Seq(S)
    BY DEF AreTexts
  <2> QED BY <1>13, <2>1, ConcatProperties
<1> HIDE DEF y2
<1>15. x1 \in Seq(S) /\ t = x1 \o y2
  BY DEF AreTexts
<1> HIDE DEF t, x1
<1>16. x2 \in Seq(S) /\ t = x2 \o y3
  <2> DEFINE q == p[2]
  <2>1. q \in Seq(S)
    BY DEF AreTexts
  <2>2. t = x1 \o (q \o y3)
    BY <1>15, Zenon DEF y2
  <2> HIDE DEF q
  <2>3. x1 \in Seq(S)
    BY <1>15
  <2>4. (x1 \o q) \o y3 = x1 \o (q \o y3)
    BY <1>13, <2>1, <2>3, ConcatAssociative
  <2>5. x1 \o q \in Seq(S)
    BY <2>1, <2>3, ConcatProperties
  <2> QED BY <2>2, <2>4, <2>5, Zenon DEF q
<1> HIDE DEF x2
<1>17. x3 \in Seq(S) /\ t = x3 \o y4
  <2> DEFINE q == p[3]
  <2>1. q \in Seq(S)
    BY DEF AreTexts
  <2>2. t = x2 \o (q \o y4)
    BY <1>16, Zenon DEF y3
  <2> HIDE DEF q
  <2>3. x2 \in Seq(S)
    BY <1>16
  <2>4. (x2 \o q) \o y4 = x2 \o (q \o y4)
    BY <1>12, <2>1, <2>3, ConcatAssociative
  <2>5. x2 \o q \in Seq(S)
    BY <2>1, <2>3, ConcatProperties
  <2> QED BY <2>2, <2>4, <2>5, Zenon DEF q
<1> HIDE DEF x3
<1>18. x4 \in Seq(S) /\ t = x4 \o y5
  <2> DEFINE q == p[4]
  <2>1. q \in Seq(S)
    BY DEF AreTexts
  <2>2. t = x3 \o (q \o y5)
    BY <1>17, Zenon DEF y4
  <2> HIDE DEF q
  <2>3. x3 \in Seq(S)
    BY <1>17
  <2>4. (x3 \o q) \o y5 = x3 \o (q \o y5)
    BY <1>11, <2>1, <2>3, ConcatAssociative
  <2>5. x3 \o q \in Seq(S)
    BY <2>1, <2>3, ConcatProperties
  <2> QED BY <2>2, <2>4, <2>5, Zenon DEF q
<1> HIDE DEF x4
<1>19. x5 \in Seq(S) /\ t = x5 \o y6
  <2> DEFINE q == p[5]
  <2>1. q \in Seq(S)
    BY DEF AreTexts
  <2>2. t = x4 \o (q \o y6)
    BY <1>18, Zenon DEF y5
  <2> HIDE DEF q
  <2>3. x4 \in Seq(S)
    BY <1>18
  <2>4. (x4 \o q) \o y6 = x4 \o (q \o y6)
    BY <1>10, <2>1, <2>3, ConcatAssociative
  <2>5. x4 \o q \in Seq(S)
    BY <2>1, <2>3, ConcatProperties
  <2> QED BY <2>2, <2>4, <2>5, Zenon DEF q
<1> HIDE DEF x5
<1>20. x6 \in Seq(S) /\ t = x6 \o y7
  <2> DEFINE q == p[6]
  <2>1. q \in Seq(S)
    BY DEF AreTexts
  <2>2. t = x5 \o (q \o y7)
    BY <1>19, Zenon DEF y6
  <2> HIDE DEF q
  <2>3. x5 \in Seq(S)
    BY <1>19
  <2>4. (x5 \o q) \o y7 = x5 \o (q \o y7)
    BY <1>9, <2>1, <2>3, ConcatAssociative
  <2>5. x5 \o q \in Seq(S)
    BY <2>1, <2>3, ConcatProperties
  <2> QED BY <2>2, <2>4, <2>5, Zenon DEF q
<1> HIDE DEF x6
<1>21. x7 \in Seq(S) /\ t = x7 \o y8
  <2> DEFINE q == p[7]
  <2>1. q \in Seq(S)
    BY DEF AreTexts
  <2>2. t = x6 \o (q \o y8)
    BY <1>20, Zenon DEF y7
  <2> HIDE DEF q
  <2>3. x6 \in Seq(S)
    BY <1>20
  <2>4. (x6 \o q) \o y8 = x6 \o (q \o y8)
    BY <1>8, <2>1, <2>3, ConcatAssociative
  <2>5. x6 \o q \in Seq(S)
    BY <2>1, <2>3, ConcatProperties
  <2> QED BY <2>2, <2>4, <2>5, Zenon DEF q
<1> HIDE DEF x7
<1>22. x8 \in Seq(S) /\ t = x8 \o y9
  <2> DEFINE q == p[8]
  <2>1. q \in Seq(S)
    BY DEF AreTexts
  <2>2. t = x7 \o (q \o y9)
    BY <1>21, Zenon DEF y8
  <2> HIDE DEF q
  <2>3. x7 \in Seq(S)
    BY <1>21
  <2>4. (x7 \o q) \o y9 = x7 \o (q \o y9)
    BY <1>7, <2>1, <2>3, ConcatAssociative
  <2>5. x7 \o q \in Seq(S)
    BY <2>1, <2>3, ConcatProperties
  <2> QED BY <2>2, <2>4, <2>5, Zenon DEF q
<1> HIDE DEF x8
<1>23. x9 \in Seq(S) /\ t = x9 \o y10
  <2> DEFINE q == p[9]
  <2>1. q \in Seq(S)
    BY DEF AreTexts
  <2>2. t = x8 \o (q \o y10)
    BY <1>22, Zenon DEF y9
  <2> HIDE DEF q
  <2>3. x8 \in Seq(S)
    BY <1>22
  <2>4. (x8 \o q) \o y10 = x8 \o (q \o y10)
    BY <1>6, <2>1, <2>3, ConcatAssociative
  <2>5. x8 \o q \in Seq(S)
    BY <2>1, <2>3, ConcatProperties
  <2> QED BY <2>2, <2>4, <2>5, Zenon DEF q
<1> HIDE DEF x9
<1>24. x10 \in Seq(S) /\ t = x10 \o y11
  <2> DEFINE q == p[10]
  <2>1. q \in Seq(S)
    BY DEF AreTexts
  <2>2. t = x9 \o (q \o y11)
    BY <1>23, Zenon DEF y10
  <2> HIDE DEF q
  <2>3. x9 \in Seq(S)
    BY <1>23
  <2>4. (x9 \o q) \o y11 = x9 \o (q \o y11)
    BY <1>5, <2>1, <2>3, ConcatAssociative
  <2>5. x9 \o q \in Seq(S)
    BY <2>1, <2>3, ConcatProperties
  <2> QED BY <2>2, <2>4, <2>5, Zenon DEF q
<1> HIDE DEF x10
<1>25. x11 \in Seq(S) /\ t = x11 \o y12
  <2> DEFINE q == p[11]
  <2>1. q \in Seq(S)
    BY DEF AreTexts
  <2>2. t = x10 \o (q \o y12)
    BY <1>24, Zenon DEF y11
  <2> HIDE DEF q
  <2>3. x10 \in Seq(S)
    BY <1>24
  <2>4. (x10 \o q) \o y12 = x10 \o (q \o y12)
    BY <1>4, <2>1, <2>3, ConcatAssociative
  <2>5. x10 \o q \in Seq(S)
    BY <2>1, <2>3, ConcatProperties
  <2> QED BY <2>2, <2>4, <2>5, Zenon DEF q
<1> HIDE DEF x11
<1>26. x12 \in Seq(S) /\ t = x12 \o y13
  <2> DEFINE q == p[12]
  <2>1. q \in Seq(S)
    BY DEF AreTexts
  <2>2. t = x11 \o (q \o y13)
    BY <1>25, Zenon DEF y12
  <2> HIDE DEF q
  <2>3. x11 \in Seq(S)
    BY <1>25
  <2>4. (x11 \o q) \o y13 = x11 \o (q \o y13)
    BY <1>3, <2>1, <2>3, ConcatAssociative
  <2>5. x11 \o q \in Seq(S)
    BY <2>1, <2>3, ConcatProperties
  <2> QED BY <2>2, <2>4, <2>5, Zenon DEF q
<1> HIDE DEF x12
<1>27. x13 \in Seq(S) /\ t = x13 \o y14
  <2> DEFINE q == p[13]
  <2>1. q \in Seq(S)
    BY DEF AreTexts
  <2>2. t = x12 \o (q \o y14)
    BY <1>26, Zenon DEF y13
  <2> HIDE DEF q
  <2>3. x12 \in Seq(S)
    BY <1>26
  <2>4. (x12 \o q) \o y14 = x12 \o (q \o y14)
    BY <1>2, <2>1, <2>3, ConcatAssociative
  <2>5. x12 \o q \in Seq(S)
    BY <2>1, <2>3, ConcatProperties
  <2> QED BY <2>2, <2>4, <2>5, Zenon DEF q
<1> HIDE DEF x13
<1>28. x14 \in Seq(S) /\ t = x14 \o y15
  <2> DEFINE q == p[14]
  <2>1. q \in Seq(S)
    BY DEF AreTexts
  <2>2. t = x13 \o (q \o y15)
    BY <1>27, Zenon DEF y14
  <2> HIDE DEF q
  <2>3. x13 \in Seq(S)
    BY <1>27
  <2>4. (x13 \o q) \o y15 = x13 \o (q \o y15)
    BY SMTT(30), <1>1, <2>1, <2>3, ConcatAssociative
  <2>5. x13 \o q \in Seq(S)
    BY <2>1, <2>3, ConcatProperties
  <2> QED BY <2>2, <2>4, <2>5, Zenon DEF q
<1> HIDE DEF x14
<1>29. t = x14
  BY <1>1, <1>28, Zenon
<1> QED BY <1>29, Zenon DEF t, y2, y3, y4, y5, y6, y7, y8, y9, y10, y11, y12, y13, y14, y15,
                    x1, x2, x3, x4, x5, x6, x7, x8, x9, x10, x11, x12, x13, x14

\* The texts are texts, and each begins with its separator.
LEMMA TextsBegin ==
    ASSUME NEW c, IsHash(c)
    PROVE  /\ OutputText(c) \in Seq(Alphabet) /\ OutputText(c) # <<>> /\ OutputText(c)[1] = "$"
           /\ SaltText(c) \in Seq(Alphabet) /\ SaltText(c) # <<>> /\ SaltText(c)[1] = "$"
           /\ LanesText(c) \in Seq(Alphabet) /\ LanesText(c) # <<>> /\ LanesText(c)[1] \notin Digits
           /\ TimeText(c) \in Seq(Alphabet) /\ TimeText(c) # <<>> /\ TimeText(c)[1] \notin Digits
           /\ MemoryText(c) \in Seq(Alphabet) /\ MemoryText(c) # <<>> /\ MemoryText(c)[1] = "$"
           /\ VersionText(c) \in Seq(Alphabet) /\ VersionText(c) # <<>> /\ VersionText(c)[1] = "$"
<1> DEFINE S == Alphabet
           one == <<"$">>
           v == <<"$", "v", "=">>
           m == <<"$", "m", "=">>
           t == <<",", "t", "=">>
           p == <<",", "p", "=">>
           comma == ","
<1>1. "d" \in Types
  BY DEF Types
<1>2. /\ to_base64(c.salt) \in Seq(S) /\ to_base64(c.out) \in Seq(S)
      /\ Decimal[c.lanes] \in Seq(S) /\ Decimal[c.t_cost] \in Seq(S)
      /\ Decimal[c.m_cost] \in Seq(S) /\ Decimal[c.version] \in Seq(S)
  BY <1>1, FieldsAreText
<1>3. /\ one \in Seq(S) /\ Len(one) > 0 /\ v \in Seq(S) /\ Len(v) > 0
      /\ m \in Seq(S) /\ Len(m) > 0 /\ t \in Seq(S) /\ Len(t) > 0
      /\ p \in Seq(S) /\ Len(p) > 0
  <2>1. /\ one \in Seq(S) /\ Len(one) = 1 /\ v \in Seq(S) /\ Len(v) = 3
        /\ m \in Seq(S) /\ Len(m) = 3 /\ t \in Seq(S) /\ Len(t) = 3
        /\ p \in Seq(S) /\ Len(p) = 3
    BY SeparatorsAreText, Zenon
  <2> HIDE DEF one, v, m, t, p
  <2> QED BY <2>1
<1>4. one[1] = "$" /\ v[1] = "$" /\ m[1] = "$"
  OBVIOUS
<1>5. t[1] = comma /\ p[1] = comma
  BY Zenon
<1>6. comma \notin Digits
  BY SeparatorIsNoChar
<1> HIDE DEF S, one, v, m, t, p, comma
<1>7. \A x, y \in Seq(S) : x \o y \in Seq(S)
  BY ConcatProperties
<1>8. <<>> \in Seq(S)
  OBVIOUS
<1>9. OutputText(c) \in Seq(S) /\ OutputText(c) # <<>> /\ OutputText(c)[1] = "$"
  <2>1. to_base64(c.out) \o <<>> \in Seq(S)
    BY <1>2, <1>7, <1>8
  <2> QED BY <1>3, <1>4, <2>1, Begins DEF OutputText, one
<1>10. SaltText(c) \in Seq(S) /\ SaltText(c) # <<>> /\ SaltText(c)[1] = "$"
  <2>1. to_base64(c.salt) \o OutputText(c) \in Seq(S)
    BY <1>2, <1>7, <1>9
  <2> QED BY <1>3, <1>4, <2>1, Begins DEF SaltText, one
<1>11. LanesText(c) \in Seq(S) /\ LanesText(c) # <<>> /\ LanesText(c)[1] = comma
  <2> DEFINE u == Decimal[c.lanes] \o SaltText(c)
  <2>1. u \in Seq(S)
    BY <1>2, <1>7, <1>10
  <2>2. LanesText(c) = p \o u
    BY Zenon DEF LanesText, p
  <2>3. p \in Seq(S) /\ Len(p) > 0 /\ p[1] = comma
    BY <1>3, <1>5
  <2> HIDE DEF u
  <2>4. p \o u \in Seq(S) /\ p \o u # <<>> /\ (p \o u)[1] = p[1]
    BY <2>1, <2>3, Begins
  <2> QED BY <2>2, <2>3, <2>4, Zenon
<1>12. TimeText(c) \in Seq(S) /\ TimeText(c) # <<>> /\ TimeText(c)[1] = comma
  <2> DEFINE u == Decimal[c.t_cost] \o LanesText(c)
  <2>1. u \in Seq(S)
    BY <1>2, <1>7, <1>11
  <2>2. TimeText(c) = t \o u
    BY Zenon DEF TimeText, t
  <2>3. t \in Seq(S) /\ Len(t) > 0 /\ t[1] = comma
    BY <1>3, <1>5
  <2> HIDE DEF u
  <2>4. t \o u \in Seq(S) /\ t \o u # <<>> /\ (t \o u)[1] = t[1]
    BY <2>1, <2>3, Begins
  <2> QED BY <2>2, <2>3, <2>4, Zenon
<1>13. MemoryText(c) \in Seq(S) /\ MemoryText(c) # <<>> /\ MemoryText(c)[1] = "$"
  <2>1. Decimal[c.m_cost] \o TimeText(c) \in Seq(S)
    BY <1>2, <1>7, <1>12
  <2> QED BY <1>3, <1>4, <2>1, Begins DEF MemoryText, m
<1>14. VersionText(c) \in Seq(S) /\ VersionText(c) # <<>> /\ VersionText(c)[1] = "$"
  <2>1. Decimal[c.version] \o MemoryText(c) \in Seq(S)
    BY <1>2, <1>7, <1>13
  <2> QED BY <1>3, <1>4, <2>1, Begins DEF VersionText, v
<1> QED BY <1>6, <1>9, <1>10, <1>11, <1>12, <1>13, <1>14 DEF S

LEMMA TextFromItsEnd ==
    ASSUME NEW c, IsHash(c), NEW type \in Types
    PROVE  Text(c, type) = <<"$">> \o (type_string(type) \o VersionText(c))
<1> DEFINE S == Alphabet
           p1  == <<"$">>
           p2  == type_string(type)
           p3  == <<"$", "v", "=">>
           p4  == Decimal[c.version]
           p5  == <<"$", "m", "=">>
           p6  == Decimal[c.m_cost]
           p7  == <<",", "t", "=">>
           p8  == Decimal[c.t_cost]
           p9  == <<",", "p", "=">>
           p10 == Decimal[c.lanes]
           p12 == to_base64(c.salt)
           p14 == to_base64(c.out)
<1>1. /\ p2 \in Seq(S) /\ p4 \in Seq(S) /\ p6 \in Seq(S) /\ p8 \in Seq(S) /\ p10 \in Seq(S)
      /\ p12 \in Seq(S) /\ p14 \in Seq(S)
  BY FieldsAreText
<1>2. /\ p1 \in Seq(S) /\ p3 \in Seq(S) /\ p5 \in Seq(S) /\ p7 \in Seq(S) /\ p9 \in Seq(S)
  BY SeparatorsAreText
<1>3. Text(c, type) = p1 \o p2 \o p3 \o p4 \o p5 \o p6 \o p7 \o p8 \o p9 \o p10 \o p1 \o p12
                         \o p1 \o p14
  BY Zenon DEF Text
<1>4. <<"$">> \o (type_string(type) \o VersionText(c)) =
         p1 \o (p2 \o (p3 \o (p4 \o (p5 \o (p6 \o (p7 \o (p8 \o (p9 \o (p10 \o (p1 \o (p12
            \o (p1 \o (p14 \o <<>>)))))))))))))
  BY Zenon DEF VersionText, MemoryText, TimeText, LanesText, SaltText, OutputText
<1> DEFINE q == Pieces(c, type)
<1>5. /\ q[1] = p1 /\ q[2] = p2 /\ q[3] = p3 /\ q[4] = p4 /\ q[5] = p5 /\ q[6] = p6
      /\ q[7] = p7 /\ q[8] = p8 /\ q[9] = p9 /\ q[10] = p10 /\ q[11] = p1 /\ q[12] = p12
      /\ q[13] = p1 /\ q[14] = p14
  BY PiecesAre, Zenon
<1> HIDE DEF S, p1, p2, p3, p4, p5, p6, p7, p8, p9, p10, p12, p14, q
<1>6. AreTexts(S, q)
  <2> SUFFICES ASSUME NEW i \in 1..14 PROVE q[i] \in Seq(S)
    BY DEF AreTexts
  <2>1. \/ i = 1 \/ i = 2 \/ i = 3 \/ i = 4 \/ i = 5 \/ i = 6 \/ i = 7
        \/ i = 8 \/ i = 9 \/ i = 10 \/ i = 11 \/ i = 12 \/ i = 13 \/ i = 14
    OBVIOUS
  <2> QED BY <1>1, <1>2, <1>5, <2>1
<1>7. q[1] \o (q[2] \o (q[3] \o (q[4] \o (q[5] \o (q[6] \o (q[7] \o (q[8] \o (q[9]
         \o (q[10] \o (q[11] \o (q[12] \o (q[13] \o (q[14] \o <<>>)))))))))))))
      = q[1] \o q[2] \o q[3] \o q[4] \o q[5] \o q[6] \o q[7] \o q[8] \o q[9]
           \o q[10] \o q[11] \o q[12] \o q[13] \o q[14]
  BY <1>6, FourteenPieces
<1> QED BY <1>3, <1>4, <1>5, <1>7, Zenon

-----------------------------------------------------------------------------
(* Reading it again. *)

\* The parse of a string that was as it should be so far: it has the rest, and
\* in the fields F of its context what was written, in the others what b has.
Got(p, rest, c, b, F) ==
    /\ DOMAIN p = {"str", "ctx", "ret"} /\ p.str = rest /\ p.ret = "OK"
    /\ DOMAIN p.ctx = ContextFields
    /\ \A f \in ContextFields : p.ctx[f] = IF f \in F THEN c[f] ELSE b[f]

LEMMA GotIsRead ==
    ASSUME NEW p, NEW rest, NEW c, NEW b, NEW F, Got(p, rest, c, b, F)
    PROVE  Read(p, rest, p.ctx)
BY DEF Got, Read

LEMMA FieldRead ==
    ASSUME NEW p, NEW str, NEW c, NEW b, NEW F, Got(p, str, c, b, F),
           NEW f \in ContextFields, NEW rest, NEW q, Read(q, rest, [p.ctx EXCEPT ![f] = c[f]])
    PROVE  Got(q, rest, c, b, F \cup {f})
<1> DEFINE x == [p.ctx EXCEPT ![f] = c[f]]
<1>1. /\ DOMAIN x = ContextFields
      /\ \A g \in ContextFields : x[g] = IF g = f THEN c[g] ELSE p.ctx[g]
  BY DEF Got
<1> HIDE DEF x
<1>2. \A g \in ContextFields : x[g] = IF g \in F \cup {f} THEN c[g] ELSE b[g]
  BY <1>1 DEF Got
<1>3. DOMAIN q = {"str", "ctx", "ret"} /\ q.str = rest /\ q.ctx = x /\ q.ret = "OK"
  BY DEF Read, x
<1> QED BY <1>1, <1>2, <1>3 DEF Got

LEMMA GetPrefix ==
    ASSUME NEW S, NEW x \in Seq(S), NEW rest \in Seq(S), NEW c, NEW b, NEW F,
           NEW p, Got(p, x \o rest, c, b, F)
    PROVE  Got(CC(p, x), rest, c, b, F)
<1> DEFINE q == CC(p, x)
<1>1. Read(q, rest, p.ctx)
  BY GotIsRead, ReadPrefix
<1> HIDE DEF q
<1>2. DOMAIN q = {"str", "ctx", "ret"} /\ q.str = rest /\ q.ctx = p.ctx /\ q.ret = "OK"
  BY <1>1 DEF Read
<1>3. Got(q, rest, c, b, F)
  BY <1>2 DEF Got
<1> QED BY <1>3 DEF q

LEMMA GetNumber ==
    ASSUME NEW c, NEW f \in ContextFields, c[f] \in 0..UINT32_MAX,
           NEW S, Digits \subseteq S, NEW rest \in Seq(S), rest # <<>>, rest[1] \notin Digits,
           NEW b, NEW F, NEW p, Got(p, Decimal[c[f]] \o rest, c, b, F)
    PROVE  Got(DECIMAL_U32(p, f), rest, c, b, F \cup {f})
<1> DEFINE q == DECIMAL_U32(p, f)
           n == c[f]
<1>1. Read(p, Decimal[n] \o rest, p.ctx)
  BY GotIsRead
<1>2. n \in 0..UINT32_MAX
  OBVIOUS
<1> HIDE DEF n
<1>3. Read(q, rest, [p.ctx EXCEPT ![f] = n])
  BY <1>1, <1>2, ReadNumber
<1> HIDE DEF q
<1>4. Got(q, rest, c, b, F \cup {f})
  BY <1>3, FieldRead DEF n
<1> QED BY <1>4 DEF q

LEMMA GetVersion ==
    ASSUME NEW c, c.version \in 0..UINT32_MAX,
           NEW S, Digits \subseteq S, NEW x \in Seq(S),
           NEW rest \in Seq(S), rest # <<>>, rest[1] \notin Digits,
           NEW b, NEW F, NEW p, Got(p, x \o (Decimal[c.version] \o rest), c, b, F)
    PROVE  Got(CC_opt(p, x), rest, c, b, F \cup {"version"})
<1> DEFINE y == Decimal[c.version] \o rest
<1>1. y \in Seq(S)
  <2>1. IsDecimal(c.version)
    BY DecimalLength
  <2>2. Decimal[c.version] \in Seq(S)
    BY <2>1, SeqMonotonic DEF IsDecimal
  <2> QED BY <2>2, ConcatProperties
<1> HIDE DEF y
<1>2. Got(p, x \o y, c, b, F)
  BY DEF y
<1>3. Got(CC(p, x), y, c, b, F)
  BY <1>1, <1>2, GetPrefix
<1>4. "version" \in ContextFields
  BY DEF ContextFields
<1>5. Got(DECIMAL_U32(CC(p, x), "version"), rest, c, b, F \cup {"version"})
  BY <1>3, <1>4, GetNumber DEF y
<1>6. IsPrefix(x, p.str)
  <2>1. Len(x) <= Len(x \o y) /\ SubSeq(x \o y, 1, Len(x)) = x
    BY <1>1, Split
  <2>2. SubSeq(x, 1, Len(x)) = x
    BY SubSeqFull
  <2>3. p.str = x \o y
    BY <1>2 DEF Got
  <2> QED BY <2>1, <2>2, <2>3 DEF IsPrefix
<1>7. p.ret = "OK"
  BY DEF Got
<1>8. CC_opt(p, x) = DECIMAL_U32(CC(p, x), "version")
  BY <1>6, <1>7 DEF CC_opt
<1> QED BY <1>5, <1>8

LEMMA GetBytes ==
    ASSUME NEW c, NEW f \in ContextFields, NEW len \in ContextFields, f # len,
           IsBytes(c[f]), c[len] = Len(c[f]), c[len] <= UINT32_MAX,
           NEW S, Base64Chars \subseteq S, NEW rest \in Seq(S),
           rest = <<>> \/ rest[1] \notin Base64Chars,
           NEW b, b[len] \in Nat, NEW F, len \notin F,
           NEW p, Got(p, to_base64(c[f]) \o rest, c, b, F)
    PROVE  IF c[len] <= b[len] THEN Got(BIN(p, f, len), rest, c, b, F \cup {f, len})
           ELSE BIN(p, f, len).ret # "OK"
<1> DEFINE n == b[len]
           s == c[f]
           d == from_base64(n, to_base64(s) \o rest)
           x == [p.ctx EXCEPT ![f] = d.buf]
           y == [x EXCEPT ![len] = Len(d.buf)]
           q == [p EXCEPT !.ctx = x]
           r == [q EXCEPT !.str = d.str, !.ctx = y]
<1>1. n \in Nat /\ IsBytes(s) /\ Len(s) \in Nat /\ Len(s) <= UINT32_MAX
  BY LenProperties DEF IsBytes
<1>2. /\ Len(s) <= n => ~ d.null /\ d.buf = s /\ d.str = rest
      /\ n < Len(s) => d.null
  <2> HIDE DEF n, s, d
  <2> QED BY <1>1, DecodeBase64 DEF d
<1>3. p.ctx[len] = n /\ p.str = to_base64(s) \o rest /\ p.ret = "OK"
  BY DEF Got
<1>4. BIN(p, f, len) = IF d.null \/ Len(d.buf) > UINT32_MAX THEN DecodingFail(q) ELSE r
  BY <1>3 DEF BIN
<1> HIDE DEF d
<1>5. CASE Len(s) <= n
  <2>1. ~ d.null /\ d.buf = s /\ d.str = rest
    BY <1>2, <1>5
  <2>2. ~ (Len(d.buf) > UINT32_MAX)
    BY <1>1, <2>1, SizesAreNumbers
  <2>3. BIN(p, f, len) = r
    BY <1>4, <2>1, <2>2
  <2>4. /\ DOMAIN x = ContextFields
        /\ \A g \in ContextFields : x[g] = IF g = f THEN c[g] ELSE p.ctx[g]
    BY <2>1 DEF Got
  <2> HIDE DEF x
  <2>5. /\ DOMAIN y = ContextFields
        /\ \A g \in ContextFields : y[g] = IF g = len THEN c[g] ELSE x[g]
    BY <2>1, <2>4
  <2> HIDE DEF y
  <2>6. \A g \in ContextFields : y[g] = IF g \in F \cup {f, len} THEN c[g] ELSE b[g]
    BY <2>4, <2>5 DEF Got
  <2>7. DOMAIN q = {"str", "ctx", "ret"} /\ q.ret = "OK"
    BY DEF Got
  <2> HIDE DEF q
  <2>8. DOMAIN r = {"str", "ctx", "ret"} /\ r.str = rest /\ r.ctx = y /\ r.ret = "OK"
    BY <2>1, <2>7
  <2> HIDE DEF r
  <2>9. Got(r, rest, c, b, F \cup {f, len})
    BY <2>5, <2>6, <2>8 DEF Got
  <2> QED BY <1>5, <2>3, <2>9
<1>6. CASE n < Len(s)
  <2>1. BIN(p, f, len) = DecodingFail(q)
    BY <1>2, <1>4, <1>6
  <2>2. "ret" \in DOMAIN q
    BY DEF Got
  <2> HIDE DEF q
  <2>3. DecodingFail(q).ret = "DECODING_FAIL"
    BY <2>2 DEF DecodingFail
  <2>4. ~ (c[len] <= b[len])
    BY <1>1, <1>6
  <2> QED BY <2>1, <2>3, <2>4
<1> QED BY <1>1, <1>5, <1>6

Numbers == {"version", "m_cost", "t_cost", "lanes"}

LEMMA GetNumbers ==
    ASSUME NEW c, IsHash(c), NEW b, NEW p, Got(p, VersionText(c), c, b, {}),
           NEW q, q = DECIMAL_U32(CC(DECIMAL_U32(CC(DECIMAL_U32(CC(
                         CC_opt(p, <<"$", "v", "=">>), <<"$", "m", "=">>), "m_cost"),
                            <<",", "t", "=">>), "t_cost"), <<",", "p", "=">>), "lanes")
    PROVE  Got(q, SaltText(c), c, b, Numbers)
<1> DEFINE S == Alphabet
           vx == <<"$", "v", "=">>
           mx == <<"$", "m", "=">>
           tx == <<",", "t", "=">>
           px == <<",", "p", "=">>
           q1 == CC_opt(p, vx)
           q2 == CC(q1, mx)
           q3 == DECIMAL_U32(q2, "m_cost")
           q4 == CC(q3, tx)
           q5 == DECIMAL_U32(q4, "t_cost")
           q6 == CC(q5, px)
           q7 == DECIMAL_U32(q6, "lanes")
           F1 == {} \cup {"version"}
           F3 == F1 \cup {"m_cost"}
           F5 == F3 \cup {"t_cost"}
           F7 == F5 \cup {"lanes"}
           my == Decimal[c.m_cost] \o TimeText(c)
           ty == Decimal[c.t_cost] \o LanesText(c)
           py == Decimal[c.lanes] \o SaltText(c)
<1>1. vx \in Seq(S) /\ mx \in Seq(S) /\ tx \in Seq(S) /\ px \in Seq(S)
  BY SeparatorsAreText
<1>2. /\ VersionText(c) = vx \o (Decimal[c.version] \o MemoryText(c))
      /\ MemoryText(c) = mx \o my
      /\ TimeText(c) = tx \o ty
      /\ LanesText(c) = px \o py
  BY Zenon DEF VersionText, MemoryText, TimeText, LanesText
<1>3. q = q7
  BY Zenon
<1>4. F7 = Numbers
  BY DEF Numbers
<1> HIDE DEF vx, mx, tx, px
<1>5. /\ c.version \in 0..UINT32_MAX /\ c.m_cost \in 0..UINT32_MAX
      /\ c.t_cost \in 0..UINT32_MAX /\ c.lanes \in 0..UINT32_MAX
  BY DEF IsHash
<1>6. Digits \subseteq S
  BY Base64Facts DEF Alphabet
<1>7. /\ MemoryText(c) \in Seq(S) /\ MemoryText(c) # <<>> /\ MemoryText(c)[1] \notin Digits
      /\ TimeText(c) \in Seq(S) /\ TimeText(c) # <<>> /\ TimeText(c)[1] \notin Digits
      /\ LanesText(c) \in Seq(S) /\ LanesText(c) # <<>> /\ LanesText(c)[1] \notin Digits
      /\ SaltText(c) \in Seq(S) /\ SaltText(c) # <<>> /\ SaltText(c)[1] \notin Digits
  BY TextsBegin, SeparatorIsNoChar
<1>8. \A n \in 0..UINT32_MAX : Decimal[n] \in Seq(S)
  <2> SUFFICES ASSUME NEW n \in 0..UINT32_MAX PROVE Decimal[n] \in Seq(S)
    OBVIOUS
  <2>1. IsDecimal(n)
    BY DecimalLength
  <2> QED BY <1>6, <2>1, SeqMonotonic DEF IsDecimal
<1>9. my \in Seq(S) /\ ty \in Seq(S) /\ py \in Seq(S)
  <2>1. Decimal[c.m_cost] \in Seq(S) /\ Decimal[c.t_cost] \in Seq(S) /\ Decimal[c.lanes] \in Seq(S)
    BY <1>5, <1>8
  <2>2. TimeText(c) \in Seq(S) /\ LanesText(c) \in Seq(S) /\ SaltText(c) \in Seq(S)
    BY <1>7
  <2> QED BY <2>1, <2>2, ConcatProperties
<1>10. {"version", "m_cost", "t_cost", "lanes"} \subseteq ContextFields
  BY DEF ContextFields
<1> HIDE DEF S, F1, F3, F5, F7, my, ty, py, q1, q2, q3, q4, q5, q6, q7
<1>11. Got(q1, MemoryText(c), c, b, F1)
  <2>1. Got(p, vx \o (Decimal[c.version] \o MemoryText(c)), c, b, {})
    BY <1>2
  <2>2. MemoryText(c) \in Seq(S) /\ MemoryText(c) # <<>> /\ MemoryText(c)[1] \notin Digits
        /\ vx \in Seq(S) /\ c.version \in 0..UINT32_MAX
    BY <1>1, <1>5, <1>7
  <2> QED BY <1>6, <2>1, <2>2, GetVersion DEF q1, F1
<1>12. Got(q2, my, c, b, F1)
  <2>1. Got(q1, mx \o my, c, b, F1) /\ mx \in Seq(S) /\ my \in Seq(S)
    BY <1>1, <1>2, <1>9, <1>11
  <2> QED BY <2>1, GetPrefix DEF q2
<1>13. Got(q3, TimeText(c), c, b, F3)
  <2>1. TimeText(c) \in Seq(S) /\ TimeText(c) # <<>> /\ TimeText(c)[1] \notin Digits
        /\ c.m_cost \in 0..UINT32_MAX /\ "m_cost" \in ContextFields
    BY <1>5, <1>7, <1>10
  <2> QED BY <1>6, <1>12, <2>1, GetNumber DEF q3, F3, my
<1>14. Got(q4, ty, c, b, F3)
  <2>1. Got(q3, tx \o ty, c, b, F3) /\ tx \in Seq(S) /\ ty \in Seq(S)
    BY <1>1, <1>2, <1>9, <1>13
  <2> QED BY <2>1, GetPrefix DEF q4
<1>15. Got(q5, LanesText(c), c, b, F5)
  <2>1. LanesText(c) \in Seq(S) /\ LanesText(c) # <<>> /\ LanesText(c)[1] \notin Digits
        /\ c.t_cost \in 0..UINT32_MAX /\ "t_cost" \in ContextFields
    BY <1>5, <1>7, <1>10
  <2> QED BY <1>6, <1>14, <2>1, GetNumber DEF q5, F5, ty
<1>16. Got(q6, py, c, b, F5)
  <2>1. Got(q5, px \o py, c, b, F5) /\ px \in Seq(S) /\ py \in Seq(S)
    BY <1>1, <1>2, <1>9, <1>15
  <2> QED BY <2>1, GetPrefix DEF q6
<1>17. Got(q7, SaltText(c), c, b, F7)
  <2>1. SaltText(c) \in Seq(S) /\ SaltText(c) # <<>> /\ SaltText(c)[1] \notin Digits
        /\ c.lanes \in 0..UINT32_MAX /\ "lanes" \in ContextFields
    BY <1>5, <1>7, <1>10
  <2> QED BY <1>6, <1>16, <2>1, GetNumber DEF q7, F7, py
<1> QED BY <1>3, <1>4, <1>17

\* Where a prefix is not what the string begins with.
LEMMA NoPrefix ==
    ASSUME NEW x, NEW str, NEW i \in 1..Len(x), Len(x) \in Nat, Len(str) \in Nat,
           str[i] # x[i],
           Len(x) <= Len(str) => /\ SubSeq(x, 1, Len(x))[i] = x[i]
                                 /\ SubSeq(str, 1, Len(x))[i] = str[i]
    PROVE  ~ IsPrefix(x, str)
BY DEF IsPrefix

LEMMA OtherBeginning ==
    ASSUME NEW S, NEW x \in Seq(S), NEW str \in Seq(S), NEW i \in 1..Len(x), str[i] # x[i]
    PROVE  ~ IsPrefix(x, str)
<1>1. Len(x) \in Nat /\ Len(str) \in Nat
  BY LenProperties
<1>2. SubSeq(x, 1, Len(x))[i] = x[i]
  BY SubSeqFull
<1>3. ASSUME Len(x) <= Len(str) PROVE SubSeq(str, 1, Len(x))[i] = str[i]
  <2>1. Len(x) \in 0..Len(str)
    BY <1>1, <1>3
  <2> QED BY <2>1, FirstFacts
<1> QED BY <1>1, <1>2, <1>3, NoPrefix

\* Reading fails at the first prefix that is not there, and for good.
LEMMA CCFails ==
    ASSUME NEW p, "ret" \in DOMAIN p, NEW x, p.ret = "OK" => ~ IsPrefix(x, p.str)
    PROVE  CC(p, x).ret # "OK"
<1>1. CASE p.ret # "OK"
  BY <1>1, FailureStays
<1>2. CASE p.ret = "OK"
  <2>1. CC(p, x) = DecodingFail(p)
    BY <1>2 DEF CC
  <2> QED BY <2>1 DEF DecodingFail
<1> QED BY <1>1, <1>2

LEMMA NumbersFail ==
    ASSUME NEW p, NEW x1, NEW x2, NEW x3, CC(p, x1).ret # "OK"
    PROVE  DECIMAL_U32(CC(DECIMAL_U32(CC(DECIMAL_U32(CC(p, x1), "m_cost"), x2), "t_cost"), x3),
                       "lanes").ret # "OK"
<1> DEFINE q == CC(p, x1)
<1> HIDE DEF q
<1>1. q.ret # "OK"
  BY DEF q
<1>2. CC(q, x2) = q /\ CC(q, x3) = q
  BY <1>1, FailureStays
<1>3. DECIMAL_U32(q, "m_cost") = q /\ DECIMAL_U32(q, "t_cost") = q /\ DECIMAL_U32(q, "lanes") = q
  BY <1>1, FailureStays
<1>4. DECIMAL_U32(CC(DECIMAL_U32(CC(DECIMAL_U32(q, "m_cost"), x2), "t_cost"), x3), "lanes") = q
  BY <1>2, <1>3, Zenon
<1> QED BY <1>1, <1>4, Zenon DEF q

LEMMA GetParameters ==
    ASSUME NEW c, IsHash(c), NEW type \in Types, NEW b, NEW p, Got(p, Text(c, type), c, b, {})
    PROVE  Got(Parameters(p, type), SaltText(c), c, b, Numbers)
<1> DEFINE S  == Alphabet
           x1 == <<"$">>
           x2 == type_string(type)
           y  == VersionText(c)
           y2 == x2 \o y
           q1 == CC(p, x1)
           q2 == CC(q1, x2)
<1>1. Text(c, type) = x1 \o y2
  BY TextFromItsEnd
<1>2. Parameters(p, type) =
         DECIMAL_U32(CC(DECIMAL_U32(CC(DECIMAL_U32(CC(
            CC_opt(q2, <<"$", "v", "=">>), <<"$", "m", "=">>), "m_cost"),
               <<",", "t", "=">>), "t_cost"), <<",", "p", "=">>), "lanes")
  BY Zenon DEF Parameters
<1>3. x1 \in Seq(S) /\ x2 \in Seq(S) /\ y \in Seq(S)
  BY SeparatorsAreText, FieldsAreText, TextsBegin
<1> HIDE DEF S, x1, x2, y
<1>4. y2 \in Seq(S)
  BY <1>3, ConcatProperties
<1> HIDE DEF y2, q1, q2
<1>5. Got(q1, y2, c, b, {})
  <2>1. Got(p, x1 \o y2, c, b, {})
    BY <1>1
  <2> QED BY <1>3, <1>4, <2>1, GetPrefix DEF q1
<1>6. Got(q2, y, c, b, {})
  <2>1. Got(q1, x2 \o y, c, b, {})
    BY <1>5 DEF y2
  <2> QED BY <1>3, <2>1, GetPrefix DEF q2
<1>7. Got(q2, VersionText(c), c, b, {})
  BY <1>6 DEF y
<1> QED BY <1>2, <1>7, GetNumbers

LEMMA TypeStrings ==
    /\ type_string("d") = <<"argon2", "d">>
    /\ type_string("i") = <<"argon2", "i">>
    /\ type_string("id") = <<"argon2", "i", "d">>
BY Zenon DEF type_string

\* The string of one type is none of another: the second letter differs, or the
\* one string goes on where the other has its first separator.
LEMMA WrongType ==
    ASSUME NEW c, IsHash(c), NEW type \in Types, NEW t \in Types, t # type,
           NEW b, NEW p, Got(p, Text(c, type), c, b, {})
    PROVE  Parameters(p, t).ret # "OK"
<1> DEFINE S  == Alphabet
           x1 == <<"$">>
           mx == <<"$", "m", "=">>
           vx == <<"$", "v", "=">>
           u  == type_string(type)
           x2 == type_string(t)
           y  == VersionText(c)
           y2 == u \o y
           q1 == CC(p, x1)
           q2 == CC(q1, x2)
           q3 == CC_opt(q2, vx)
           q4 == CC(q3, mx)
<1>1. Text(c, type) = x1 \o y2
  BY TextFromItsEnd
<1>2. Parameters(p, t) =
         DECIMAL_U32(CC(DECIMAL_U32(CC(DECIMAL_U32(q4, "m_cost"),
            <<",", "t", "=">>), "t_cost"), <<",", "p", "=">>), "lanes")
  BY Zenon DEF Parameters
<1>3. x1 \in Seq(S) /\ x2 \in Seq(S) /\ u \in Seq(S) /\ y \in Seq(S) /\ y # <<>> /\ y[1] = "$"
  BY SeparatorsAreText, FieldsAreText, TextsBegin
<1>4. mx \in Seq(S) /\ Len(mx) = 3 /\ vx \in Seq(S) /\ Len(vx) = 3 /\ mx[1] = "$" /\ vx[1] = "$"
  BY SeparatorsAreText
<1> HIDE DEF S, x1, y, mx, vx
<1>5. /\ y2 \in Seq(S)
      /\ \A i \in 1..Len(u) : y2[i] = u[i]
      /\ y2[Len(u) + 1] = "$"
  BY <1>3, Split
<1> HIDE DEF y2
<1>6. Got(q1, y2, c, b, {})
  <2>1. Got(p, x1 \o y2, c, b, {})
    BY <1>1
  <2> QED BY <1>3, <1>5, <2>1, GetPrefix DEF q1
<1>7. q1.str = y2 /\ q1.ret = "OK" /\ DOMAIN q1 = {"str", "ctx", "ret"}
  BY <1>6 DEF Got
<1> HIDE DEF q1
<1>8. ASSUME q4.ret # "OK" PROVE Parameters(p, t).ret # "OK"
  <2>1. CC(q3, mx).ret # "OK"
    BY <1>8
  <2> HIDE DEF q3
  <2> QED BY <1>2, <2>1, NumbersFail
<1>9. ASSUME ~ IsPrefix(x2, y2) PROVE q4.ret # "OK"
  <2>1. CC(q1, x2).ret # "OK"
    BY <1>7, <1>9, CCFails
  <2> HIDE DEF q2
  <2>2. q2.ret # "OK"
    BY <2>1 DEF q2
  <2>3. q3 = q2
    BY <2>2, FailureStays
  <2> HIDE DEF q3
  <2>4. q4 = q3
    BY <2>2, <2>3, FailureStays
  <2> QED BY <2>2, <2>3, <2>4
<1>10. \/ type = "d" /\ t \in {"i", "id"}
       \/ type \in {"i", "id"} /\ t = "d"
       \/ type = "i" /\ t = "id"
       \/ type = "id" /\ t = "i"
  BY DEF Types
<1>11. ASSUME NEW i \in 1..Len(x2), y2[i] # x2[i] PROVE ~ IsPrefix(x2, y2)
  BY <1>3, <1>5, <1>11, OtherBeginning
<1>12. CASE \/ type = "d" /\ t \in {"i", "id"}
            \/ type \in {"i", "id"} /\ t = "d"
  <2>1. 2 \in 1..Len(u) /\ 2 \in 1..Len(x2) /\ u[2] # x2[2]
    BY <1>12, TypeStrings
  <2>2. y2[2] # x2[2]
    BY <1>5, <2>1
  <2> QED BY <1>8, <1>9, <1>11, <2>1, <2>2
<1>13. CASE type = "i" /\ t = "id"
  <2>1. Len(u) = 2 /\ 3 \in 1..Len(x2) /\ x2[3] = "d"
    BY <1>13, TypeStrings
  <2>2. y2[3] # x2[3]
    <3>1. y2[Len(u) + 1] = "$" /\ Len(u) + 1 = 3
      BY <1>5, <2>1
    <3> QED BY <2>1, <3>1
  <2> QED BY <1>8, <1>9, <1>11, <2>1, <2>2
<1>14. CASE type = "id" /\ t = "i"
  <2> DEFINE e == <<"d">>
             z == e \o y
  <2>1. u = <<"argon2", "i", "d">> /\ x2 = <<"argon2", "i">>
    BY <1>14, TypeStrings
  <2>2. e \in Seq(S) /\ Len(e) = 1 /\ e[1] = "d"
    BY DEF S, Alphabet
  <2>3. u = x2 \o e
    BY <2>1
  <2> HIDE DEF u, x2, e
  <2>4. y2 = x2 \o z /\ z \in Seq(S) /\ z[1] = "d"
    <3>1. (x2 \o e) \o y = x2 \o (e \o y)
      BY SMTT(30), <1>3, <2>2, ConcatAssociative
    <3>2. z \in Seq(S) /\ z[1] = e[1]
      <4>1. e \in Seq(S) /\ Len(e) > 0 /\ y \in Seq(S)
        BY <1>3, <2>2
      <4> QED BY <4>1, Begins
    <3> QED BY <2>2, <2>3, <3>1, <3>2, Zenon DEF y2
  <2> HIDE DEF z
  <2>5. Got(q2, z, c, b, {})
    <3>1. Got(q1, x2 \o z, c, b, {})
      BY <1>6, <2>4
    <3> QED BY <1>3, <2>4, <3>1, GetPrefix
  <2> HIDE DEF q2
  <2>6. q2.str = z /\ q2.ret = "OK" /\ DOMAIN q2 = {"str", "ctx", "ret"}
    BY <2>5 DEF Got
  <2>7. ~ IsPrefix(vx, z) /\ ~ IsPrefix(mx, z)
    <3>1. 1 \in 1..Len(vx) /\ z[1] # vx[1] /\ 1 \in 1..Len(mx) /\ z[1] # mx[1]
      BY <1>4, <2>4
    <3> QED BY <1>4, <2>4, <3>1, OtherBeginning
  <2>8. q3 = [q2 EXCEPT !.ctx.version = Version10]
    BY <2>6, <2>7 DEF CC_opt
  <2>9. q3.str = z /\ "ret" \in DOMAIN q3
    BY <2>6, <2>8
  <2> HIDE DEF q3
  <2>10. q4.ret # "OK"
    BY <2>7, <2>9, CCFails
  <2> QED BY <1>8, <2>10
<1> QED BY <1>10, <1>12, <1>13, <1>14

LEMMA GetSaltAndOutput ==
    ASSUME NEW c, IsHash(c), NEW b, b.saltlen \in Nat, b.outlen \in Nat,
           NEW p, Got(p, SaltText(c), c, b, Numbers), NEW q, q = SaltAndOutput(p)
    PROVE  IF c.saltlen <= b.saltlen /\ c.outlen <= b.outlen
           THEN Got(q, <<>>, c, b, Numbers \cup {"salt", "saltlen", "out", "outlen"})
           ELSE q.ret # "OK"
<1> DEFINE S  == Alphabet
           x  == <<"$">>
           y  == to_base64(c.salt) \o OutputText(c)
           z  == to_base64(c.out) \o <<>>
           q1 == CC(p, x)
           q2 == BIN(q1, "salt", "saltlen")
           q3 == CC(q2, x)
           q4 == BIN(q3, "out", "outlen")
           F2 == Numbers \cup {"salt", "saltlen"}
           F4 == F2 \cup {"out", "outlen"}
<1>1. SaltText(c) = x \o y /\ OutputText(c) = x \o z /\ q = q4
  BY Zenon DEF SaltText, OutputText, SaltAndOutput
<1>2. /\ x \in Seq(S) /\ OutputText(c) \in Seq(S) /\ OutputText(c)[1] \notin Base64Chars
      /\ Base64Chars \subseteq S /\ <<>> \in Seq(S)
  <2>1. x \in Seq(S)
    BY SeparatorsAreText
  <2>2. OutputText(c) \in Seq(S) /\ OutputText(c)[1] = "$"
    BY TextsBegin
  <2>3. Base64Chars \subseteq S
    BY DEF Alphabet
  <2>4. <<>> \in Seq(S)
    OBVIOUS
  <2> HIDE DEF S, x
  <2> QED BY <2>1, <2>2, <2>3, <2>4, SeparatorIsNoChar
<1>3. /\ IsBytes(c.salt) /\ c.saltlen = Len(c.salt) /\ IsBytes(c.out) /\ c.outlen = Len(c.out)
      /\ c.saltlen \in 0..UINT32_MAX /\ c.outlen \in 0..UINT32_MAX
  BY DEF IsHash
<1>4. /\ c.saltlen <= UINT32_MAX /\ c.outlen <= UINT32_MAX /\ c.saltlen \in Nat /\ c.outlen \in Nat
  BY <1>3, SizesAreNumbers
<1>5. y \in Seq(S) /\ z \in Seq(S)
  <2>1. "d" \in Types
    BY DEF Types
  <2>2. to_base64(c.salt) \in Seq(S) /\ to_base64(c.out) \in Seq(S)
    BY <2>1, FieldsAreText
  <2> QED BY <1>2, <2>2, ConcatProperties
<1>6. {"salt", "saltlen", "out", "outlen"} \subseteq ContextFields
  BY DEF ContextFields
<1>7. "saltlen" \notin Numbers /\ "outlen" \notin F2
  BY DEF Numbers
<1>8. F4 = Numbers \cup {"salt", "saltlen", "out", "outlen"}
  OBVIOUS
<1> HIDE DEF S, x, y, z, q1, q2, q3, q4, F2, F4
<1>9. Got(q1, y, c, b, Numbers)
  <2>1. Got(p, x \o y, c, b, Numbers)
    BY <1>1
  <2> QED BY <1>2, <1>5, <2>1, GetPrefix DEF q1
<1>10. IF c.saltlen <= b.saltlen THEN Got(q2, OutputText(c), c, b, F2) ELSE q2.ret # "OK"
  <2>1. /\ OutputText(c) \in Seq(S) /\ OutputText(c)[1] \notin Base64Chars /\ Base64Chars \subseteq S
    BY <1>2
  <2>2. /\ "salt" \in ContextFields /\ "saltlen" \in ContextFields
    BY <1>6
  <2>3. IsBytes(c["salt"]) /\ c["saltlen"] = Len(c["salt"]) /\ c["saltlen"] <= UINT32_MAX
    BY <1>3, <1>4
  <2>4. b["saltlen"] \in Nat /\ "saltlen" \notin Numbers
    BY <1>7
  <2>5. Got(q1, to_base64(c["salt"]) \o OutputText(c), c, b, Numbers)
    BY <1>9 DEF y
  <2>6. IF c["saltlen"] <= b["saltlen"]
        THEN Got(BIN(q1, "salt", "saltlen"), OutputText(c), c, b, Numbers \cup {"salt", "saltlen"})
        ELSE BIN(q1, "salt", "saltlen").ret # "OK"
    BY <2>1, <2>2, <2>3, <2>4, <2>5, GetBytes
  <2> QED BY <2>6 DEF q2, F2
<1>11. CASE c.saltlen <= b.saltlen
  <2>1. Got(q2, x \o z, c, b, F2)
    BY <1>1, <1>10, <1>11
  <2>2. Got(q3, z, c, b, F2)
    BY <1>2, <1>5, <2>1, GetPrefix DEF q3
  <2>3. IF c.outlen <= b.outlen THEN Got(q4, <<>>, c, b, F4) ELSE q4.ret # "OK"
    <3>1. /\ <<>> \in Seq(S) /\ Base64Chars \subseteq S
      BY <1>2
    <3>2. /\ "out" \in ContextFields /\ "outlen" \in ContextFields
      BY <1>6
    <3>3. IsBytes(c["out"]) /\ c["outlen"] = Len(c["out"]) /\ c["outlen"] <= UINT32_MAX
      BY <1>3, <1>4
    <3>4. b["outlen"] \in Nat /\ "outlen" \notin F2
      BY <1>7
    <3>5. Got(q3, to_base64(c["out"]) \o <<>>, c, b, F2)
      BY <2>2 DEF z
    <3>6. IF c["outlen"] <= b["outlen"]
          THEN Got(BIN(q3, "out", "outlen"), <<>>, c, b, F2 \cup {"out", "outlen"})
          ELSE BIN(q3, "out", "outlen").ret # "OK"
      BY <3>1, <3>2, <3>3, <3>4, <3>5, GetBytes
    <3> QED BY <3>6 DEF q4, F4
  <2> QED BY <1>1, <1>8, <1>11, <2>3
<1>12. CASE ~ (c.saltlen <= b.saltlen)
  <2>1. q2.ret # "OK"
    BY <1>10, <1>12
  <2>2. q3 = q2
    BY <2>1, FailureStays DEF q3
  <2>3. q4 = q3
    BY <2>1, <2>2, FailureStays DEF q4
  <2> QED BY <1>1, <1>12, <2>1, <2>2, <2>3
<1> QED BY <1>11, <1>12

LEMMA NothingMoreIsRead ==
    ASSUME NEW p, p.ret # "OK"
    PROVE  SaltAndOutput(p) = p
<1>1. CC(p, <<"$">>) = p /\ BIN(p, "salt", "saltlen") = p /\ BIN(p, "out", "outlen") = p
  BY FailureStays
<1> QED BY <1>1, Zenon DEF SaltAndOutput

LEMMA DefaultsFields ==
    ASSUME NEW x, DOMAIN x = ContextFields, NEW y, y = Defaults(x)
    PROVE  /\ y.out = x.out /\ y.outlen = x.outlen /\ y.salt = x.salt /\ y.saltlen = x.saltlen
           /\ y.pwd = x.pwd /\ y.pwdlen = x.pwdlen
           /\ y.version = x.version /\ y.t_cost = x.t_cost /\ y.m_cost = x.m_cost
           /\ y.lanes = x.lanes /\ y.threads = x.lanes
<1>1. /\ y.out = x.out /\ y.outlen = x.outlen /\ y.salt = x.salt /\ y.saltlen = x.saltlen
      /\ y.pwd = x.pwd /\ y.pwdlen = x.pwdlen
  BY DEF Defaults, ContextFields
<1>2. /\ y.version = x.version /\ y.t_cost = x.t_cost /\ y.m_cost = x.m_cost
      /\ y.lanes = x.lanes /\ y.threads = x.lanes
  BY DEF Defaults, ContextFields
<1> QED BY <1>1, <1>2

LEMMA DefaultsRest ==
    ASSUME NEW x, DOMAIN x = ContextFields, NEW y, y = Defaults(x)
    PROVE  /\ y.secret = NULL /\ y.secretlen = 0 /\ y.ad = NULL /\ y.adlen = 0
           /\ ~ y.allocate_cbk /\ ~ y.free_cbk /\ y.flags = {} /\ DOMAIN y = ContextFields
<1>1. y.secret = NULL /\ y.secretlen = 0 /\ y.ad = NULL /\ y.adlen = 0
  BY DEF Defaults, ContextFields
<1>2. ~ y.allocate_cbk /\ ~ y.free_cbk
  BY DEF Defaults, ContextFields
<1>3. y.flags = {} /\ DOMAIN y = ContextFields
  BY DEF Defaults, ContextFields
<1> QED BY <1>1, <1>2, <1>3

\* What was accepted when it was encoded is accepted when it is decoded, if the
\* password that belongs to it has its length.
LEMMA StillValid ==
    ASSUME NEW c, validate_inputs(c) = "OK", NEW x, DOMAIN x = ContextFields,
           x.out = c.out, x.outlen = c.outlen, x.salt = c.salt, x.saltlen = c.saltlen,
           x.t_cost = c.t_cost, x.m_cost = c.m_cost, x.lanes = c.lanes
    PROVE  validate_inputs(Defaults(x)) = "OK" <=> ValidBuffer(x.pwd, x.pwdlen, 0)
<1> DEFINE y == Defaults(x)
<1>1. Valid(c)
  BY ValidateInputs
<1>2. y = Defaults(x)
  OBVIOUS
<1> HIDE DEF y
<1>3. /\ y.out = c.out /\ y.outlen = c.outlen /\ y.salt = c.salt /\ y.saltlen = c.saltlen
      /\ y.pwd = x.pwd /\ y.pwdlen = x.pwdlen /\ y.t_cost = c.t_cost /\ y.m_cost = c.m_cost
      /\ y.lanes = c.lanes /\ y.threads = c.lanes
  BY <1>2, DefaultsFields
<1>4. /\ y.secret = NULL /\ y.secretlen = 0 /\ y.ad = NULL /\ y.adlen = 0
      /\ ~ y.allocate_cbk /\ ~ y.free_cbk
  BY <1>2, DefaultsRest
<1>5. ValidOutput(y)
  BY <1>1, <1>3 DEF Valid, ValidOutput
<1>6. ValidBuffer(y.salt, y.saltlen, MinSaltLength)
  BY <1>1, <1>3 DEF Valid
<1>7. ValidBuffer(y.secret, y.secretlen, 0) /\ ValidBuffer(y.ad, y.adlen, 0)
  <2>1. ValidBuffer(NULL, 0, 0)
    BY SizesAreNumbers DEF ValidBuffer
  <2> QED BY <1>4, <2>1
<1>8. ValidSizes(y)
  BY <1>1, <1>3 DEF Valid, ValidSizes
<1>9. ValidThreads(y)
  BY <1>1, <1>3 DEF Valid, ValidSizes, ValidThreads
<1>10. ValidCallbacks(y)
  BY <1>4 DEF ValidCallbacks
<1>11. Valid(y) <=> ValidBuffer(x.pwd, x.pwdlen, 0)
  BY <1>3, <1>5, <1>6, <1>7, <1>8, <1>9, <1>10 DEF Valid
<1> QED BY <1>11, ValidateInputs DEF y

\* The context decode_string makes of the text of c, for the password of b.
DecodedAs(x, c, b) ==
    /\ DOMAIN x = ContextFields /\ validate_inputs(x) = "OK"
    /\ \A f \in {"version", "t_cost", "m_cost", "lanes", "salt", "saltlen", "out", "outlen"} :
          x[f] = c[f]
    /\ x.pwd = b.pwd /\ x.pwdlen = b.pwdlen
    /\ x.secret = NULL /\ x.secretlen = 0 /\ x.ad = NULL /\ x.adlen = 0 /\ x.flags = {}

\* What encode_string wrote, decode_string reads: as the same hash if it is asked
\* for its type, has the room, and was given a password with its length; and
\* otherwise not at all.
THEOREM DecodeEncoded ==
    ASSUME NEW c, IsHash(c), validate_inputs(c) = "OK", NEW type \in Types, NEW t \in Types,
           NEW b, DOMAIN b = ContextFields, b.saltlen \in Nat, b.outlen \in Nat,
           NEW d, d = decode_string(b, Text(c, type), t)
    PROVE  IF /\ t = type /\ c.saltlen <= b.saltlen /\ c.outlen <= b.outlen
              /\ ValidBuffer(b.pwd, b.pwdlen, 0)
           THEN d.ret = "OK" /\ DecodedAs(d.ctx, c, b)
           ELSE d.ret # "OK"
<1> DEFINE start == [str |-> Text(c, type), ctx |-> b, ret |-> "OK"]
           p     == Parameters(start, t)
           q     == SaltAndOutput(p)
           read  == [q EXCEPT !.ctx = Defaults(@)]
<1>1. d = IF q.ret # "OK" THEN q ELSE Validated(read)
  BY DEF decode_string
<1>2. Got(start, Text(c, type), c, b, {})
  <2>1. /\ DOMAIN start = {"str", "ctx", "ret"} /\ start.str = Text(c, type) /\ start.ctx = b
        /\ start.ret = "OK"
    OBVIOUS
  <2> HIDE DEF start
  <2> QED BY <2>1 DEF Got
<1> HIDE DEF start
<1>3. CASE t # type
  <2>1. p.ret # "OK"
    BY <1>2, <1>3, WrongType
  <2> HIDE DEF p
  <2>2. q = p
    BY <2>1, NothingMoreIsRead
  <2> QED BY <1>1, <1>3, <2>1, <2>2
<1>4. CASE t = type
  <2>1. Got(p, SaltText(c), c, b, Numbers)
    BY <1>2, <1>4, GetParameters
  <2> HIDE DEF p
  <2> DEFINE F == Numbers \cup {"salt", "saltlen", "out", "outlen"}
  <2>2. IF c.saltlen <= b.saltlen /\ c.outlen <= b.outlen THEN Got(q, <<>>, c, b, F)
        ELSE q.ret # "OK"
    BY <2>1, GetSaltAndOutput
  <2> HIDE DEF q
  <2>3. CASE ~ (c.saltlen <= b.saltlen /\ c.outlen <= b.outlen)
    BY <1>1, <2>2, <2>3
  <2>4. CASE c.saltlen <= b.saltlen /\ c.outlen <= b.outlen
    <3>1. Got(q, <<>>, c, b, F)
      BY <2>2, <2>4
    <3> DEFINE x == q.ctx
    <3>2. /\ DOMAIN q = {"str", "ctx", "ret"} /\ q.str = <<>> /\ q.ret = "OK"
          /\ DOMAIN x = ContextFields
          /\ \A f \in ContextFields : x[f] = IF f \in F THEN c[f] ELSE b[f]
      BY <3>1 DEF Got
    <3>3. /\ x.out = c.out /\ x.outlen = c.outlen /\ x.salt = c.salt /\ x.saltlen = c.saltlen
          /\ x.t_cost = c.t_cost /\ x.m_cost = c.m_cost /\ x.lanes = c.lanes
          /\ x.version = c.version
      BY <3>2 DEF F, Numbers, ContextFields
    <3>4. x.pwd = b.pwd /\ x.pwdlen = b.pwdlen
      BY <3>2 DEF F, Numbers, ContextFields
    <3>5. read.ctx = Defaults(x) /\ read.str = <<>> /\ DOMAIN read = {"str", "ctx", "ret"}
      BY <3>2
    <3>6. d = Validated(read)
      BY <1>1, <3>2
    <3> HIDE DEF x, read
    <3> DEFINE y    == Defaults(x)
               code == validate_inputs(y)
    <3>7. code = "OK" <=> ValidBuffer(b.pwd, b.pwdlen, 0)
      BY <3>2, <3>3, <3>4, StillValid
    <3>8. d.ctx = y /\ (d.ret = "OK" <=> code = "OK")
      BY <3>5, <3>6 DEF Validated
    <3>9. y = Defaults(x)
      OBVIOUS
    <3> HIDE DEF y
    <3>10. /\ y.out = x.out /\ y.outlen = x.outlen /\ y.salt = x.salt /\ y.saltlen = x.saltlen
           /\ y.pwd = x.pwd /\ y.pwdlen = x.pwdlen
           /\ y.version = x.version /\ y.t_cost = x.t_cost /\ y.m_cost = x.m_cost
           /\ y.lanes = x.lanes
      BY <3>2, <3>9, DefaultsFields
    <3>11. \A f \in {"version", "t_cost", "m_cost", "lanes", "salt", "saltlen", "out", "outlen"} :
              y[f] = c[f]
      BY <3>3, <3>10
    <3>12. /\ y.secret = NULL /\ y.secretlen = 0 /\ y.ad = NULL /\ y.adlen = 0 /\ y.flags = {}
           /\ DOMAIN y = ContextFields
      BY <3>2, <3>9, DefaultsRest
    <3>13. code = "OK" => DecodedAs(y, c, b)
      BY <3>4, <3>10, <3>11, <3>12 DEF DecodedAs
    <3> QED BY <1>4, <2>4, <3>7, <3>8, <3>13
  <2> QED BY <2>3, <2>4
<1> QED BY <1>3, <1>4
=============================================================================
