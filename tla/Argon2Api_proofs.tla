-------------------------- MODULE Argon2Api_proofs --------------------------
(***************************************************************************)
(* What the library's functions promise their callers, for all arguments    *)
(* and whatever fails: every allocation is freed once, a tag is left only   *)
(* where it was asked for, the whole input is hashed, the same one when a   *)
(* call is repeated, an accepted matrix fits in memory, and a string that   *)
(* was made is accepted with the password it was made from and with no      *)
(* other; nor is it accepted when one of its characters was changed.        *)
(***************************************************************************)
EXTENDS Argon2Api, Decoding_proofs

-----------------------------------------------------------------------------
(* Numbers. *)

LEMMA ProductOrder ==
    ASSUME NEW a \in Nat, NEW b \in Nat, NEW c \in Nat, a <= b
    PROVE  /\ a * c \in Nat /\ b * c \in Nat
           /\ a * c <= b * c
<1>1. PICK d \in Nat : b = a + d
  <2>1. b - a \in Nat /\ b = a + (b - a)
    OBVIOUS
  <2> QED BY <2>1
<1>2. (a + d) * c = a * c + d * c
  OBVIOUS
<1>3. a * c \in Nat /\ d * c \in Nat
  OBVIOUS
<1> QED BY <1>1, <1>2, <1>3

LEMMA QuotientBounds ==
    ASSUME NEW n \in Nat, NEW w \in Nat, w > 0
    PROVE  /\ n \div w \in Nat
           /\ (n \div w) * w <= n
           /\ n >= w + w => n \div w >= 2
OBVIOUS

LEMMA Remainder ==
    ASSUME NEW x \in Nat, NEW m \in Nat, m > 0, x < m
    PROVE  x % m = x
OBVIOUS

\* The sizes are numbers, and half of the addresses bounds the memory.
LEMMA LimitsAreNumbers ==
    /\ UINT32_MAX \in Nat /\ MinMemory \in Nat /\ MaxMemory \in Nat /\ MaxLanes \in Nat
    /\ MaxMemory <= UINT32_MAX
    /\ MaxMemory <= PointerSize \div (2 * BlockSize)
    /\ \A n \in Int : Word(n) \in 0..UINT32_MAX
<1>1. /\ WordSize \in Nat /\ WordSize >= 32 /\ PointerSize \in Nat
      /\ BlockSize \in Nat \ {0} /\ MaxLanes \in Nat
  BY WordAssumption
<1> DEFINE half == PointerSize \div (2 * BlockSize)
<1>2. half \in Nat
  <2>1. 2 * BlockSize \in Nat \ {0}
    BY <1>1
  <2> QED BY <1>1, <2>1
<1> HIDE DEF half
<1>3. MaxMemory = Least(UINT32_MAX, Least(WordSize, half))
  BY DEF MaxMemory, half
<1>4. MaxMemory \in Nat /\ MaxMemory <= UINT32_MAX /\ MaxMemory <= half
  BY <1>1, <1>2, <1>3 DEF Least, UINT32_MAX
<1>5. \A n \in Int : Word(n) \in 0..UINT32_MAX
  BY <1>1 DEF Word, UINT32_MAX
<1>6. UINT32_MAX \in Nat /\ MinMemory \in Nat
  BY <1>1 DEF UINT32_MAX, MinMemory, SyncPoints
<1> QED BY <1>1, <1>4, <1>5, <1>6 DEF half

-----------------------------------------------------------------------------
(* validate_inputs. *)

\* The fields of a context that the library allocates and frees by.
IsContext(c) ==
    /\ DOMAIN c = ContextFields
    /\ {c.m_cost, c.lanes} \subseteq 0..UINT32_MAX
    /\ {c.allocate_cbk, c.free_cbk} \subseteq BOOLEAN

\* What validate_inputs lets pass.
AcceptedSize(c) ==
    /\ c.m_cost >= MinMemory /\ c.m_cost <= MaxMemory /\ c.m_cost >= Word(8 * c.lanes)
    /\ c.lanes >= 1 /\ c.lanes <= MaxLanes

\* A context that is accepted has memory for its lanes, and both callbacks or
\* none.
LEMMA ValidateFacts ==
    ASSUME NEW c, IsContext(c), validate_inputs(c) = "OK"
    PROVE  AcceptedSize(c) /\ (c.allocate_cbk <=> c.free_cbk)
<1>1. ValidSizes(c) /\ ValidCallbacks(c)
  BY ValidateInputs DEF Valid
<1>2. c.allocate_cbk <=> c.free_cbk
  BY <1>1 DEF ValidCallbacks
<1>3. /\ ~ (c.m_cost < MinMemory) /\ ~ (c.m_cost > MaxMemory)
      /\ ~ (c.m_cost < Word(8 * c.lanes)) /\ ~ (c.lanes < 1) /\ ~ (c.lanes > MaxLanes)
  BY <1>1 DEF ValidSizes
<1>4. c.m_cost \in Int /\ c.lanes \in Int
  BY LimitsAreNumbers DEF IsContext
<1>5. MinMemory \in Int /\ MaxMemory \in Int /\ Word(8 * c.lanes) \in Int /\ MaxLanes \in Int
  BY <1>4, LimitsAreNumbers
<1>6. AcceptedSize(c)
  BY <1>3, <1>4, <1>5 DEF AcceptedSize
<1> QED BY <1>2, <1>6

-----------------------------------------------------------------------------
(* The size of the matrix. *)

Matrix(c) == segment_length(c) * c.lanes * SyncPoints

\* No product wraps around, and the matrix is in half of the addresses.
LEMMA AcceptedFits ==
    ASSUME NEW c, IsContext(c), AcceptedSize(c)
    PROVE  /\ segment_length(c) >= 2
           /\ Matrix(c) = memory_blocks(c) /\ Matrix(c) <= c.m_cost
           /\ 2 * (Matrix(c) * BlockSize) <= PointerSize
<1> DEFINE m == c.m_cost
           l == c.lanes
           w == 4 * l
           q == m \div w
           half == PointerSize \div (2 * BlockSize)
<1>1. /\ WordSize \in Nat /\ PointerSize \in Nat /\ BlockSize \in Nat \ {0}
      /\ MaxLanes \in Nat /\ 8 * MaxLanes < WordSize
  BY WordAssumption
<1>2. m \in Nat /\ l \in Nat /\ m < WordSize
  BY <1>1 DEF IsContext, UINT32_MAX
<1>3. l >= 1 /\ l <= MaxLanes
  BY DEF AcceptedSize
<1>4. m <= MaxMemory /\ m >= Word(8 * l)
  BY DEF AcceptedSize
<1> HIDE DEF m, l
<1>5. /\ Word(8 * l) = 8 * l /\ Word(2 * SyncPoints * l) = 8 * l
      /\ Word(l * SyncPoints) = w /\ w \in Nat /\ w > 0
  <2>1. /\ 8 * l \in Nat /\ 8 * l < WordSize /\ w \in Nat /\ w < WordSize /\ w > 0
        /\ 2 * SyncPoints * l = 8 * l /\ l * SyncPoints = w /\ WordSize > 0
    BY <1>1, <1>2, <1>3 DEF SyncPoints
  <2>2. Word(8 * l) = 8 * l /\ Word(w) = w
    BY <1>1, <2>1, Remainder DEF Word
  <2> QED BY <2>1, <2>2
<1>6. m >= w + w
  BY <1>2, <1>4, <1>5
<1> HIDE DEF w
<1>7. q \in Nat /\ q * w <= m /\ q >= 2
  BY <1>2, <1>5, <1>6, QuotientBounds
<1>8. segment_length(c) = q
  <2>1. ~ (m < 8 * l)
    BY <1>2, <1>4, <1>5
  <2> QED BY <1>5, <2>1 DEF segment_length, m, l
<1> HIDE DEF q
<1>9. Matrix(c) = q * w
  <2>1. Matrix(c) = q * l * 4
    BY <1>8 DEF Matrix, SyncPoints, l
  <2>2. q * l * 4 = q * (4 * l)
    BY <1>2, <1>7
  <2> QED BY <2>1, <2>2 DEF w
<1>10. memory_blocks(c) = q * w
  <2>1. memory_blocks(c) = Word(q * w)
    BY <1>5, <1>8 DEF memory_blocks, l
  <2>2. q * w \in Nat /\ q * w < WordSize /\ WordSize > 0
    BY <1>1, <1>2, <1>5, <1>7
  <2>3. Word(q * w) = q * w
    BY <1>1, <2>2, Remainder DEF Word
  <2> QED BY <2>1, <2>3
<1>11. 2 * ((q * w) * BlockSize) <= PointerSize
  <2> DEFINE b == q * w
             d == 2 * BlockSize
  <2>1. b \in Nat /\ d \in Nat /\ d > 0
    BY <1>1, <1>5, <1>7
  <2>2. half \in Nat /\ half * d <= PointerSize
    BY <1>1, <2>1, QuotientBounds
  <2>3. b <= half
    <3>1. MaxMemory <= half /\ MaxMemory \in Nat
      BY LimitsAreNumbers
    <3> QED BY <1>2, <1>4, <1>7, <2>1, <2>2, <3>1
  <2> HIDE DEF half, b
  <2>4. b * d \in Nat /\ half * d \in Nat /\ b * d <= half * d
    BY <2>1, <2>2, <2>3, ProductOrder
  <2>5. b * d = 2 * (b * BlockSize)
    BY <1>1, <2>1
  <2>6. 2 * (b * BlockSize) <= PointerSize
    BY <1>1, <2>2, <2>4, <2>5
  <2> QED BY <2>6 DEF b
<1> QED BY <1>7, <1>8, <1>9, <1>10, <1>11 DEF m

LEMMA CastsKeep == \A n \in 0..UINT32_MAX : Word(n) = n
BY WordAssumption, Remainder DEF Word, UINT32_MAX

\* What argon2_hash casts, it has compared.
LEMMA LengthsChecked ==
    ASSUME NEW a
    PROVE  /\ hashLengths(a) # "ENCODING_FAIL"
           /\ hashLengths(a) = "OK" =>
                 /\ ~ (a.pwdlen > UINT32_MAX) /\ ~ (a.saltlen > UINT32_MAX)
                 /\ ~ (a.hashlen > UINT32_MAX)
<1> DEFINE s == << <<a.pwdlen > UINT32_MAX, "PWD_TOO_LONG">>,
                   <<a.saltlen > UINT32_MAX, "SALT_TOO_LONG">>,
                   <<a.hashlen > UINT32_MAX, "OUTPUT_TOO_LONG">>,
                   <<a.hashlen < MinOutlen, "OUTPUT_TOO_SHORT">> >>
<1>1. /\ Checks(s)
      /\ Passed(s) <=> /\ ~ (a.pwdlen > UINT32_MAX) /\ ~ (a.saltlen > UINT32_MAX)
                       /\ ~ (a.hashlen > UINT32_MAX) /\ ~ (a.hashlen < MinOutlen)
  <2> DEFINE a1 == a.pwdlen > UINT32_MAX
             a2 == a.saltlen > UINT32_MAX
             a3 == a.hashlen > UINT32_MAX
             a4 == a.hashlen < MinOutlen
  <2>1. s = << <<a1, "PWD_TOO_LONG">>, <<a2, "SALT_TOO_LONG">>,
               <<a3, "OUTPUT_TOO_LONG">>, <<a4, "OUTPUT_TOO_SHORT">> >>
    OBVIOUS
  <2> HIDE DEF a1, a2, a3, a4, s
  <2>2. Checks(s) /\ (Passed(s) <=> ~ a1 /\ ~ a2 /\ ~ a3 /\ ~ a4)
    BY <2>1, FourChecks DEF Refuses
  <2> QED BY <2>2 DEF a1, a2, a3, a4
<1>2. hashLengths(a) = FirstError(s)
  BY DEF hashLengths
<1> HIDE DEF s
<1> QED BY <1>1, <1>2, FirstErrorFacts

LEMMA LengthsFacts ==
    ASSUME NEW a, {a.pwdlen, a.saltlen, a.hashlen} \subseteq Nat, hashLengths(a) = "OK"
    PROVE  {a.pwdlen, a.saltlen, a.hashlen} \subseteq 0..UINT32_MAX
BY LengthsChecked, LimitsAreNumbers

-----------------------------------------------------------------------------
(* decode_string keeps the types of the context. *)

Parse(p) == DOMAIN p = {"str", "ctx", "ret"} /\ IsContext(p.ctx)

LEMMA FieldKept ==
    ASSUME NEW c, IsContext(c), NEW f, f \in ContextFields, NEW v,
           f \in {"m_cost", "lanes"} => v \in 0..UINT32_MAX,
           f \in {"allocate_cbk", "free_cbk"} => v \in BOOLEAN
    PROVE  IsContext([c EXCEPT ![f] = v])
<1> DEFINE d == [c EXCEPT ![f] = v]
<1>1. DOMAIN d = ContextFields
  BY DEF IsContext
<1>2. \A g \in ContextFields : d[g] = IF g = f THEN v ELSE c[g]
  BY DEF IsContext
<1>3. {"m_cost", "lanes", "allocate_cbk", "free_cbk"} \subseteq ContextFields
  BY DEF ContextFields
<1>4. {d.m_cost, d.lanes} \subseteq 0..UINT32_MAX
  BY <1>2, <1>3 DEF IsContext
<1>5. {d.allocate_cbk, d.free_cbk} \subseteq BOOLEAN
  BY <1>2, <1>3 DEF IsContext
<1> QED BY <1>1, <1>4, <1>5 DEF IsContext

LEMMA ParseKept ==
    ASSUME NEW p, Parse(p), NEW v
    PROVE  /\ Parse([p EXCEPT !.ret = v]) /\ Parse([p EXCEPT !.str = v])
           /\ IsContext(v) => Parse([p EXCEPT !.ctx = v])
           /\ IsContext(v) => \A str : Parse([p EXCEPT !.str = str, !.ctx = v])
BY DEF Parse

LEMMA CCKeeps ==
    ASSUME NEW p, Parse(p), NEW prefix
    PROVE  Parse(CC(p, prefix))
<1> DEFINE rest == Rest(p.str, Len(prefix))
           next == [p EXCEPT !.str = rest]
           fail == [p EXCEPT !.ret = "DECODING_FAIL"]
<1>1. CC(p, prefix) = IF p.ret # "OK" THEN p
                      ELSE IF IsPrefix(prefix, p.str) THEN next ELSE fail
  BY Zenon DEF CC, DecodingFail
<1> HIDE DEF rest
<1>2. Parse(next) /\ Parse(fail)
  BY DEF Parse
<1> HIDE DEF next, fail
<1> QED BY <1>1, <1>2

LEMMA DecimalKeeps ==
    ASSUME NEW p, Parse(p), NEW f, f \in {"m_cost", "t_cost", "lanes", "version"}
    PROVE  Parse(DECIMAL_U32(p, f))
<1> DEFINE d == decode_decimal(p.str)
           c == [p.ctx EXCEPT ![f] = d.v]
<1>1. CASE p.ret # "OK" \/ d.null \/ d.v \notin 0..UINT32_MAX
  BY <1>1, ParseKept DEF DECIMAL_U32, DecodingFail
<1>2. CASE ~ (p.ret # "OK" \/ d.null \/ d.v \notin 0..UINT32_MAX)
  <2>1. IsContext(c)
    BY <1>2, FieldKept DEF Parse, ContextFields
  <2>2. DECIMAL_U32(p, f) = [p EXCEPT !.str = d.str, !.ctx = c]
    BY <1>2 DEF DECIMAL_U32
  <2> HIDE DEF c
  <2> QED BY <2>1, <2>2 DEF Parse
<1> QED BY <1>1, <1>2

LEMMA VersionKeeps ==
    ASSUME NEW p, Parse(p), NEW prefix
    PROVE  Parse(CC_opt(p, prefix))
<1>1. Parse(DECIMAL_U32(CC(p, prefix), "version"))
  BY CCKeeps, DecimalKeeps
<1>2. Parse([p EXCEPT !.ctx.version = Version10])
  <2>1. IsContext([p.ctx EXCEPT !.version = Version10])
    BY FieldKept DEF Parse, ContextFields
  <2> QED BY <2>1, ParseKept
<1> QED BY <1>1, <1>2 DEF CC_opt

LEMMA BytesKeep ==
    ASSUME NEW p, Parse(p), NEW buf, NEW len,
           {buf, len} \subseteq {"salt", "saltlen", "out", "outlen"}
    PROVE  Parse(BIN(p, buf, len))
<1> DEFINE b == from_base64(p.ctx[len], p.str)
           c == [p.ctx EXCEPT ![buf] = b.buf]
           q == [p EXCEPT !.ctx = c]
           d == [q.ctx EXCEPT ![len] = Len(b.buf)]
<1>1. IsContext(c)
  BY FieldKept DEF Parse, ContextFields
<1>2. Parse(q) /\ q.ctx = c
  BY <1>1, ParseKept DEF Parse
<1>3. IsContext(d)
  BY <1>1, <1>2, FieldKept DEF ContextFields
<1>4. \/ BIN(p, buf, len) = p
      \/ BIN(p, buf, len) = [q EXCEPT !.ret = "DECODING_FAIL"]
      \/ BIN(p, buf, len) = [q EXCEPT !.str = b.str, !.ctx = d]
  BY DEF BIN, DecodingFail
<1> HIDE DEF c, q, d
<1> QED BY <1>2, <1>3, <1>4 DEF Parse

LEMMA DefaultsKeep ==
    ASSUME NEW c, IsContext(c)
    PROVE  IsContext(Defaults(c))
<1> DEFINE d == Defaults(c)
<1>1. DOMAIN d = ContextFields /\ d.m_cost = c.m_cost /\ d.lanes = c.lanes
      /\ d.allocate_cbk = FALSE /\ d.free_cbk = FALSE
  BY DEF Defaults, IsContext, ContextFields
<1> QED BY <1>1 DEF IsContext

LEMMA ParametersKeep ==
    ASSUME NEW p, Parse(p), NEW t
    PROVE  Parse(Parameters(p, t))
<1> DEFINE version == CC_opt(CC(CC(p, <<"$">>), type_string(t)), <<"$", "v", "=">>)
           m_cost  == DECIMAL_U32(CC(version, <<"$", "m", "=">>), "m_cost")
           t_cost  == DECIMAL_U32(CC(m_cost, <<",", "t", "=">>), "t_cost")
<1>1. Parameters(p, t) = DECIMAL_U32(CC(t_cost, <<",", "p", "=">>), "lanes")
  BY DEF Parameters
<1>2. Parse(CC(CC(p, <<"$">>), type_string(t)))
  BY CCKeeps
<1>3. Parse(version)
  BY <1>2, VersionKeeps
<1> HIDE DEF version
<1>4. Parse(m_cost)
  BY <1>3, CCKeeps, DecimalKeeps
<1> HIDE DEF m_cost
<1>5. Parse(t_cost)
  BY <1>4, CCKeeps, DecimalKeeps
<1> HIDE DEF t_cost
<1> QED BY <1>1, <1>5, CCKeeps, DecimalKeeps

LEMMA SaltAndOutputKeep ==
    ASSUME NEW p, Parse(p)
    PROVE  Parse(SaltAndOutput(p))
<1> DEFINE salt == BIN(CC(p, <<"$">>), "salt", "saltlen")
<1>1. SaltAndOutput(p) = BIN(CC(salt, <<"$">>), "out", "outlen")
  BY DEF SaltAndOutput
<1>2. Parse(salt)
  BY CCKeeps, BytesKeep
<1> HIDE DEF salt
<1> QED BY <1>1, <1>2, CCKeeps, BytesKeep

LEMMA DecodeKeeps ==
    ASSUME NEW c, IsContext(c), NEW str, NEW t
    PROVE  IsContext(decode_string(c, str, t).ctx)
<1> DEFINE start == [str |-> str, ctx |-> c, ret |-> "OK"]
           wrong == [start EXCEPT !.ret = "INCORRECT_TYPE"]
           read  == SaltAndOutput(Parameters(start, t))
           whole == [read EXCEPT !.ctx = Defaults(read.ctx)]
<1>1. decode_string(c, str, t) =
          IF t \notin Types THEN wrong
          ELSE IF read.ret # "OK" THEN read ELSE Validated(whole)
  BY DEF decode_string
<1>2. Parse(start) /\ Parse(wrong)
  BY DEF Parse
<1> HIDE DEF start, wrong
<1>3. Parse(read)
  BY <1>2, ParametersKeep, SaltAndOutputKeep
<1> HIDE DEF read
<1>4. Parse(whole)
  BY <1>3, DefaultsKeep DEF Parse
<1> HIDE DEF whole
<1>5. Parse(Validated(whole))
  BY <1>4 DEF Validated, Parse
<1>6. Parse(decode_string(c, str, t))
  BY <1>1, <1>2, <1>3, <1>5
<1> QED BY <1>6 DEF Parse

-----------------------------------------------------------------------------
(* What holds between any two steps. *)

InCtx == {"validate", "initialize", "fill", "finalize", "returned"}

\* Which function runs where, and that nothing is freed twice or wrongly.
ControlInv ==
    /\ pc \in {"idle", "hash", "verify", "decode", "fail"} \cup InCtx
    /\ "fn" \in DOMAIN call /\ call.fn \in {"none", "ctx", "hash", "verify"}
    /\ pc = "hash" => call.fn = "hash"
    /\ pc \in {"verify", "decode", "fail"} => call.fn = "verify"
    /\ pc \in InCtx => call.fn # "none"
    /\ heap \in [Objects -> {"none", "malloc", "cbk", "freed"}]
    /\ call.fn = "none" => \A o \in Objects : heap[o] = "none"

\* Where a context is in use, it is one.
ContextInv ==
    call.fn = "ctx" \/ pc \in {"decode", "validate", "initialize", "fill", "finalize"}
        => IsContext(ctx)

\* The matrix is there while it is filled; its allocator and deallocator agree.
MatrixInv ==
    /\ pc \in {"hash", "verify", "decode", "validate", "initialize"} => heap["matrix"] = "none"
    /\ pc \in {"initialize", "fill", "finalize"} => (ctx.allocate_cbk <=> ctx.free_cbk)
    /\ pc \in {"fill", "finalize"} =>
           heap["matrix"] = IF ctx.free_cbk THEN "cbk" ELSE "malloc"
    /\ pc \in {"returned", "fail", "idle"} =>
           heap["matrix"] \in {"none", "freed"} \/ ret \in OutOfResources

Unused(o) == heap[o] = "none"

\* argon2_ctx on a context of the caller allocates the matrix only.
CtxObjectsInv ==
    call.fn = "ctx" =>
        /\ Unused("out") /\ Unused("salt") /\ Unused("new_out")
        /\ out = NULL /\ desired = NULL

\* argon2_hash allocates out, and frees it when argon2_ctx returns.
HashObjectsInv ==
    call.fn = "hash" =>
        /\ Unused("salt") /\ Unused("new_out")
        /\ pc = "hash" => Unused("out")
        /\ pc \in InCtx => heap["out"] = "malloc" /\ out = "out"
        /\ pc = "idle" => heap["out"] \in {"none", "freed"}

\* argon2_verify allocates salt and out, and a new out once it has decoded.
\* On every way to its end, out and desired point to what is to be freed.
VerifyObjectsInv ==
    call.fn = "verify" =>
        /\ pc = "verify" =>
               /\ Unused("out") /\ Unused("salt") /\ Unused("new_out")
               /\ out = NULL /\ desired = NULL
        /\ pc = "decode" =>
               /\ heap["salt"] = "malloc" /\ heap["out"] = "malloc" /\ Unused("new_out")
               /\ out = "out" /\ desired = NULL
        /\ pc \in InCtx =>
               /\ \A o \in {"salt", "out", "new_out"} : heap[o] = "malloc"
               /\ out = "new_out" /\ desired = "out"
        /\ pc = "fail" =>
               /\ heap["salt"] \in {"none", "malloc"}
               /\ out \in {NULL, "out", "new_out"} /\ desired \in {NULL, "out"}
               /\ out # "out" \/ desired # "out"
               /\ \A o \in {"out", "new_out"} :
                      heap[o] = IF o \in {out, desired} THEN "malloc" ELSE "none"
        /\ pc = "idle" => \A o \in {"salt", "out", "new_out"} : heap[o] \in {"none", "freed"}

\* What argon2_hash gives its caller, it gives at its end.
ResultsInv ==
    call.fn = "hash" =>
        /\ pc # "idle" => hash = NULL /\ encoded = NULL
        /\ pc \in {"hash", "idle"} => "out" \notin tagged

\* A call of argon2_hash that failed leaves no part of a string.
EncodedInv == Returned("hash") /\ ret # "OK" => encoded \in {NULL, <<>>}

\* The prehash is that of the lengths given to argon2_hash.
LengthsHashed ==
    /\ prehash \in DOMAIN hashed
    /\ LET h == hashed[prehash] IN
       h[2] = call.hashlen /\ h[7] = call.pwdlen /\ h[9] = call.saltlen

LengthsInv ==
    call.fn = "hash" =>
        /\ {call.hashlen, call.pwdlen, call.saltlen} \subseteq Nat
        /\ DOMAIN call = CallFields /\ {call.m_cost, call.lanes} \subseteq 0..UINT32_MAX
        /\ pc = "hash" => {call.hashlen, call.pwdlen, call.saltlen} \subseteq 0..UINT32_MAX
        /\ pc \in {"validate", "initialize"} =>
               /\ ctx.outlen = call.hashlen /\ ctx.pwdlen = call.pwdlen
               /\ ctx.saltlen = call.saltlen
        /\ pc \in {"fill", "finalize"} \/ (pc \in {"returned", "idle"} /\ ret = "OK")
               => LengthsHashed

\* The ideal hash knows an input once.
HashedOnce ==
    /\ hashed \in Seq({hashed[i] : i \in DOMAIN hashed})
    /\ \A i, j \in DOMAIN hashed : hashed[i] = hashed[j] => i = j

\* As long as the caller sets no flags, what was hashed is what is in the context.
HashOfContext(p) == p \in DOMAIN hashed /\ hashed[p] = initial_hash(ctx, type)

AttemptInv ==
    call.fn = "ctx" =>
        /\ DOMAIN call = {"fn", "flags", "first", "expected"}
        /\ call.flags = {} =>
               /\ ctx.flags = {}
               /\ prehash # 0 => HashOfContext(prehash)
               /\ call.first # 0 => HashOfContext(call.first)

SizeInv == pc \in {"initialize", "fill", "finalize"} => AcceptedSize(ctx)

IInv ==
    /\ ControlInv /\ ContextInv /\ MatrixInv
    /\ CtxObjectsInv /\ HashObjectsInv /\ VerifyObjectsInv
    /\ ResultsInv /\ LengthsInv /\ HashedOnce /\ AttemptInv /\ SizeInv
    /\ EncodedInv

-----------------------------------------------------------------------------
(* Every step keeps the invariant. *)

\* The ideal hash gives an input it knows the same tag, and a new one to another.
LEMMA HashFacts ==
    ASSUME HashedOnce, initialize
    PROVE  LET h == initial_hash(ctx, type) IN
           /\ HashedOnce'
           /\ prehash' \in DOMAIN hashed' /\ hashed'[prehash'] = h
           /\ \A i \in DOMAIN hashed : i \in DOMAIN hashed' /\ hashed'[i] = hashed[i]
<1> DEFINE h == initial_hash(ctx, type)
           known == {i \in DOMAIN hashed : hashed[i] = h}
           S == {hashed[i] : i \in DOMAIN hashed} \cup {h}
<1>1. /\ hashed' = IF known = {} THEN Append(hashed, h) ELSE hashed
      /\ prehash' = IF known = {} THEN Len(hashed) + 1 ELSE Min(known)
  BY DEF initialize
<1> HIDE DEF h
<1>2. DOMAIN hashed = 1..Len(hashed) /\ Len(hashed) \in Nat
  BY LenProperties DEF HashedOnce
<1>3. CASE known # {}
  <2>1. known \in SUBSET Nat
    BY <1>2
  <2>2. Min(known) \in known
    BY <1>3, <2>1, LeastNumber
  <2>3. hashed' = hashed /\ prehash' \in DOMAIN hashed /\ hashed[prehash'] = h
    BY <1>1, <1>3, <2>2
  <2> QED BY <2>3 DEF HashedOnce, h
<1>4. CASE known = {}
  <2>1. hashed' = Append(hashed, h) /\ prehash' = Len(hashed) + 1
    BY <1>1, <1>4
  <2>2. hashed \in Seq(S)
    <3>1. hashed \in [1..Len(hashed) -> S]
      BY <1>2, LenProperties DEF HashedOnce
    <3> QED BY <1>2, <3>1
  <2>3. /\ hashed' \in Seq(S) /\ DOMAIN hashed' = 1..(Len(hashed) + 1)
        /\ \A i \in 1..Len(hashed) : hashed'[i] = hashed[i]
        /\ hashed'[Len(hashed) + 1] = h
    BY <2>1, <2>2, AppendProperties
  <2>4. \A i \in DOMAIN hashed : hashed[i] # h
    BY <1>4
  <2>5. \A i, j \in DOMAIN hashed' : hashed'[i] = hashed'[j] => i = j
    <3>1. \A i \in DOMAIN hashed' : i \in DOMAIN hashed \/ i = Len(hashed) + 1
      BY <1>2, <2>3
    <3> QED BY <1>2, <2>3, <2>4, <3>1 DEF HashedOnce
  <2>6. hashed' \in Seq({hashed'[i] : i \in DOMAIN hashed'})
    <3>1. hashed' \in [1..(Len(hashed) + 1) -> {hashed'[i] : i \in DOMAIN hashed'}]
      BY <2>3, LenProperties
    <3>2. Len(hashed) + 1 \in Nat
      BY <1>2
    <3> QED BY <3>1, <3>2
  <2>7. HashedOnce'
    BY <2>5, <2>6 DEF HashedOnce
  <2>8. prehash' \in DOMAIN hashed' /\ hashed'[prehash'] = h
    BY <1>2, <2>1, <2>3
  <2>9. \A i \in DOMAIN hashed : i \in DOMAIN hashed' /\ hashed'[i] = hashed[i]
    BY <1>2, <2>3
  <2> QED BY <2>7, <2>8, <2>9 DEF h
<1> QED BY <1>3, <1>4

\* What initial_hash wipes is no size and no callback, and nothing without a flag.
LEMMA ClearFacts ==
    ASSUME NEW c, IsContext(c)
    PROVE  LET d == clearHashed(c) IN
           /\ IsContext(d) /\ d.flags = c.flags
           /\ d.m_cost = c.m_cost /\ d.lanes = c.lanes
           /\ d.allocate_cbk = c.allocate_cbk /\ d.free_cbk = c.free_cbk
           /\ c.flags = {} => d = c
<1> DEFINE Same(a, b) == /\ IsContext(b) /\ b.flags = a.flags
                         /\ b.m_cost = a.m_cost /\ b.lanes = a.lanes
                         /\ b.allocate_cbk = a.allocate_cbk /\ b.free_cbk = a.free_cbk
<1>1. ASSUME NEW a, IsContext(a)
      PROVE  /\ Same(a, [a EXCEPT !.pwd = "wiped", !.pwdlen = 0])
             /\ Same(a, [a EXCEPT !.secret = "wiped", !.secretlen = 0])
  BY <1>1 DEF IsContext, ContextFields
<1> DEFINE p == IF c.pwd # NULL /\ "CLEAR_PASSWORD" \in c.flags
                THEN [c EXCEPT !.pwd = "wiped", !.pwdlen = 0] ELSE c
           s == IF p.secret # NULL /\ "CLEAR_SECRET" \in p.flags
                THEN [p EXCEPT !.secret = "wiped", !.secretlen = 0] ELSE p
<1>2. Same(c, p) /\ (c.flags = {} => p = c)
  BY <1>1
<1>3. p.secret = c.secret
  BY DEF IsContext, ContextFields
<1>4. clearHashed(c) = s
  BY <1>2, <1>3 DEF clearHashed
<1> HIDE DEF p
<1>5. Same(p, s) /\ (c.flags = {} => s = p)
  BY <1>1, <1>2
<1> QED BY <1>2, <1>4, <1>5

LEMMA initializeKeeps ==
    ASSUME IInv, initialize
    PROVE  IInv'
<1> DEFINE h == initial_hash(ctx, type)
<1>1. IsContext(ctx) /\ AcceptedSize(ctx)
  BY DEF IInv, ContextInv, SizeInv, initialize
<1>2. /\ IsContext(ctx') /\ ctx'.flags = ctx.flags
      /\ ctx'.m_cost = ctx.m_cost /\ ctx'.lanes = ctx.lanes
      /\ ctx'.allocate_cbk = ctx.allocate_cbk /\ ctx'.free_cbk = ctx.free_cbk
      /\ ctx.flags = {} => ctx' = ctx
  BY <1>1, ClearFacts DEF initialize
<1>3. /\ HashedOnce'
      /\ prehash' \in DOMAIN hashed' /\ hashed'[prehash'] = h
      /\ \A i \in DOMAIN hashed : i \in DOMAIN hashed' /\ hashed'[i] = hashed[i]
  BY HashFacts DEF IInv
<1>4. ControlInv'
  BY DEF IInv, initialize, ControlInv, InCtx, Objects
<1>5. ContextInv'
  BY <1>2 DEF ContextInv
<1>6. MatrixInv'
  BY <1>2 DEF IInv, initialize, MatrixInv, ControlInv, InCtx, Objects
<1>7. CtxObjectsInv' /\ HashObjectsInv' /\ VerifyObjectsInv'
  BY DEF IInv, initialize, CtxObjectsInv, HashObjectsInv, VerifyObjectsInv, Unused,
         ControlInv, InCtx, Objects
<1>8. ResultsInv' /\ EncodedInv'
  BY DEF IInv, initialize, ResultsInv, EncodedInv, Returned, userVars
<1>9. LengthsInv'
  <2>1. h[2] = ctx.outlen /\ h[7] = ctx.pwdlen /\ h[9] = ctx.saltlen
    BY DEF initial_hash
  <2> HIDE DEF h
  <2> QED BY <1>3, <2>1 DEF IInv, initialize, LengthsInv, LengthsHashed, ControlInv, InCtx
<1>10. AttemptInv'
  <2>1. ctx.flags = {} => initial_hash(ctx', type') = h
    BY <1>2 DEF initialize
  <2> HIDE DEF h
  <2>2. h = initial_hash(ctx, type)
    BY DEF h
  <2> QED BY <1>2, <1>3, <2>1, <2>2 DEF IInv, initialize, AttemptInv, HashOfContext
<1>11. SizeInv'
  BY <1>1, <1>2 DEF SizeInv, AcceptedSize
<1> QED BY <1>3, <1>4, <1>5, <1>6, <1>7, <1>8, <1>9, <1>10, <1>11 DEF IInv

LEMMA validateKeeps ==
    ASSUME IInv, validate
    PROVE  IInv'
<1> USE DEF IInv, validate, CtxReturn, ControlInv, InCtx, Objects, ctxVars, heapVars,
            userVars
<1>a. pc' = "initialize" => AcceptedSize(ctx) /\ (ctx.allocate_cbk <=> ctx.free_cbk)
  BY ValidateFacts DEF ContextInv
<1>1. ControlInv'
  OBVIOUS
<1>2. SizeInv'
  BY <1>a DEF SizeInv, AcceptedSize, OutOfResources
<1>3. ContextInv'
  BY DEF ContextInv, IsContext
<1>4. MatrixInv'
  BY <1>a DEF MatrixInv, AcceptedSize, OutOfResources
<1>5. CtxObjectsInv' /\ HashObjectsInv' /\ VerifyObjectsInv'
  BY DEF CtxObjectsInv, HashObjectsInv, VerifyObjectsInv, Unused
<1>6. ResultsInv' /\ EncodedInv'
  BY DEF ResultsInv, EncodedInv, Returned
<1>7. LengthsInv'
  BY DEF LengthsInv, LengthsHashed
<1>8. HashedOnce' /\ AttemptInv'
  BY DEF HashedOnce, AttemptInv, HashOfContext
<1> QED BY <1>1, <1>2, <1>3, <1>4, <1>5, <1>6, <1>7, <1>8

LEMMA initializeFailsKeeps ==
    ASSUME IInv, initializeFails
    PROVE  IInv'
<1> USE DEF IInv, initializeFails, CtxReturn, ControlInv, InCtx, Objects, ctxVars,
            heapVars, userVars
<1>1. ControlInv'
  OBVIOUS
<1>2. ContextInv' /\ SizeInv'
  BY DEF ContextInv, SizeInv, IsContext, AcceptedSize
<1>3. MatrixInv'
  BY DEF MatrixInv, OutOfResources
<1>4. CtxObjectsInv' /\ HashObjectsInv' /\ VerifyObjectsInv'
  BY DEF CtxObjectsInv, HashObjectsInv, VerifyObjectsInv, Unused
<1>5. ResultsInv' /\ EncodedInv'
  BY DEF ResultsInv, EncodedInv, Returned
<1>6. LengthsInv'
  BY DEF LengthsInv, LengthsHashed
<1>7. HashedOnce' /\ AttemptInv'
  BY DEF HashedOnce, AttemptInv, HashOfContext
<1> QED BY <1>1, <1>2, <1>3, <1>4, <1>5, <1>6, <1>7

LEMMA fillKeeps ==
    ASSUME IInv, fill
    PROVE  IInv'
<1> USE DEF IInv, fill, CtxReturn, ControlInv, InCtx, Objects, ctxVars, heapVars,
            userVars
<1>1. ControlInv'
  OBVIOUS
<1>2. ContextInv' /\ SizeInv'
  BY DEF ContextInv, SizeInv, IsContext, AcceptedSize
<1>3. MatrixInv'
  BY DEF MatrixInv, OutOfResources
<1>4. CtxObjectsInv' /\ HashObjectsInv' /\ VerifyObjectsInv'
  BY DEF CtxObjectsInv, HashObjectsInv, VerifyObjectsInv, Unused
<1>5. ResultsInv' /\ EncodedInv'
  BY DEF ResultsInv, EncodedInv, Returned
<1>6. LengthsInv'
  BY DEF LengthsInv, LengthsHashed
<1>7. HashedOnce' /\ AttemptInv'
  BY DEF HashedOnce, AttemptInv, HashOfContext
<1> QED BY <1>1, <1>2, <1>3, <1>4, <1>5, <1>6, <1>7

LEMMA finalizeKeeps ==
    ASSUME IInv, finalize
    PROVE  IInv'
<1> USE DEF IInv, finalize, CtxReturn, free_memory, ControlInv, InCtx, Objects, userVars
<1>1. ControlInv'
  BY DEF MatrixInv
<1>2. ContextInv' /\ SizeInv'
  BY DEF ContextInv, SizeInv, IsContext, AcceptedSize
<1>3. MatrixInv'
  BY DEF MatrixInv, OutOfResources
<1>4. CtxObjectsInv' /\ HashObjectsInv' /\ VerifyObjectsInv'
  BY DEF CtxObjectsInv, HashObjectsInv, VerifyObjectsInv, Unused
<1>5. ResultsInv' /\ EncodedInv'
  BY DEF ResultsInv, EncodedInv, Returned
<1>6. LengthsInv'
  BY DEF LengthsInv, LengthsHashed
<1>7. AttemptInv'
  <2>1. ctx.flags = ctx'.flags /\ initial_hash(ctx', type) = initial_hash(ctx, type)
    BY DEF ContextInv, IsContext, ContextFields, initial_hash
  <2> QED BY <2>1 DEF AttemptInv, HashOfContext
<1>8. HashedOnce'
  BY DEF HashedOnce
<1> QED BY <1>1, <1>2, <1>3, <1>4, <1>5, <1>6, <1>7, <1>8

LEMMA ctxReturnsKeeps ==
    ASSUME IInv, ctxReturns
    PROVE  IInv'
<1> USE DEF IInv, ctxReturns, Return, compared, ControlInv, InCtx, Objects, ctxVars,
            heapVars, userVars
<1>1. ControlInv'
  OBVIOUS
<1>2. ContextInv' /\ SizeInv'
  BY DEF ContextInv, SizeInv, IsContext, AcceptedSize
<1>3. MatrixInv'
  BY DEF MatrixInv, OutOfResources
<1>4. CtxObjectsInv' /\ HashObjectsInv' /\ VerifyObjectsInv'
  BY DEF CtxObjectsInv, HashObjectsInv, VerifyObjectsInv, Unused
<1>5. ResultsInv' /\ EncodedInv'
  BY DEF ResultsInv, EncodedInv, Returned
<1>6. LengthsInv'
  BY DEF LengthsInv, LengthsHashed
<1>7. HashedOnce' /\ AttemptInv'
  BY DEF HashedOnce, AttemptInv, HashOfContext
<1> QED BY <1>1, <1>2, <1>3, <1>4, <1>5, <1>6, <1>7

LEMMA callCtxKeeps ==
    ASSUME IInv, callCtx
    PROVE  IInv'
<1> USE DEF IInv, callCtx, Begin, ControlInv, InCtx, Objects, userVars
<1>1. ControlInv'
  OBVIOUS
<1>2. ContextInv' /\ SizeInv'
  BY CallAssumption DEF ContextInv, SizeInv, IsContext, AcceptedSize
<1>3. MatrixInv'
  BY DEF MatrixInv, OutOfResources
<1>4. CtxObjectsInv' /\ HashObjectsInv' /\ VerifyObjectsInv'
  BY DEF CtxObjectsInv, HashObjectsInv, VerifyObjectsInv, Unused
<1>5. ResultsInv' /\ EncodedInv'
  BY DEF ResultsInv, EncodedInv, Returned
<1>6. LengthsInv'
  BY DEF LengthsInv, LengthsHashed
<1>7. HashedOnce' /\ AttemptInv'
  BY DEF HashedOnce, AttemptInv, HashOfContext
<1> QED BY <1>1, <1>2, <1>3, <1>4, <1>5, <1>6, <1>7

LEMMA callCtxAgainKeeps ==
    ASSUME IInv, callCtxAgain
    PROVE  IInv'
<1> USE DEF IInv, callCtxAgain, Begin, ControlInv, InCtx, Objects, userVars
<1>1. ControlInv'
  OBVIOUS
<1>2. ContextInv' /\ SizeInv'
  BY DEF ContextInv, SizeInv, IsContext, AcceptedSize
<1>3. MatrixInv'
  BY DEF MatrixInv, OutOfResources
<1>4. CtxObjectsInv' /\ HashObjectsInv' /\ VerifyObjectsInv'
  BY DEF CtxObjectsInv, HashObjectsInv, VerifyObjectsInv, Unused
<1>5. ResultsInv' /\ EncodedInv'
  BY DEF ResultsInv, EncodedInv, Returned
<1>6. LengthsInv'
  BY DEF LengthsInv, LengthsHashed
<1>7. HashedOnce' /\ AttemptInv'
  BY DEF HashedOnce, AttemptInv, HashOfContext
<1> QED BY <1>1, <1>2, <1>3, <1>4, <1>5, <1>6, <1>7

LEMMA callHashKeeps ==
    ASSUME IInv, callHash
    PROVE  IInv'
<1> PICK a \in HashCalls : \E b \in {a, hash_raw(a), hash_encoded(a)} :
        /\ Begin(b, hashLengths(b), "hash")
        /\ hash' = NULL /\ encoded' = NULL /\ damage' = 0 /\ type' = b.type
        /\ UNCHANGED <<ctx, prehash, hashed, made>>
  BY DEF callHash
<1> PICK b \in {a, hash_raw(a), hash_encoded(a)} :
        /\ Begin(b, hashLengths(b), "hash")
        /\ hash' = NULL /\ encoded' = NULL /\ damage' = 0 /\ type' = b.type
        /\ UNCHANGED <<ctx, prehash, hashed, made>>
  OBVIOUS
<1> USE DEF IInv, Begin, ControlInv, InCtx, Objects
<1>a. /\ DOMAIN b = CallFields /\ b.fn = "hash"
      /\ {b.pwdlen, b.saltlen, b.hashlen} \subseteq Nat
      /\ {b.m_cost, b.lanes} \subseteq 0..UINT32_MAX
  <2>1. /\ DOMAIN a = CallFields /\ a.fn = "hash"
        /\ {a.pwdlen, a.saltlen, a.hashlen} \subseteq Nat
        /\ {a.m_cost, a.lanes} \subseteq 0..UINT32_MAX
    BY CallAssumption
  <2>2. /\ DOMAIN b = CallFields
        /\ \A f \in {"fn", "pwdlen", "saltlen", "hashlen", "m_cost", "lanes"} : b[f] = a[f]
    <3>1. CASE b = a
      BY <2>1, <3>1
    <3>2. CASE b = hash_raw(a)
      BY <2>1, <3>2 DEF hash_raw, CallFields
    <3>3. CASE b = hash_encoded(a)
      BY <2>1, <3>3 DEF hash_encoded, CallFields
    <3> QED BY <3>1, <3>2, <3>3
  <2>3. b.fn = a.fn /\ b.pwdlen = a.pwdlen /\ b.saltlen = a.saltlen /\ b.hashlen = a.hashlen
        /\ b.m_cost = a.m_cost /\ b.lanes = a.lanes
    BY <2>2
  <2> QED BY <2>1, <2>2, <2>3
<1>b. hashLengths(b) = "OK" => {b.pwdlen, b.saltlen, b.hashlen} \subseteq 0..UINT32_MAX
  BY <1>a, LengthsFacts
<1>1. ControlInv'
  BY <1>a, <1>b DEF CallFields
<1>2. ContextInv'
  BY <1>a, <1>b DEF ContextInv, IsContext
<1>3. SizeInv'
  BY DEF callHash, hash_raw, hash_encoded, SizeInv, AcceptedSize
<1>4. MatrixInv'
  BY DEF callHash, hash_raw, hash_encoded, MatrixInv, OutOfResources
<1>5. CtxObjectsInv' /\ HashObjectsInv' /\ VerifyObjectsInv'
  BY DEF callHash, hash_raw, hash_encoded, CtxObjectsInv, HashObjectsInv,
     VerifyObjectsInv, Unused
<1>6. ResultsInv' /\ EncodedInv'
  BY DEF callHash, hash_raw, hash_encoded, ResultsInv, EncodedInv,
     Returned
<1>7. LengthsInv'
  BY <1>a, <1>b DEF LengthsInv, LengthsHashed
<1>8. AttemptInv'
  BY <1>a, <1>b DEF AttemptInv, HashOfContext
<1>9. HashedOnce'
  BY DEF callHash, hash_raw, hash_encoded, HashedOnce
<1> QED BY <1>1, <1>2, <1>3, <1>4, <1>5, <1>6, <1>7, <1>8, <1>9

LEMMA hashAllocatesKeeps ==
    ASSUME IInv, hashAllocates
    PROVE  IInv'
<1> USE DEF IInv, hashAllocates, ControlInv, InCtx, Objects, userVars
<1>a. /\ IsContext(ctx')
      /\ ctx'.outlen = call.hashlen /\ ctx'.pwdlen = call.pwdlen /\ ctx'.saltlen = call.saltlen
  BY CastsKeep DEF LengthsInv, HashContext, IsContext, ContextFields
<1>1. ControlInv'
  OBVIOUS
<1>2. ContextInv'
  BY <1>a DEF ContextInv, LengthsHashed
<1>3. SizeInv'
  BY DEF SizeInv, AcceptedSize
<1>4. MatrixInv'
  BY DEF MatrixInv, OutOfResources
<1>5. CtxObjectsInv' /\ HashObjectsInv' /\ VerifyObjectsInv'
  BY DEF CtxObjectsInv, HashObjectsInv, VerifyObjectsInv, Unused
<1>6. ResultsInv' /\ EncodedInv'
  BY DEF ResultsInv, EncodedInv, Returned
<1>7. LengthsInv'
  BY <1>a DEF LengthsInv, LengthsHashed
<1>8. HashedOnce' /\ AttemptInv'
  BY DEF HashedOnce, AttemptInv, HashOfContext
<1> QED BY <1>1, <1>2, <1>3, <1>4, <1>5, <1>6, <1>7, <1>8

LEMMA hashOutOfMemoryKeeps ==
    ASSUME IInv, hashOutOfMemory
    PROVE  IInv'
<1> USE DEF IInv, hashOutOfMemory, Return, ControlInv, InCtx, Objects, ctxVars,
            heapVars, userVars
<1>1. ControlInv'
  OBVIOUS
<1>2. ContextInv' /\ SizeInv'
  BY DEF ContextInv, SizeInv, IsContext, AcceptedSize
<1>3. MatrixInv'
  BY DEF MatrixInv, OutOfResources
<1>4. CtxObjectsInv' /\ HashObjectsInv' /\ VerifyObjectsInv'
  BY DEF CtxObjectsInv, HashObjectsInv, VerifyObjectsInv, Unused
<1>5. EncodedInv'
  BY DEF EncodedInv, Returned, ResultsInv, kept
<1>6. ResultsInv'
  BY DEF ResultsInv
<1>7. LengthsInv'
  BY DEF LengthsInv, LengthsHashed
<1>8. HashedOnce' /\ AttemptInv'
  BY DEF HashedOnce, AttemptInv, HashOfContext
<1> QED BY <1>1, <1>2, <1>3, <1>4, <1>5, <1>6, <1>7, <1>8

LEMMA hashReturnsKeeps ==
    ASSUME IInv, hashReturns
    PROVE  IInv'
<1> USE DEF IInv, hashReturns, Return, Free, ControlInv, InCtx, Objects, ctxVars
<1>1. ControlInv'
  BY CallAssumption DEF HashObjectsInv
<1>2. ContextInv' /\ SizeInv'
  BY DEF ContextInv, SizeInv, IsContext, AcceptedSize
<1>3. MatrixInv'
  BY DEF MatrixInv, OutOfResources
<1>4. CtxObjectsInv' /\ HashObjectsInv' /\ VerifyObjectsInv'
  BY CallAssumption DEF CtxObjectsInv, HashObjectsInv, VerifyObjectsInv, Unused
<1>5. EncodedInv'
  BY DEF EncodedInv, Returned, ResultsInv, heapVars, userVars, kept
<1>6. ResultsInv'
  BY DEF ResultsInv
<1>7. LengthsInv'
  BY DEF LengthsInv, LengthsHashed
<1>8. HashedOnce' /\ AttemptInv'
  BY DEF HashedOnce, AttemptInv, HashOfContext
<1> QED BY <1>1, <1>2, <1>3, <1>4, <1>5, <1>6, <1>7, <1>8

LEMMA alterKeeps ==
    ASSUME IInv, alter
    PROVE  IInv'
<1> USE DEF IInv, alter, ControlInv, InCtx, Objects, ctxVars, heapVars
<1>1. ControlInv'
  OBVIOUS
<1>2. ContextInv' /\ SizeInv'
  BY DEF ContextInv, SizeInv, IsContext, AcceptedSize
<1>3. MatrixInv'
  BY DEF MatrixInv, OutOfResources
<1>4. CtxObjectsInv' /\ HashObjectsInv' /\ VerifyObjectsInv'
  BY DEF CtxObjectsInv, HashObjectsInv, VerifyObjectsInv, Unused
<1>5. ResultsInv' /\ EncodedInv'
  BY DEF ResultsInv, EncodedInv, Returned
<1>6. LengthsInv'
  BY DEF LengthsInv, LengthsHashed
<1>7. HashedOnce' /\ AttemptInv'
  BY DEF HashedOnce, AttemptInv, HashOfContext
<1> QED BY <1>1, <1>2, <1>3, <1>4, <1>5, <1>6, <1>7

LEMMA callVerifyKeeps ==
    ASSUME IInv, callVerify
    PROVE  IInv'
<1> USE DEF IInv, callVerify, Begin, ControlInv, InCtx, Objects, userVars
<1>1. ControlInv'
  OBVIOUS
<1>2. ContextInv' /\ SizeInv'
  BY DEF ContextInv, SizeInv, IsContext, AcceptedSize
<1>3. MatrixInv'
  BY DEF MatrixInv, OutOfResources
<1>4. CtxObjectsInv' /\ HashObjectsInv' /\ VerifyObjectsInv'
  BY DEF CtxObjectsInv, HashObjectsInv, VerifyObjectsInv, Unused
<1>5. ResultsInv' /\ EncodedInv'
  BY DEF ResultsInv, EncodedInv, Returned
<1>6. LengthsInv'
  BY DEF LengthsInv, LengthsHashed
<1>7. HashedOnce' /\ AttemptInv'
  BY DEF HashedOnce, AttemptInv, HashOfContext
<1> QED BY <1>1, <1>2, <1>3, <1>4, <1>5, <1>6, <1>7

LEMMA verifyAllocatesKeeps ==
    ASSUME IInv, verifyAllocates
    PROVE  IInv'
<1> USE DEF IInv, verifyAllocates, Failed, ControlInv, InCtx, Objects, userVars
<1>1. ControlInv'
  OBVIOUS
<1>2. ContextInv'
  <2>1. IsContext(ctx')
    BY LimitsAreNumbers DEF VerifyContext, IsContext, ContextFields
  <2> QED BY <2>1 DEF ContextInv
<1>3. SizeInv'
  BY DEF SizeInv, AcceptedSize
<1>4. MatrixInv'
  BY DEF MatrixInv, OutOfResources
<1>5. CtxObjectsInv' /\ HashObjectsInv' /\ VerifyObjectsInv'
  BY CallAssumption DEF CtxObjectsInv, HashObjectsInv, VerifyObjectsInv, Unused
<1>6. ResultsInv' /\ EncodedInv'
  BY DEF ResultsInv, EncodedInv, Returned
<1>7. LengthsInv'
  BY DEF LengthsInv, LengthsHashed
<1>8. HashedOnce' /\ AttemptInv'
  BY DEF HashedOnce, AttemptInv, HashOfContext
<1> QED BY <1>1, <1>2, <1>3, <1>4, <1>5, <1>6, <1>7, <1>8

LEMMA verifyDecodesKeeps ==
    ASSUME IInv, verifyDecodes
    PROVE  IInv'
<1> USE DEF IInv, verifyDecodes, Failed, setAside, ControlInv, InCtx, Objects, userVars
<1> DEFINE d == decode_string(ctx, encoded, type)
<1>a. IsContext(d.ctx)
  BY DecodeKeeps DEF ContextInv
<1>b. call'.fn = "verify" /\ "fn" \in DOMAIN call'
  OBVIOUS
<1>c. \/ pc' = "fail" /\ UNCHANGED <<call, heap, out, desired>>
      \/ /\ pc' = "validate" /\ ctx' = d.ctx /\ desired' = "out" /\ out' = "new_out"
         /\ heap' = [heap EXCEPT !["new_out"] = "malloc"]
      \/ pc' = "fail" /\ desired' = "out" /\ out' = NULL /\ UNCHANGED heap
  OBVIOUS
<1> HIDE DEF d
<1>1. ControlInv'
  BY <1>a, <1>b, <1>c
<1>2. ContextInv' /\ SizeInv'
  BY <1>a, <1>b, <1>c DEF ContextInv, SizeInv, IsContext, AcceptedSize
<1>3. MatrixInv'
  BY <1>a, <1>b, <1>c DEF MatrixInv, OutOfResources
<1>4. CtxObjectsInv' /\ HashObjectsInv' /\ VerifyObjectsInv'
  BY <1>a, <1>b, <1>c, CallAssumption DEF CtxObjectsInv, HashObjectsInv,
     VerifyObjectsInv, Unused
<1>5. ResultsInv' /\ EncodedInv'
  BY <1>a, <1>b, <1>c DEF ResultsInv, EncodedInv, Returned
<1>6. LengthsInv'
  BY <1>a, <1>b, <1>c DEF LengthsInv, LengthsHashed
<1>7. HashedOnce' /\ AttemptInv'
  BY <1>a, <1>b, <1>c DEF HashedOnce, AttemptInv, HashOfContext
<1> QED BY <1>1, <1>2, <1>3, <1>4, <1>5, <1>6, <1>7

LEMMA verifyComparesKeeps ==
    ASSUME IInv, verifyCompares
    PROVE  IInv'
<1> USE DEF IInv, verifyCompares, Failed, compared, ControlInv, InCtx, Objects, ctxVars,
            heapVars, userVars
<1>1. ControlInv'
  OBVIOUS
<1>2. ContextInv' /\ SizeInv'
  BY DEF ContextInv, SizeInv, IsContext, AcceptedSize
<1>3. MatrixInv'
  BY DEF MatrixInv, OutOfResources
<1>4. CtxObjectsInv' /\ HashObjectsInv' /\ VerifyObjectsInv'
  BY DEF CtxObjectsInv, HashObjectsInv, VerifyObjectsInv, Unused
<1>5. ResultsInv' /\ EncodedInv'
  BY DEF ResultsInv, EncodedInv, Returned
<1>6. LengthsInv'
  BY DEF LengthsInv, LengthsHashed
<1>7. HashedOnce' /\ AttemptInv'
  BY DEF HashedOnce, AttemptInv, HashOfContext
<1> QED BY <1>1, <1>2, <1>3, <1>4, <1>5, <1>6, <1>7

\* What free does to an object that malloc gave.
LEMMA FreeOne ==
    ASSUME NEW V, NEW h, h \in [Objects -> V], "freed" \in V,
           NEW o, o = NULL \/ (o \in Objects /\ h[o] = "malloc")
    PROVE  /\ Free(h, o) \in [Objects -> V]
           /\ \A p \in Objects : Free(h, o)[p] = IF p = o THEN "freed" ELSE h[p]
<1>1. NULL \notin Objects
  BY CallAssumption
<1> QED BY <1>1 DEF Free

\* argon2_verify frees its three objects, whichever there are.
LEMMA verifyReturnsFrees ==
    ASSUME IInv, verifyReturns
    PROVE  /\ heap' \in [Objects -> {"none", "malloc", "cbk", "freed"}]
           /\ \A o \in {"salt", "out", "new_out"} : heap'[o] \in {"none", "freed"}
           /\ heap'["matrix"] = heap["matrix"]
<1> DEFINE V    == {"none", "malloc", "cbk", "freed"}
           salt == IF heap["salt"] = "none" THEN NULL ELSE "salt"
           h1   == Free(heap, salt)
           h2   == Free(h1, out)
           h3   == Free(h2, desired)
<1>0. /\ NULL \notin Objects /\ {"matrix", "salt", "out", "new_out"} \subseteq Objects /\ "freed" \in V
  BY CallAssumption DEF Objects
<1>1. heap \in [Objects -> V] /\ heap' = h3
  BY DEF IInv, ControlInv, verifyReturns
<1>2. /\ heap["salt"] \in {"none", "malloc"}
      /\ out \in {NULL, "out", "new_out"} /\ desired \in {NULL, "out"}
      /\ out # "out" \/ desired # "out"
      /\ \A o \in {"out", "new_out"} : heap[o] = IF o \in {out, desired} THEN "malloc" ELSE "none"
  BY DEF IInv, VerifyObjectsInv, ControlInv, verifyReturns
<1> HIDE DEF V
<1>3. salt = NULL \/ (salt \in Objects /\ heap[salt] = "malloc")
  BY <1>0, <1>2
<1>4. h1 \in [Objects -> V] /\ \A p \in Objects : h1[p] = IF p = salt THEN "freed" ELSE heap[p]
  <2> HIDE DEF salt
  <2> QED BY <1>0, <1>1, <1>3, FreeOne
<1>5. salt \in {NULL, "salt"} /\ (salt = NULL => heap["salt"] = "none")
  BY <1>0
<1> HIDE DEF salt, h1
<1>6. out = NULL \/ (out \in Objects /\ h1[out] = "malloc")
  BY <1>0, <1>2, <1>4, <1>5
<1>7. h2 \in [Objects -> V] /\ \A p \in Objects : h2[p] = IF p = out THEN "freed" ELSE h1[p]
  BY <1>0, <1>4, <1>6, FreeOne
<1> HIDE DEF h2
<1>8. desired = NULL \/ (desired \in Objects /\ h2[desired] = "malloc")
  BY <1>0, <1>2, <1>4, <1>5, <1>7
<1>9. h3 \in [Objects -> V] /\ \A p \in Objects : h3[p] = IF p = desired THEN "freed" ELSE h2[p]
  BY <1>0, <1>7, <1>8, FreeOne
<1> HIDE DEF h3
<1>10. h3["matrix"] = heap["matrix"]
  BY <1>0, <1>2, <1>4, <1>5, <1>7, <1>9
<1>11. \A o \in {"salt", "out", "new_out"} : h3[o] \in {"none", "freed"}
  BY <1>0, <1>2, <1>4, <1>5, <1>7, <1>9
<1> QED BY <1>1, <1>9, <1>10, <1>11 DEF V

LEMMA verifyReturnsKeeps ==
    ASSUME IInv, verifyReturns
    PROVE  IInv'
<1> USE DEF IInv, verifyReturns, Return, Free, ControlInv, InCtx, Objects, ctxVars,
            userVars
<1>a. /\ heap' \in [Objects -> {"none", "malloc", "cbk", "freed"}]
      /\ \A o \in {"salt", "out", "new_out"} : heap'[o] \in {"none", "freed"}
      /\ heap'["matrix"] = heap["matrix"]
  BY verifyReturnsFrees, Zenon
<1>1. ControlInv'
  BY <1>a
<1>2. ContextInv' /\ SizeInv'
  BY DEF ContextInv, SizeInv, IsContext, AcceptedSize
<1>3. MatrixInv'
  BY <1>a DEF MatrixInv, OutOfResources
<1>4. VerifyObjectsInv'
  BY <1>a DEF VerifyObjectsInv
<1>5. CtxObjectsInv' /\ HashObjectsInv'
  BY DEF CtxObjectsInv, HashObjectsInv, Unused
<1>6. ResultsInv' /\ EncodedInv'
  BY DEF ResultsInv, EncodedInv, Returned
<1>7. LengthsInv'
  BY DEF LengthsInv, LengthsHashed
<1>8. HashedOnce' /\ AttemptInv'
  BY DEF HashedOnce, AttemptInv, HashOfContext
<1> QED BY <1>1, <1>2, <1>3, <1>4, <1>5, <1>6, <1>7, <1>8

LEMMA UnchangedKeeps ==
    ASSUME IInv, UNCHANGED vars
    PROVE  IInv'
BY DEF IInv, ControlInv, ContextInv, MatrixInv, CtxObjectsInv, HashObjectsInv,
   VerifyObjectsInv, ResultsInv, LengthsInv, HashedOnce, AttemptInv, SizeInv,
   EncodedInv, InCtx, Objects, IsContext, Unused, LengthsHashed,
   HashOfContext, AcceptedSize, OutOfResources, Returned, vars, ctxVars, heapVars,
   userVars

LEMMA Inductive ==
    ASSUME IInv, [Next]_vars
    PROVE  IInv'
<1>1. CASE Next
  BY <1>1, validateKeeps, initializeKeeps, initializeFailsKeeps, fillKeeps, finalizeKeeps,
     callCtxKeeps, callCtxAgainKeeps, ctxReturnsKeeps, callHashKeeps, hashAllocatesKeeps,
     hashOutOfMemoryKeeps, hashReturnsKeeps, alterKeeps, callVerifyKeeps,
     verifyAllocatesKeeps, verifyDecodesKeeps, verifyComparesKeeps, verifyReturnsKeeps,
     UnchangedKeeps
     DEF Next, done
<1>2. CASE UNCHANGED vars
  BY <1>2, UnchangedKeeps
<1> QED BY <1>1, <1>2

LEMMA Initial == Init => IInv
<1> SUFFICES ASSUME Init PROVE IInv
  OBVIOUS
<1>1. ControlInv
  BY DEF Init, ControlInv, InCtx, Objects, NoCall
<1>2. HashedOnce
  <2>1. hashed = <<>>
    BY DEF Init
  <2> QED BY <2>1 DEF HashedOnce
<1>3. /\ ContextInv /\ MatrixInv /\ CtxObjectsInv /\ HashObjectsInv /\ VerifyObjectsInv
      /\ ResultsInv /\ LengthsInv /\ AttemptInv /\ SizeInv /\ EncodedInv
  BY DEF Init, NoCall, Objects, InCtx, ContextInv, MatrixInv, CtxObjectsInv, HashObjectsInv,
         VerifyObjectsInv, ResultsInv, LengthsInv, AttemptInv, SizeInv,
         EncodedInv, Returned
<1> QED BY <1>1, <1>2, <1>3 DEF IInv

\* The parts of the invariant hold in every state.
LEMMA Invariant == Spec => []IInv
<1>1. IInv /\ [Next]_vars => IInv'
  BY Inductive
<1> QED BY <1>1, Initial, PTL DEF Spec

-----------------------------------------------------------------------------
(* What the functions promise. *)

\* Whatever fails, argon2_ctx, argon2_hash and argon2_verify free each of their
\* objects once and by the allocator it is from; what is left when they return
\* is at most the matrix, after resources ran out.
THEOREM ObjectsAreFreedOnce == Spec => []HeapBalanced
<1>1. IInv => HeapBalanced
  <2> SUFFICES ASSUME IInv, NEW o \in Objects
               PROVE  /\ heap[o] # "misfreed"
                      /\ pc = "idle" /\ heap[o] \in {"malloc", "cbk"}
                             => o = "matrix" /\ ret \in OutOfResources
    BY DEF HeapBalanced
  <2>1. heap[o] # "misfreed"
    BY DEF IInv, ControlInv
  <2>2. ASSUME pc = "idle", heap[o] \in {"malloc", "cbk"}, call.fn = "none" PROVE FALSE
    BY <2>2 DEF IInv, ControlInv
  <2>3. ASSUME pc = "idle", heap[o] \in {"malloc", "cbk"}, call.fn # "none"
        PROVE  o = "matrix" /\ ret \in OutOfResources
    <3>1. o = "matrix"
      BY <2>3 DEF IInv, ControlInv, CtxObjectsInv, HashObjectsInv, VerifyObjectsInv,
                  Unused, InCtx, Objects
    <3> QED BY <2>3, <3>1 DEF IInv, MatrixInv
  <2> QED BY <2>1, <2>2, <2>3
<1> QED BY <1>1, Invariant, PTL

\* argon2_hash hashes all of the password and the salt, for any size_t: the
\* casts to a word lose nothing.
THEOREM TheWholeInputIsHashed == Spec => []WholeInputHashed
<1>1. IInv => WholeInputHashed
  BY DEF IInv, LengthsInv, LengthsHashed, WholeInputHashed, Returned
<1> QED BY <1>1, Invariant, PTL

\* argon2_ctx, called again with a context whose flags ask for nothing to be
\* wiped, hashes what it hashed before it failed.
THEOREM SecondAttemptIsTheSame == Spec => []SecondAttemptHashesTheSame
<1>1. IInv => SecondAttemptHashesTheSame
  BY DEF IInv, AttemptInv, HashOfContext, HashedOnce, SecondAttemptHashesTheSame
<1> QED BY <1>1, Invariant, PTL

\* Behind validate_inputs no product wraps around: the matrix is as large as
\* its segments, takes no more memory than asked for and half of the addresses.
THEOREM AcceptedMatricesFit == Spec => []AcceptedMatrixFits
<1>1. IInv => AcceptedMatrixFits
  BY AcceptedFits DEF IInv, ContextInv, SizeInv, AcceptedMatrixFits, Matrix
<1> QED BY <1>1, Invariant, PTL

-----------------------------------------------------------------------------
(* Strings that argon2_hash made, and argon2_verify reads.                   *)

\* What argon2_hash has checked or was given in the types of C.
Arguments(a) ==
    /\ {a.pwdlen, a.saltlen, a.hashlen, a.t_cost, a.m_cost, a.lanes, a.version}
          \subseteq 0..UINT32_MAX
    /\ a.encodedlen \in Nat
    /\ a.salt # NULL /\ a.saltlen >= MinSaltLength =>
          a.salt \in Seq(0..255) /\ Len(a.salt) = a.saltlen

Accepted == pc \in {"initialize", "fill", "finalize"} \/ (pc = "returned" /\ ret = "OK")

\* argon2_hash fills in its context once, and argon2_ctx writes the tag.
HashPath ==
    call.fn = "hash" =>
        /\ pc # "idle" => Arguments(call)
        /\ pc \in {"validate", "initialize", "fill", "finalize"} => ctx = HashContext(call)
        /\ Accepted => type \in Types /\ validate_inputs(HashContext(call)) = "OK"
        /\ pc \in {"fill", "finalize"} => HashOfContext(prehash)
        /\ pc = "returned" /\ ret = "OK" =>
              ctx = [HashContext(call) EXCEPT !.out = Tag] /\ HashOfContext(prehash)

\* A call hashes one input at most, so that the place of an input is a byte.
CountInv ==
    /\ calls \in 0..MaxCalls /\ Len(hashed) <= calls
    /\ pc \in {"hash", "verify", "decode", "validate", "initialize"} => Len(hashed) < calls

\* The output of c is the tag of its input.
TagOf(c, t) ==
    \E k \in DOMAIN hashed : hashed[k] = initial_hash(c, t) /\ c.out = [i \in 1..c.outlen |-> k]

\* The string m was made of the context c.
MadeOf(m, c) ==
    /\ IsHash(c) /\ validate_inputs(c) = "OK"
    /\ m.type \in Types /\ m.str = Text(c, m.type)
    /\ m.pwd = c.pwd /\ m.pwdlen = c.pwdlen
    /\ c.secret = NULL /\ c.secretlen = 0 /\ c.ad = NULL /\ c.adlen = 0
    /\ TagOf(c, m.type)

MadeInv == \A m \in made : \E c : MadeOf(m, c)

SamePassword(m) ==
    m.pwdlen = call.pwdlen /\ Bytes(m.pwd, m.pwdlen) = Bytes(call.pwd, call.pwdlen)

\* A string that argon2_verify takes.
Readable == call.str # NULL /\ ~ (Len(call.str) > UINT32_MAX)

\* What is compared: the tag that was read and the one that was computed now,
\* which is of the same input only if the password is the same.
Comparable(m, c) ==
    /\ type = m.type /\ call.expected = c.out /\ ctx.outlen = c.outlen /\ ctx.out = Tag
    /\ prehash \in DOMAIN hashed
    /\ hashed[prehash] = initial_hash(c, m.type) <=> SamePassword(m)

\* Where argon2_verify is with the string m, which was made of c.
Verified(m, c) ==
    /\ pc \in {"validate", "initialize", "fill", "finalize"} =>
          type = m.type /\ DecodedAs(ctx, c, call) /\ call.expected = c.out
    /\ pc \in {"fill", "finalize"} => HashOfContext(prehash)
    /\ pc = "returned" => ret \in OutOfResources \/ (ret = "OK" /\ Comparable(m, c))
    /\ pc \in {"fail", "idle"} =>
          /\ type = m.type /\ SamePassword(m) /\ Readable => ret \in {"OK"} \cup OutOfResources
          /\ ret = "OK" => type = m.type /\ SamePassword(m)

VerifyPath ==
    call.fn = "verify" =>
        /\ DOMAIN call = {"fn", "str", "pwd", "pwdlen", "expected"}
        /\ pc \in {"verify", "decode"} =>
              call.str = encoded /\ Readable /\ call.pwdlen \in 0..UINT32_MAX
        /\ pc = "decode" =>
              /\ DOMAIN ctx = ContextFields /\ ctx.pwd = call.pwd /\ ctx.pwdlen = call.pwdlen
              /\ ctx.saltlen = Word(Len(encoded)) /\ ctx.outlen = Word(Len(encoded))
        /\ \A m \in made : m.str = call.str => \E c : MadeOf(m, c) /\ Verified(m, c)

PathsInv == HashPath /\ CountInv /\ MadeInv /\ VerifyPath

-----------------------------------------------------------------------------

\* What was hashed stays hashed: a string remains made of its context.
LEMMA MadeStays ==
    ASSUME NEW m, NEW c, MadeOf(m, c),
           \A i \in DOMAIN hashed : i \in DOMAIN hashed' /\ hashed'[i] = hashed[i]
    PROVE  MadeOf(m, c)'
<1>1. TagOf(c, m.type)'
  BY DEF MadeOf, TagOf
<1> QED BY <1>1 DEF MadeOf

\* What is hashed of a context that was read again.
LEMMA SameInput ==
    ASSUME NEW m, NEW c, MadeOf(m, c), NEW x, DecodedAs(x, c, call), type = m.type
    PROVE  initial_hash(x, type) = initial_hash(c, m.type) <=> SamePassword(m)
<1> DEFINE a1 == Bytes(x.pwd, x.pwdlen)
           a2 == Bytes(c.pwd, c.pwdlen)
           s  == Bytes(x.salt, x.saltlen)
           e  == Bytes(NULL, 0)
<1>1. /\ x.lanes = c.lanes /\ x.outlen = c.outlen /\ x.m_cost = c.m_cost /\ x.t_cost = c.t_cost
      /\ x.version = c.version /\ x.salt = c.salt /\ x.saltlen = c.saltlen
      /\ x.pwd = call.pwd /\ x.pwdlen = call.pwdlen
      /\ x.secret = NULL /\ x.secretlen = 0 /\ x.ad = NULL /\ x.adlen = 0
  BY DEF DecodedAs
<1>2. c.secret = NULL /\ c.secretlen = 0 /\ c.ad = NULL /\ c.adlen = 0
  BY DEF MadeOf
<1>3. initial_hash(x, type) =
         <<c.lanes, c.outlen, c.m_cost, c.t_cost, c.version, m.type,
           x.pwdlen, a1, c.saltlen, s, 0, e, 0, e>>
  BY <1>1 DEF initial_hash
<1>4. initial_hash(c, m.type) =
         <<c.lanes, c.outlen, c.m_cost, c.t_cost, c.version, m.type,
           c.pwdlen, a2, c.saltlen, s, 0, e, 0, e>>
  BY <1>1, <1>2 DEF initial_hash
<1>5. SamePassword(m) <=> c.pwdlen = x.pwdlen /\ a2 = a1
  BY <1>1 DEF SamePassword, MadeOf
<1> HIDE DEF a1, a2, s, e
<1> QED BY <1>3, <1>4, <1>5

\* x is k, n times.
IsRepeated(x, k, n) == x = [i \in 1..n |-> k]

\* argon2_compare finds every difference of two tags.
LEMMA CompareTags ==
    ASSUME NEW n, n \in Nat /\ n >= 1, NEW k, NEW p, NEW x, NEW y,
           IsRepeated(x, k, n), IsRepeated(y, p, n)
    PROVE  argon2_compare(x, y, n) = 0 <=> k = p
<1>1. 1 \in 1..n /\ (\A i \in 1..n : x[i] = k /\ y[i] = p)
  BY DEF IsRepeated
<1> QED BY <1>1 DEF argon2_compare

\* Base64 is not shorter than the bytes.
LEMMA BytesFit == \A n \in Nat : n <= b64len(n)
<1> SUFFICES ASSUME NEW n \in Nat PROVE n <= b64len(n)
  OBVIOUS
<1>1. n % 3 \in 0..2 /\ n = 3 * (n \div 3) + (n % 3) /\ n \div 3 \in Nat
  OBVIOUS
<1> DEFINE q == n \div 3
           r == n % 3
<1>2. b64len(n) = 4 * q + (CASE r = 0 -> 0 [] r = 1 -> 2 [] r = 2 -> 3)
  BY DEF b64len
<1>3. q \in Nat /\ r \in 0..2 /\ n = 3 * q + r
  BY <1>1
<1> HIDE DEF q, r
<1> QED BY <1>2, <1>3

\* No field is longer than the string.
LEMMA FieldsFit ==
    ASSUME NEW c, IsHash(c), NEW t \in Types
    PROVE  c.saltlen <= Len(Text(c, t)) /\ c.outlen <= Len(Text(c, t))
<1> DEFINE h == Len(Text(c, t))
           a == Len(type_string(t))
           v == numlen[c.version]
           m == numlen[c.m_cost]
           d == numlen[c.t_cost]
           e == numlen[c.lanes]
           f == b64len(c.saltlen)
           g == b64len(c.outlen)
<1>1. h = 15 + a + v + m + d + e + f + g
  BY TextWritten
<1>2. a \in Nat /\ v \in Nat /\ m \in Nat /\ d \in Nat /\ e \in Nat
  BY FieldsAreText
<1>3. c.saltlen \in Nat /\ c.outlen \in Nat
  BY LenProperties DEF IsHash, IsBytes
<1>4. f \in Nat /\ g \in Nat
  <2>1. /\ to_base64(c.salt) \in Seq(Alphabet) /\ Len(to_base64(c.salt)) = f
        /\ to_base64(c.out) \in Seq(Alphabet) /\ Len(to_base64(c.out)) = g
    BY FieldsAreText
  <2> QED BY <2>1, LenProperties
<1>5. c.saltlen <= f /\ c.outlen <= g
  BY <1>3, BytesFit
<1> HIDE DEF h, a, v, m, d, e, f, g
<1>6. c.saltlen <= h /\ c.outlen <= h
  BY <1>1, <1>2, <1>3, <1>4, <1>5
<1> QED BY <1>6 DEF h

LEMMA CountKeeps ==
    ASSUME IInv, CountInv, [Next]_vars
    PROVE  CountInv'
<1> DEFINE Before == {"hash", "verify", "decode", "validate", "initialize"}
<1>1. /\ MaxCalls \in Nat /\ Len(hashed) \in Nat
      /\ calls \in Nat /\ calls <= MaxCalls /\ Len(hashed) <= calls
      /\ pc \in Before => Len(hashed) < calls
  <2>1. Len(hashed) \in Nat
    BY LenProperties DEF IInv, HashedOnce
  <2> QED BY <2>1, CallAssumption DEF CountInv
<1>2. CASE initialize
  <2>1. calls' = calls /\ pc' = "fill" /\ pc = "initialize"
    BY <1>2 DEF initialize
  <2>2. \E h : hashed' = hashed \/ hashed' = Append(hashed, h)
    BY <1>2 DEF initialize
  <2>3. Len(hashed') <= Len(hashed) + 1 /\ Len(hashed') \in Nat
    <3>1. PICK h : hashed' = hashed \/ hashed' = Append(hashed, h)
      BY <2>2
    <3> DEFINE S == {hashed[i] : i \in DOMAIN hashed} \cup {h}
    <3>2. hashed \in Seq({hashed[i] : i \in DOMAIN hashed})
      BY DEF IInv, HashedOnce
    <3>3. hashed \in Seq(S) /\ h \in S
      BY <3>2, SeqMonotonic
    <3> HIDE DEF S
    <3>4. Len(Append(hashed, h)) = Len(hashed) + 1
      BY <3>3, AppendProperties
    <3> QED BY <1>1, <3>1, <3>4
  <2> QED BY <1>1, <2>1, <2>3 DEF CountInv
<1>3. CASE callCtx \/ callCtxAgain \/ callHash \/ callVerify
  <2>1. hashed' = hashed /\ calls' = calls + 1 /\ calls < MaxCalls
    BY <1>3 DEF callCtx, callCtxAgain, callHash, callVerify, Begin
  <2> QED BY <1>1, <2>1 DEF CountInv
<1>4. ASSUME hashed' = hashed, calls' = calls, pc' \in Before => pc \in Before
      PROVE  CountInv'
  BY <1>1, <1>4 DEF CountInv
<1>5. CASE validate \/ initializeFails \/ fill \/ finalize
  <2>1. hashed' = hashed /\ calls' = calls /\ (pc' \in Before => pc \in Before)
    BY <1>5 DEF validate, initializeFails, fill, finalize, CtxReturn, ctxVars
  <2> QED BY <1>4, <2>1
<1>6. CASE ctxReturns \/ hashAllocates \/ hashOutOfMemory \/ hashReturns \/ alter
  <2>1. hashed' = hashed /\ calls' = calls /\ (pc' \in Before => pc \in Before)
    BY <1>6 DEF ctxReturns, hashAllocates, hashOutOfMemory, hashReturns, alter, Return,
                ctxVars
  <2> QED BY <1>4, <2>1
<1>7. CASE verifyAllocates \/ verifyDecodes \/ verifyCompares \/ verifyReturns
  <2>1. hashed' = hashed /\ calls' = calls /\ (pc' \in Before => pc \in Before)
    BY <1>7 DEF verifyAllocates, verifyDecodes, verifyCompares, verifyReturns, Return, Failed,
                ctxVars
  <2> QED BY <1>4, <2>1
<1>8. CASE UNCHANGED vars
  <2>1. hashed' = hashed /\ calls' = calls /\ (pc' \in Before => pc \in Before)
    BY <1>8 DEF vars, ctxVars
  <2> QED BY <1>4, <2>1
<1> QED BY <1>2, <1>3, <1>5, <1>6, <1>7, <1>8 DEF Next, done

\* The context of argon2_hash is one; its flags ask for nothing to be wiped.
LEMMA HashContextFacts ==
    ASSUME NEW a, Arguments(a)
    PROVE  LET c == HashContext(a) IN
           /\ DOMAIN c = ContextFields /\ c.flags = {}
           /\ c.outlen = a.hashlen /\ c.pwdlen = a.pwdlen /\ c.saltlen = a.saltlen
           /\ c.pwd = a.pwd /\ c.salt = a.salt
           /\ c.t_cost = a.t_cost /\ c.m_cost = a.m_cost /\ c.lanes = a.lanes
           /\ c.version = a.version
           /\ c.secret = NULL /\ c.secretlen = 0 /\ c.ad = NULL /\ c.adlen = 0
<1> DEFINE c == HashContext(a)
<1>1. Word(a.hashlen) = a.hashlen /\ Word(a.pwdlen) = a.pwdlen /\ Word(a.saltlen) = a.saltlen
  BY CastsKeep DEF Arguments
<1>2. DOMAIN c = ContextFields /\ c.flags = {}
  BY DEF HashContext, ContextFields
<1>3. /\ c.outlen = a.hashlen /\ c.pwdlen = a.pwdlen /\ c.saltlen = a.saltlen
      /\ c.pwd = a.pwd /\ c.salt = a.salt
  BY <1>1 DEF HashContext
<1>4. /\ c.t_cost = a.t_cost /\ c.m_cost = a.m_cost /\ c.lanes = a.lanes
      /\ c.version = a.version
      /\ c.secret = NULL /\ c.secretlen = 0 /\ c.ad = NULL /\ c.adlen = 0
  BY DEF HashContext
<1> QED BY <1>2, <1>3, <1>4

\* Nothing is wiped without a flag.
LEMMA NothingCleared ==
    ASSUME NEW c, c.flags = {}
    PROVE  clearHashed(c) = c
<1>1. "CLEAR_PASSWORD" \notin c.flags /\ "CLEAR_SECRET" \notin c.flags
  OBVIOUS
<1> QED BY <1>1 DEF clearHashed

\* What is given to argon2_hash, and checked by it.
LEMMA GivenArguments ==
    ASSUME NEW a \in HashCalls, NEW b \in {a, hash_raw(a), hash_encoded(a)},
           hashLengths(b) = "OK"
    PROVE  Arguments(b)
<1>1. /\ DOMAIN a = CallFields
      /\ {a.pwdlen, a.saltlen, a.hashlen, a.encodedlen} \subseteq Nat
      /\ {a.t_cost, a.m_cost, a.lanes, a.version} \subseteq 0..UINT32_MAX
      /\ a.salt # NULL /\ a.saltlen \in MinSaltLength..UINT32_MAX =>
            a.salt \in Seq(0..255) /\ a.saltlen = Len(a.salt)
  BY CallAssumption
<1>2. /\ b.pwdlen = a.pwdlen /\ b.saltlen = a.saltlen /\ b.hashlen = a.hashlen
      /\ b.t_cost = a.t_cost /\ b.m_cost = a.m_cost /\ b.lanes = a.lanes /\ b.salt = a.salt
      /\ b.version \in {a.version, VersionNumber} /\ b.encodedlen \in {a.encodedlen, 0}
  <2>1. CASE b = a
    BY <2>1
  <2>2. CASE b = hash_raw(a)
    BY <1>1, <2>2 DEF hash_raw, CallFields
  <2>3. CASE b = hash_encoded(a)
    BY <1>1, <2>3 DEF hash_encoded, CallFields
  <2> QED BY <2>1, <2>2, <2>3
<1>3. {b.pwdlen, b.saltlen, b.hashlen} \subseteq 0..UINT32_MAX
  BY <1>1, <1>2, LengthsFacts
<1>4. VersionNumber \in 0..UINT32_MAX
  BY SizesAreNumbers DEF VersionNumber
<1>5. b.salt # NULL /\ b.saltlen >= MinSaltLength =>
         b.salt \in Seq(0..255) /\ Len(b.salt) = b.saltlen
  <2>1. MinSaltLength \in Nat /\ UINT32_MAX \in Nat
    BY SizesAreNumbers DEF MinSaltLength
  <2> HIDE DEF MinSaltLength
  <2>2. b.saltlen >= MinSaltLength => a.saltlen \in MinSaltLength..UINT32_MAX
    BY <1>2, <1>3, <2>1
  <2> QED BY <1>1, <1>2, <2>2
<1> QED BY <1>1, <1>2, <1>3, <1>4, <1>5 DEF Arguments

\* While the context of argon2_hash is tried and filled, its tag is of what it hashed.
LEMMA HashPathKeeps ==
    ASSUME IInv, HashPath, [Next]_vars
    PROVE  HashPath'
<1>1. ASSUME call.fn = "hash", initialize PROVE HashPath'
  <2> DEFINE c == HashContext(call)
  <2>1. /\ Arguments(call) /\ ctx = c /\ type \in Types /\ validate_inputs(c) = "OK"
        /\ pc' = "fill" /\ call' = call /\ type' = type /\ ctx' = clearHashed(ctx)
    BY <1>1 DEF HashPath, Accepted, initialize
  <2>2. c.flags = {}
    BY <2>1, HashContextFacts
  <2> HIDE DEF c
  <2>3. ctx' = c
    BY <2>1, <2>2, NothingCleared
  <2>4. prehash' \in DOMAIN hashed' /\ hashed'[prehash'] = initial_hash(ctx, type)
    BY <1>1, HashFacts DEF IInv
  <2>5. HashOfContext(prehash)'
    BY <2>1, <2>3, <2>4 DEF HashOfContext
  <2>6. HashContext(call') = c
    BY <2>1 DEF c
  <2> QED BY <2>1, <2>3, <2>5, <2>6 DEF HashPath, Accepted
<1>2. ASSUME call.fn = "hash", finalize PROVE HashPath'
  <2> DEFINE c == HashContext(call)
  <2>1. /\ Arguments(call) /\ ctx = c /\ type \in Types /\ validate_inputs(c) = "OK"
        /\ HashOfContext(prehash)
        /\ pc' = "returned" /\ call' = call /\ type' = type /\ ctx' = [ctx EXCEPT !.out = Tag]
        /\ prehash' = prehash /\ hashed' = hashed
    BY <1>2 DEF HashPath, Accepted, finalize, CtxReturn
  <2>2. DOMAIN c = ContextFields
    BY <2>1, HashContextFacts
  <2> HIDE DEF c
  <2>3. initial_hash(ctx', type) = initial_hash(ctx, type) /\ ctx'.outlen = ctx.outlen
    BY <2>1, <2>2 DEF initial_hash, ContextFields
  <2>4. HashOfContext(prehash)'
    BY <2>1, <2>3 DEF HashOfContext
  <2>5. Tag' = Tag
    BY <2>1, <2>3 DEF Tag
  <2>6. HashContext(call') = c
    BY <2>1 DEF c
  <2>7. ctx' = [c EXCEPT !.out = Tag']
    BY <2>1, <2>5
  <2> HIDE DEF HashOfContext
  <2> QED BY <2>1, <2>4, <2>6, <2>7 DEF HashPath, Accepted
<1>3. ASSUME call.fn = "hash", validate PROVE HashPath'
  <2>1. /\ Arguments(call) /\ ctx = HashContext(call) /\ call' = call /\ ctx' = ctx
        /\ type' = type /\ pc = "validate"
    BY <1>3 DEF HashPath, validate, ctxVars
  <2>2. \/ pc' = "initialize" /\ validate_inputs(ctx) = "OK" /\ type \in Types
        \/ pc' = "returned" /\ ret' # "OK"
    BY <1>3 DEF validate, CtxReturn
  <2> QED BY <2>1, <2>2 DEF HashPath, Accepted
<1>4. ASSUME call.fn = "hash", initializeFails PROVE HashPath'
  <2>1. /\ Arguments(call) /\ call' = call /\ pc' = "returned" /\ ret' # "OK"
    BY <1>4 DEF HashPath, initializeFails, CtxReturn
  <2> QED BY <2>1 DEF HashPath, Accepted
<1>5. ASSUME call.fn = "hash", fill PROVE HashPath'
  <2>1. /\ Arguments(call) /\ ctx = HashContext(call) /\ call' = call /\ ctx' = ctx
        /\ type' = type /\ prehash' = prehash /\ hashed' = hashed
        /\ type \in Types /\ validate_inputs(HashContext(call)) = "OK" /\ HashOfContext(prehash)
    BY <1>5 DEF HashPath, Accepted, fill, ctxVars
  <2>2. pc' = "finalize" \/ (pc' = "returned" /\ ret' # "OK")
    BY <1>5 DEF fill, CtxReturn
  <2>3. HashOfContext(prehash)'
    BY <2>1 DEF HashOfContext
  <2> QED BY <2>1, <2>2, <2>3 DEF HashPath, Accepted
<1>6. ASSUME hashAllocates PROVE HashPath'
  <2>1. call.fn = "hash" /\ pc = "hash"
    BY <1>6 DEF IInv, ControlInv, hashAllocates
  <2>2. Arguments(call) /\ call' = call /\ ctx' = HashContext(call) /\ pc' = "validate"
    BY <1>6, <2>1 DEF HashPath, hashAllocates
  <2> QED BY <2>2 DEF HashPath, Accepted
<1>7. ASSUME call'.fn = "hash" => pc' = "idle" PROVE HashPath'
  BY <1>7 DEF HashPath, Accepted
<1>8. CASE callHash
  <2>1. PICK a \in HashCalls : \E b \in {a, hash_raw(a), hash_encoded(a)} :
           Begin(b, hashLengths(b), "hash")
    BY <1>8 DEF callHash
  <2> PICK b \in {a, hash_raw(a), hash_encoded(a)} : Begin(b, hashLengths(b), "hash")
    BY <2>1
  <2>2. call' = b /\ (pc' = "idle" \/ (pc' = "hash" /\ hashLengths(b) = "OK"))
    BY DEF Begin
  <2>3. pc' # "idle" => Arguments(call')
    BY <2>2, GivenArguments
  <2> HIDE DEF Arguments
  <2> QED BY <2>2, <2>3 DEF HashPath, Accepted
<1>9. CASE callCtx
  <2>1. call'.fn = "ctx"
    BY <1>9 DEF callCtx, Begin
  <2> QED BY <1>7, <2>1
<1>10. CASE callCtxAgain
  <2>1. call'.fn = "ctx"
    BY <1>10 DEF callCtxAgain, Begin, IInv, ControlInv
  <2> QED BY <1>7, <2>1
<1>11. CASE callVerify
  <2>1. call'.fn = "verify"
    BY <1>11 DEF callVerify, Begin
  <2> QED BY <1>7, <2>1
<1>12. CASE ctxReturns \/ hashOutOfMemory \/ hashReturns \/ alter \/ verifyReturns
  <2>1. pc' = "idle"
    BY <1>12 DEF ctxReturns, hashOutOfMemory, hashReturns, alter, verifyReturns, Return
  <2> QED BY <1>7, <2>1
<1>13. CASE verifyAllocates \/ verifyDecodes \/ verifyCompares
  <2>1. call.fn = "verify" /\ call'.fn = "verify"
    BY <1>13 DEF verifyAllocates, verifyDecodes, verifyCompares, IInv, ControlInv, InCtx
  <2> QED BY <1>7, <2>1
<1>14. CASE (validate \/ initialize \/ initializeFails \/ fill \/ finalize) /\ call.fn # "hash"
  <2>1. call' = call
    BY <1>14 DEF validate, initialize, initializeFails, fill, finalize
  <2> QED BY <1>7, <1>14, <2>1
<1>15. CASE UNCHANGED vars
  BY <1>15 DEF vars, ctxVars, HashPath, Accepted, HashOfContext, Tag
<1> QED BY <1>1, <1>2, <1>3, <1>4, <1>5, <1>6, <1>8, <1>9, <1>10, <1>11, <1>12, <1>13, <1>14,
           <1>15 DEF Next, done

\* The context of a hash that was computed, with its tag.
LEMMA HashIsMade ==
    ASSUME IInv, HashPath, CountInv, call.fn = "hash", pc = "returned", ret = "OK"
    PROVE  /\ IsHash(ctx) /\ type \in Types /\ call.encodedlen \in Nat
           /\ ctx.pwd = call.pwd /\ ctx.pwdlen = call.pwdlen
           /\ ctx.secret = NULL /\ ctx.secretlen = 0 /\ ctx.ad = NULL /\ ctx.adlen = 0
           /\ TagOf(ctx, type)
<1> DEFINE c == HashContext(call)
<1>1. /\ Arguments(call) /\ type \in Types /\ validate_inputs(c) = "OK"
      /\ ctx = [c EXCEPT !.out = Tag] /\ HashOfContext(prehash)
  BY DEF HashPath, Accepted
<1>2. /\ DOMAIN c = ContextFields /\ c.flags = {}
      /\ c.outlen = call.hashlen /\ c.pwdlen = call.pwdlen /\ c.saltlen = call.saltlen
      /\ c.pwd = call.pwd /\ c.salt = call.salt
      /\ c.t_cost = call.t_cost /\ c.m_cost = call.m_cost /\ c.lanes = call.lanes
      /\ c.version = call.version
      /\ c.secret = NULL /\ c.secretlen = 0 /\ c.ad = NULL /\ c.adlen = 0
  BY <1>1, HashContextFacts
<1> HIDE DEF c
<1>3. /\ DOMAIN ctx = ContextFields /\ ctx.out = Tag
      /\ \A f \in ContextFields \ {"out"} : ctx[f] = c[f]
  BY <1>1, <1>2 DEF ContextFields
<1>4. /\ ctx.outlen = call.hashlen /\ ctx.pwdlen = call.pwdlen /\ ctx.saltlen = call.saltlen
      /\ ctx.pwd = call.pwd /\ ctx.salt = call.salt
      /\ ctx.t_cost = call.t_cost /\ ctx.m_cost = call.m_cost /\ ctx.lanes = call.lanes
      /\ ctx.version = call.version
      /\ ctx.secret = NULL /\ ctx.secretlen = 0 /\ ctx.ad = NULL /\ ctx.adlen = 0
  BY <1>2, <1>3 DEF ContextFields
<1>5. /\ {ctx.saltlen, ctx.outlen, ctx.t_cost, ctx.m_cost, ctx.lanes, ctx.version}
            \subseteq 0..UINT32_MAX
      /\ call.encodedlen \in Nat
  BY <1>1, <1>4 DEF Arguments
<1>6. IsBytes(ctx.salt) /\ ctx.saltlen = Len(ctx.salt)
  <2>1. ~ (c.salt = NULL /\ c.saltlen # 0) /\ ~ (c.saltlen < MinSaltLength)
    BY <1>1, ValidateInputs DEF Valid, ValidBuffer
  <2>2. call.saltlen \in Nat
    BY <1>1, SizesAreNumbers DEF Arguments
  <2>3. call.saltlen >= MinSaltLength /\ call.salt # NULL
    BY <1>2, <2>1, <2>2 DEF MinSaltLength
  <2>4. call.salt \in Seq(0..255) /\ Len(call.salt) = call.saltlen
    BY <1>1, <2>3 DEF Arguments
  <2> QED BY <1>4, <2>4, BytesOfSeq
<1>7. prehash \in 1..255
  <2>1. DOMAIN hashed = 1..Len(hashed) /\ Len(hashed) \in Nat
    BY LenProperties DEF IInv, HashedOnce
  <2>2. /\ MaxCalls \in Nat /\ MaxCalls <= 255 /\ calls \in Nat /\ calls <= MaxCalls
        /\ Len(hashed) <= calls
    <3>1. MaxCalls \in 0..255
      BY CallAssumption
    <3> QED BY <3>1 DEF CountInv
  <2>3. prehash \in Nat /\ prehash >= 1 /\ prehash <= Len(hashed)
    <3>1. prehash \in DOMAIN hashed
      BY <1>1 DEF HashOfContext
    <3>2. prehash \in 1..Len(hashed)
      BY <2>1, <3>1
    <3> QED BY <2>1, <3>2
  <2> QED BY <2>1, <2>2, <2>3
<1>8. ctx.outlen \in Nat
  BY <1>5, SizesAreNumbers
<1>9. IsBytes(ctx.out) /\ ctx.outlen = Len(ctx.out)
  <2> DEFINE n == ctx.outlen
             s == [i \in 1..n |-> prehash]
  <2>1. ctx.out = s
    BY <1>3 DEF Tag
  <2> HIDE DEF n
  <2>2. n \in Nat
    BY <1>8 DEF n
  <2>3. s \in Seq(0..255) /\ Len(s) = n
    BY <1>7, <2>2
  <2> HIDE DEF s
  <2> QED BY <2>1, <2>3, BytesOfSeq DEF n
<1>10. TagOf(ctx, type)
  BY <1>1, <1>3 DEF TagOf, HashOfContext, Tag
<1> QED BY <1>1, <1>3, <1>4, <1>5, <1>6, <1>9, <1>10 DEF IsHash

\* What was hashed stays hashed, and only argon2_hash makes strings.
LEMMA HistoryGrows ==
    ASSUME IInv, [Next]_vars
    PROVE  /\ \A i \in DOMAIN hashed : i \in DOMAIN hashed' /\ hashed'[i] = hashed[i]
           /\ made' = made \/ hashReturns
<1>1. CASE initialize
  <2>1. \A i \in DOMAIN hashed : i \in DOMAIN hashed' /\ hashed'[i] = hashed[i]
    BY <1>1, HashFacts DEF IInv
  <2>2. made' = made
    BY <1>1 DEF initialize, userVars
  <2> QED BY <2>1, <2>2
<1>2. ASSUME hashed' = hashed, made' = made
      PROVE  /\ \A i \in DOMAIN hashed : i \in DOMAIN hashed' /\ hashed'[i] = hashed[i]
             /\ made' = made
  BY <1>2
<1>3. CASE validate \/ initializeFails \/ fill \/ finalize \/ ctxReturns
  <2>1. hashed' = hashed /\ made' = made
    BY <1>3 DEF validate, initializeFails, fill, finalize, ctxReturns, ctxVars, userVars
  <2> QED BY <1>2, <2>1
<1>4. CASE callCtx \/ callCtxAgain \/ callHash \/ callVerify
  <2>1. hashed' = hashed /\ made' = made
    BY <1>4 DEF callCtx, callCtxAgain, callHash, callVerify, userVars
  <2> QED BY <1>2, <2>1
<1>5. CASE hashAllocates \/ hashOutOfMemory \/ alter
  <2>1. hashed' = hashed /\ made' = made
    BY <1>5 DEF hashAllocates, hashOutOfMemory, alter, ctxVars, userVars
  <2> QED BY <1>2, <2>1
<1>6. CASE verifyAllocates \/ verifyDecodes \/ verifyCompares \/ verifyReturns
  <2>1. hashed' = hashed /\ made' = made
    BY <1>6 DEF verifyAllocates, verifyDecodes, verifyCompares, verifyReturns, ctxVars, userVars
  <2> QED BY <1>2, <2>1
<1>7. CASE hashReturns
  <2>1. hashed' = hashed
    BY <1>7 DEF hashReturns, ctxVars
  <2> QED BY <1>7, <2>1
<1>8. CASE UNCHANGED vars
  <2>1. hashed' = hashed /\ made' = made
    BY <1>8 DEF vars, ctxVars, userVars
  <2> QED BY <1>2, <2>1
<1> QED BY <1>1, <1>3, <1>4, <1>5, <1>6, <1>7, <1>8 DEF Next, done

\* Every string that was made was made of a context and its tag.
LEMMA MadeKeeps ==
    ASSUME IInv, HashPath, CountInv, MadeInv, [Next]_vars
    PROVE  MadeInv'
<1>1. \A i \in DOMAIN hashed : i \in DOMAIN hashed' /\ hashed'[i] = hashed[i]
  BY HistoryGrows
<1>2. ASSUME NEW m \in made PROVE \E c : MadeOf(m, c)'
  <2>1. PICK c : MadeOf(m, c)
    BY <1>2 DEF MadeInv
  <2>2. MadeOf(m, c)'
    BY <1>1, <2>1, MadeStays
  <2> QED BY <2>2
<1>3. ASSUME hashReturns, NEW m \in made', m \notin made PROVE \E c : MadeOf(m, c)'
  <2> DEFINE e == encode_string(call.encodedlen, ctx, type)
  <2>1. call.fn = "hash" /\ pc = "returned"
    BY <1>3 DEF hashReturns
  <2>2. /\ ret = "OK" /\ e.ret = "OK"
        /\ m = [str |-> e.dst, type |-> type, pwd |-> call.pwd, pwdlen |-> call.pwdlen]
    BY <1>3 DEF hashReturns
  <2>3. /\ IsHash(ctx) /\ type \in Types /\ call.encodedlen \in Nat
        /\ ctx.pwd = call.pwd /\ ctx.pwdlen = call.pwdlen
        /\ ctx.secret = NULL /\ ctx.secretlen = 0 /\ ctx.ad = NULL /\ ctx.adlen = 0
        /\ TagOf(ctx, type)
    BY <2>1, <2>2, HashIsMade
  <2>4. validate_inputs(ctx) = "OK" /\ e.dst = Text(ctx, type)
    BY <2>2, <2>3, EncodeString
  <2> HIDE DEF e
  <2>5. m.str = e.dst /\ m.type = type /\ m.pwd = call.pwd /\ m.pwdlen = call.pwdlen
    BY <2>2
  <2>6. MadeOf(m, ctx)
    BY <2>3, <2>4, <2>5 DEF MadeOf
  <2>7. \E c : MadeOf(m, c)
    BY <2>6
  <2>8. PICK c : MadeOf(m, c)
    BY <2>7
  <2>9. MadeOf(m, c)'
    BY <1>1, <2>8, MadeStays
  <2> QED BY <2>9
<1>4. made' = made \/ hashReturns
  BY HistoryGrows
<1> HIDE DEF MadeOf
<1> QED BY <1>2, <1>3, <1>4 DEF MadeInv

-----------------------------------------------------------------------------

\* Of a step of argon2_verify it remains to show where it is with each string.
LEMMA StillVerified ==
    ASSUME IInv, [Next]_vars, VerifyPath, call.fn = "verify", ~ hashReturns,
           call'.str = call.str,
           \A m, c : MadeOf(m, c) /\ m.str = call.str /\ Verified(m, c) => Verified(m, c)'
    PROVE  \A m \in made' : m.str = call'.str => \E c : MadeOf(m, c)' /\ Verified(m, c)'
<1>1. made' = made /\ \A i \in DOMAIN hashed : i \in DOMAIN hashed' /\ hashed'[i] = hashed[i]
  BY HistoryGrows
<1>2. ASSUME NEW m \in made, m.str = call.str PROVE \E c : MadeOf(m, c)' /\ Verified(m, c)'
  <2>1. PICK c : MadeOf(m, c) /\ Verified(m, c)
    BY <1>2 DEF VerifyPath
  <2>2. MadeOf(m, c)'
    BY <1>1, <2>1, MadeStays
  <2>3. Verified(m, c)'
    BY <1>2, <2>1
  <2> QED BY <2>2, <2>3
<1> QED BY <1>1, <1>2

\* argon2_ctx accepts what was decoded.
LEMMA VerifyValidates ==
    ASSUME IInv, VerifyPath, call.fn = "verify", validate
    PROVE  VerifyPath'
<1>1. /\ pc = "validate" /\ call' = call /\ ctx' = ctx /\ type' = type
      /\ pc' \in {"initialize", "returned"}
  BY DEF validate, CtxReturn, ctxVars
<1>2. ASSUME NEW m, NEW c, MadeOf(m, c), Verified(m, c) PROVE Verified(m, c)'
  <2>1. type = m.type /\ DecodedAs(ctx, c, call) /\ call.expected = c.out
    BY <1>1, <1>2 DEF Verified
  <2>2. validate_inputs(ctx) = "OK" /\ type \in Types
    BY <1>2, <2>1 DEF DecodedAs, MadeOf
  <2>3. pc' = "initialize"
    BY <2>2 DEF validate
  <2>4. type' = m.type /\ DecodedAs(ctx', c, call') /\ call'.expected = c.out
    BY <1>1, <2>1
  <2> QED BY <2>3, <2>4 DEF Verified
<1>3. ~ hashReturns /\ [Next]_vars
  BY <1>1 DEF hashReturns, Next
<1>4. \A m \in made' : m.str = call'.str => \E c : MadeOf(m, c)' /\ Verified(m, c)'
  BY <1>1, <1>2, <1>3, StillVerified
<1> QED BY <1>1, <1>4 DEF VerifyPath

\* What is hashed now is what was hashed then, if the password is the same.
LEMMA VerifyInitializes ==
    ASSUME IInv, VerifyPath, call.fn = "verify", initialize
    PROVE  VerifyPath'
<1>1. /\ pc = "initialize" /\ pc' = "fill" /\ call' = call /\ ctx' = clearHashed(ctx)
      /\ type' = type
  BY DEF initialize
<1>2. prehash' \in DOMAIN hashed' /\ hashed'[prehash'] = initial_hash(ctx, type)
  BY HashFacts DEF IInv
<1>3. ASSUME NEW m, NEW c, MadeOf(m, c), Verified(m, c) PROVE Verified(m, c)'
  <2>1. type = m.type /\ DecodedAs(ctx, c, call) /\ call.expected = c.out
    BY <1>1, <1>3 DEF Verified
  <2>2. ctx' = ctx
    BY <1>1, <2>1, NothingCleared DEF DecodedAs
  <2>3. type' = m.type /\ DecodedAs(ctx', c, call') /\ call'.expected = c.out
    BY <1>1, <2>1, <2>2
  <2>4. HashOfContext(prehash)'
    BY <1>1, <1>2, <2>2 DEF HashOfContext
  <2> QED BY <1>1, <2>3, <2>4 DEF Verified
<1>4. ~ hashReturns /\ [Next]_vars
  BY <1>1 DEF hashReturns, Next
<1>5. \A m \in made' : m.str = call'.str => \E c : MadeOf(m, c)' /\ Verified(m, c)'
  BY <1>1, <1>3, <1>4, StillVerified
<1> QED BY <1>1, <1>5 DEF VerifyPath

\* argon2_ctx fails when it has no memory or no thread.
LEMMA VerifyFills ==
    ASSUME IInv, VerifyPath, call.fn = "verify", initializeFails \/ fill
    PROVE  VerifyPath'
<1>1. /\ pc \in {"initialize", "fill"} /\ call' = call /\ ctx' = ctx /\ type' = type
      /\ prehash' = prehash /\ hashed' = hashed
      /\ (pc = "fill" /\ pc' = "finalize") \/ (pc' = "returned" /\ ret' \in OutOfResources)
  BY DEF initializeFails, fill, CtxReturn, ctxVars, OutOfResources
<1>2. ASSUME NEW m, NEW c, MadeOf(m, c), Verified(m, c) PROVE Verified(m, c)'
  <2>1. type = m.type /\ DecodedAs(ctx, c, call) /\ call.expected = c.out
    BY <1>1, <1>2 DEF Verified
  <2>2. type' = m.type /\ DecodedAs(ctx', c, call') /\ call'.expected = c.out
    BY <1>1, <2>1
  <2>3. pc = "fill" => HashOfContext(prehash)'
    BY <1>1, <1>2 DEF Verified, HashOfContext
  <2> QED BY <1>1, <2>2, <2>3 DEF Verified
<1>3. ~ hashReturns /\ [Next]_vars
  BY <1>1 DEF hashReturns, Next
<1>4. \A m \in made' : m.str = call'.str => \E c : MadeOf(m, c)' /\ Verified(m, c)'
  BY <1>1, <1>2, <1>3, StillVerified
<1> QED BY <1>1, <1>4 DEF VerifyPath

\* The tag is computed, of the same length.
LEMMA VerifyFinalizes ==
    ASSUME IInv, VerifyPath, call.fn = "verify", finalize
    PROVE  VerifyPath'
<1>1. /\ pc = "finalize" /\ pc' = "returned" /\ ret' = "OK" /\ call' = call /\ type' = type
      /\ ctx' = [ctx EXCEPT !.out = Tag] /\ prehash' = prehash /\ hashed' = hashed
  BY DEF finalize, CtxReturn
<1>2. ASSUME NEW m, NEW c, MadeOf(m, c), Verified(m, c) PROVE Verified(m, c)'
  <2>1. /\ type = m.type /\ DecodedAs(ctx, c, call) /\ call.expected = c.out
        /\ HashOfContext(prehash)
    BY <1>1, <1>2 DEF Verified
  <2>2. DOMAIN ctx = ContextFields /\ ctx.outlen = c.outlen
    BY <2>1 DEF DecodedAs
  <2>3. ctx'.outlen = c.outlen /\ ctx'.out = Tag
    BY <1>1, <2>2 DEF ContextFields
  <2>4. Tag' = Tag
    BY <1>1, <2>2, <2>3 DEF Tag
  <2>5. hashed[prehash] = initial_hash(c, m.type) <=> SamePassword(m)
    BY <1>2, <2>1, SameInput DEF HashOfContext
  <2>6. SamePassword(m)' <=> SamePassword(m)
    BY <1>1 DEF SamePassword
  <2>7. Comparable(m, c)'
    BY <1>1, <2>1, <2>3, <2>4, <2>5, <2>6 DEF Comparable, HashOfContext
  <2> QED BY <1>1, <2>7 DEF Verified
<1>3. ~ hashReturns /\ [Next]_vars
  BY <1>1 DEF hashReturns, Next
<1>4. \A m \in made' : m.str = call'.str => \E c : MadeOf(m, c)' /\ Verified(m, c)'
  BY <1>1, <1>2, <1>3, StillVerified
<1> QED BY <1>1, <1>4 DEF VerifyPath

\* Two tags are equal if what was hashed is.
LEMMA VerifyComparesTags ==
    ASSUME IInv, VerifyPath, verifyCompares
    PROVE  VerifyPath'
<1>1. /\ pc = "returned" /\ pc' = "fail" /\ call.fn = "verify" /\ call' = call /\ type' = type
      /\ ret' = compared(call.expected)
  BY DEF verifyCompares, Failed, ctxVars
<1>2. ASSUME NEW m, NEW c, MadeOf(m, c), Verified(m, c) PROVE Verified(m, c)'
  <2>1. /\ type' = type
        /\ SamePassword(m)' <=> SamePassword(m)
        /\ Readable' <=> Readable
    BY <1>1 DEF SamePassword, Readable
  <2>2. ret \in OutOfResources \/ (ret = "OK" /\ Comparable(m, c))
    BY <1>1, <1>2 DEF Verified
  <2>3. CASE ret \in OutOfResources
    <3>1. ret' = ret /\ ret # "OK"
      BY <1>1, <2>3 DEF compared, OutOfResources
    <3> QED BY <1>1, <2>3, <3>1 DEF Verified
  <2>4. CASE ret = "OK" /\ Comparable(m, c)
    <3>1. PICK k \in DOMAIN hashed :
             hashed[k] = initial_hash(c, m.type) /\ c.out = [i \in 1..c.outlen |-> k]
      BY <1>2 DEF MadeOf, TagOf
    <3>2. c.outlen \in Nat /\ c.outlen >= 1
      <4>1. c.outlen \in Nat /\ ~ (c.outlen < MinOutlen)
        BY <1>2, ValidateInputs, LenProperties DEF MadeOf, Valid, ValidOutput, IsHash, IsBytes
      <4> QED BY <4>1 DEF MinOutlen
    <3>3. /\ type = m.type /\ call.expected = c.out /\ ctx.outlen = c.outlen
          /\ ctx.out = [i \in 1..c.outlen |-> prehash] /\ prehash \in DOMAIN hashed
          /\ hashed[prehash] = initial_hash(c, m.type) <=> SamePassword(m)
      BY <2>4 DEF Comparable, Tag
    <3>4. argon2_compare(call.expected, ctx.out, ctx.outlen) = 0 <=> k = prehash
      <4> DEFINE x == call.expected
                 y == ctx.out
                 n == ctx.outlen
      <4>1. n \in Nat /\ n >= 1
        BY <3>2, <3>3
      <4>2. IsRepeated(x, k, n)
        BY <3>1, <3>3 DEF IsRepeated
      <4>3. IsRepeated(y, prehash, n)
        BY <3>3 DEF IsRepeated
      <4> HIDE DEF n, x, y
      <4>4. argon2_compare(x, y, n) = 0 <=> k = prehash
        BY <4>1, <4>2, <4>3, CompareTags
      <4> QED BY <4>4 DEF n, x, y
    <3>5. k = prehash <=> hashed[prehash] = initial_hash(c, m.type)
      BY <3>1, <3>3 DEF IInv, HashedOnce
    <3>6. ret' = IF SamePassword(m) THEN "OK" ELSE "VERIFY_MISMATCH"
      BY <1>1, <2>4, <3>3, <3>4, <3>5 DEF compared
    <3> QED BY <1>1, <2>1, <3>3, <3>6 DEF Verified, OutOfResources
  <2> QED BY <2>2, <2>3, <2>4
<1>3. ~ hashReturns /\ [Next]_vars
  BY <1>1 DEF hashReturns, Next
<1>4. \A m \in made' : m.str = call'.str => \E c : MadeOf(m, c)' /\ Verified(m, c)'
  BY <1>1, <1>2, <1>3, StillVerified
<1> QED BY <1>1, <1>4 DEF VerifyPath

\* A call begins; it is refused at once only for what it was given.
LEMMA VerifyBegins ==
    ASSUME IInv, MadeInv, callVerify
    PROVE  VerifyPath'
<1>1. PICK p \in Passwords, t \in Types \cup {"other"} :
        /\ Begin([fn |-> "verify", str |-> encoded, pwd |-> p.pwd, pwdlen |-> p.pwdlen,
                  expected |-> <<>>],
                 FirstError(<< <<p.pwdlen > UINT32_MAX, "PWD_TOO_LONG">>,
                               <<encoded = NULL \/ Len(encoded) > UINT32_MAX,
                                 "DECODING_FAIL">> >>), "verify")
        /\ type' = t
        /\ UNCHANGED <<ctx, prehash, hashed, userVars>>
  BY DEF callVerify
<1> DEFINE long   == p.pwdlen > UINT32_MAX
           unread == encoded = NULL \/ Len(encoded) > UINT32_MAX
           code   == FirstError(<< <<long, "PWD_TOO_LONG">>, <<unread, "DECODING_FAIL">> >>)
<1>2. /\ call' = [fn |-> "verify", str |-> encoded, pwd |-> p.pwd, pwdlen |-> p.pwdlen,
                  expected |-> <<>>]
      /\ pc' = (IF code = "OK" THEN "verify" ELSE "idle")
      /\ ret' = (IF code = "OK" THEN "none" ELSE code)
      /\ encoded' = encoded /\ made' = made /\ hashed' = hashed
  BY <1>1 DEF Begin, userVars
<1>3. code = "OK" <=> ~ long /\ ~ unread
  <2> HIDE DEF long, unread
  <2> QED BY TwoChecks, FirstErrorFacts DEF Passed, Refuses
<1> HIDE DEF code
<1>4. p.pwdlen \in Nat /\ UINT32_MAX \in Nat
  BY CallAssumption, SizesAreNumbers
<1>5. ASSUME NEW m, NEW c, MadeOf(m, c), m.str = encoded PROVE Verified(m, c)'
  <2>1. Len(encoded) \in Nat
    BY <1>5, TextWritten DEF MadeOf
  <2>2. ~ (m.pwdlen > UINT32_MAX)
    BY <1>5, ValidateInputs DEF MadeOf, Valid, ValidBuffer
  <2>3. SamePassword(m)' /\ Readable' => ~ long /\ ~ unread
    BY <1>2, <1>4, <2>1, <2>2 DEF SamePassword, Readable
  <2>4. CASE code = "OK"
    BY <1>2, <2>4 DEF Verified
  <2>5. CASE code # "OK"
    <3>1. pc' = "idle" /\ ret' # "OK"
      BY <1>2, <2>5
    <3>2. ~ (SamePassword(m)' /\ Readable')
      BY <1>3, <2>3, <2>5
    <3> QED BY <3>1, <3>2 DEF Verified
  <2> QED BY <2>4, <2>5
<1>6. \A m \in made' : m.str = call'.str => \E c : MadeOf(m, c)' /\ Verified(m, c)'
  <2> SUFFICES ASSUME NEW m \in made, m.str = encoded
               PROVE  \E c : MadeOf(m, c)' /\ Verified(m, c)'
    BY <1>2
  <2>1. PICK c : MadeOf(m, c)
    BY DEF MadeInv
  <2>2. MadeOf(m, c)'
    BY <1>2, <2>1, MadeStays
  <2>3. Verified(m, c)'
    BY <1>5, <2>1
  <2> QED BY <2>2, <2>3
<1>7. ASSUME pc' = "verify" PROVE Readable' /\ call'.pwdlen \in 0..UINT32_MAX
  <2>1. ~ long /\ ~ unread
    BY <1>2, <1>3, <1>7
  <2> QED BY <1>2, <1>4, <2>1 DEF Readable
<1> QED BY <1>2, <1>6, <1>7 DEF VerifyPath

\* Both buffers are as long as the string, or there is no memory.
LEMMA VerifyAllocates ==
    ASSUME IInv, VerifyPath, verifyAllocates
    PROVE  VerifyPath'
<1>1. /\ pc = "verify" /\ call.fn = "verify" /\ call' = call /\ type' = type
      /\ encoded' = encoded
      /\ pc' = "decode" \/ (pc' = "fail" /\ ret' = "MEMORY_ALLOCATION_ERROR")
      /\ ctx' = VerifyContext(encoded, call)
  BY DEF verifyAllocates, Failed, userVars, IInv, ControlInv
<1>2. /\ DOMAIN call = {"fn", "str", "pwd", "pwdlen", "expected"}
      /\ call.str = encoded /\ Readable /\ call.pwdlen \in 0..UINT32_MAX
  BY <1>1 DEF VerifyPath
<1>3. Word(call.pwdlen) = call.pwdlen
  BY <1>2, CastsKeep
<1>4. /\ DOMAIN ctx' = ContextFields /\ ctx'.pwd = call.pwd /\ ctx'.pwdlen = call.pwdlen
      /\ ctx'.saltlen = Word(Len(encoded)) /\ ctx'.outlen = Word(Len(encoded))
  BY <1>1, <1>3 DEF VerifyContext, ContextFields
<1>5. ASSUME NEW m, NEW c, MadeOf(m, c), Verified(m, c) PROVE Verified(m, c)'
  BY <1>1 DEF Verified, OutOfResources
<1>6. ~ hashReturns /\ [Next]_vars
  BY <1>1 DEF hashReturns, Next
<1>7. \A m \in made' : m.str = call'.str => \E c : MadeOf(m, c)' /\ Verified(m, c)'
  BY <1>1, <1>5, <1>6, StillVerified
<1>8. Readable'
  BY <1>1, <1>2 DEF Readable
<1> QED BY <1>1, <1>2, <1>4, <1>7, <1>8 DEF VerifyPath

\* A string that was made is read as the hash it was made of, with the password
\* that was given, or it is read as one of another type and refused.
LEMMA VerifyDecodes ==
    ASSUME IInv, VerifyPath, verifyDecodes
    PROVE  VerifyPath'
<1> DEFINE d == decode_string(ctx, encoded, type)
           b == ctx
<1>1. pc = "decode" /\ call.fn = "verify"
  BY DEF verifyDecodes, IInv, ControlInv
<1>2. /\ DOMAIN call = {"fn", "str", "pwd", "pwdlen", "expected"}
      /\ call.str = encoded /\ Readable /\ call.pwdlen \in 0..UINT32_MAX
      /\ DOMAIN b = ContextFields /\ b.pwd = call.pwd /\ b.pwdlen = call.pwdlen
      /\ b.saltlen = Word(Len(encoded)) /\ b.outlen = Word(Len(encoded))
  BY <1>1 DEF VerifyPath
<1>3. /\ type' = type
      /\ \/ d.ret # "OK" /\ pc' = "fail" /\ ret' = d.ret /\ call' = call
         \/ /\ d.ret = "OK" /\ pc' = "validate" /\ ctx' = d.ctx
            /\ call' = [call EXCEPT !.expected = d.ctx.out]
         \/ /\ d.ret = "OK" /\ pc' = "fail" /\ ret' = "MEMORY_ALLOCATION_ERROR" /\ call' = call
  BY DEF verifyDecodes, Failed
<1>4. d = decode_string(b, encoded, type)
  OBVIOUS
<1> HIDE DEF d, b
<1>5. /\ call'.str = call.str /\ call'.pwd = call.pwd /\ call'.pwdlen = call.pwdlen
      /\ call'.fn = "verify" /\ DOMAIN call' = DOMAIN call
      /\ pc' = "validate" => call'.expected = d.ctx.out
  BY <1>1, <1>2, <1>3
<1>6. ASSUME NEW m, NEW c, MadeOf(m, c), m.str = call.str, Verified(m, c)
      PROVE  Verified(m, c)'
  <2>1. /\ IsHash(c) /\ validate_inputs(c) = "OK" /\ m.type \in Types
        /\ encoded = Text(c, m.type) /\ c.pwd = m.pwd /\ c.pwdlen = m.pwdlen
    BY <1>2, <1>6 DEF MadeOf
  <2>2. Len(encoded) \in 0..UINT32_MAX
    <3>1. Len(encoded) \in Nat
      BY <2>1, TextWritten
    <3> QED BY <1>2, <3>1, SizesAreNumbers DEF Readable
  <2>3. /\ b.saltlen \in Nat /\ b.outlen \in Nat
        /\ c.saltlen <= b.saltlen /\ c.outlen <= b.outlen
    <3>1. Word(Len(encoded)) = Len(encoded)
      BY <2>2, CastsKeep
    <3>2. c.saltlen <= Len(encoded) /\ c.outlen <= Len(encoded)
      BY <2>1, FieldsFit
    <3> QED BY <1>2, <2>2, <3>1, <3>2
  <2>4. SamePassword(m) => ValidBuffer(b.pwd, b.pwdlen, 0)
    <3>1. ~ (c.pwd = NULL /\ c.pwdlen # 0) /\ ~ (c.pwdlen < 0) /\ ~ (c.pwdlen > UINT32_MAX)
      BY <2>1, ValidateInputs DEF Valid, ValidBuffer
    <3>2. ASSUME SamePassword(m), b.pwd = NULL PROVE b.pwdlen = 0
      BY <1>2, <2>1, <3>1, <3>2 DEF SamePassword, Bytes
    <3>3. ASSUME SamePassword(m) PROVE b.pwdlen = c.pwdlen
      BY <1>2, <2>1, <3>3 DEF SamePassword
    <3> QED BY <3>1, <3>2, <3>3 DEF ValidBuffer
  <2>5. /\ SamePassword(m)' <=> SamePassword(m)
        /\ Readable' <=> Readable
    BY <1>5 DEF SamePassword, Readable
  <2>6. CASE type = m.type
    <3>1. type \in Types
      BY <2>1, <2>6
    <3>2. IF ValidBuffer(b.pwd, b.pwdlen, 0)
          THEN d.ret = "OK" /\ DecodedAs(d.ctx, c, b)
          ELSE d.ret # "OK"
      BY <1>2, <1>4, <2>1, <2>3, <2>6, <3>1, DecodeEncoded
    <3>3. CASE d.ret # "OK"
      <4>1. ~ SamePassword(m) /\ pc' = "fail" /\ ret' # "OK"
        BY <1>3, <2>4, <3>2, <3>3
      <4> QED BY <2>5, <4>1 DEF Verified
    <3>4. CASE d.ret = "OK" /\ pc' = "validate"
      <4>1. ctx' = d.ctx /\ DecodedAs(d.ctx, c, b) /\ call'.expected = d.ctx.out
        BY <1>3, <1>5, <3>2, <3>4
      <4>2. DecodedAs(d.ctx, c, call') /\ d.ctx.out = c.out
        BY <1>2, <1>5, <4>1 DEF DecodedAs
      <4>3. type' = m.type /\ DecodedAs(ctx', c, call') /\ call'.expected = c.out
        BY <1>3, <2>6, <4>1, <4>2
      <4> QED BY <3>4, <4>3 DEF Verified
    <3>5. CASE d.ret = "OK" /\ pc' = "fail"
      <4>1. ret' \in OutOfResources /\ ret' # "OK"
        BY <1>3, <3>5 DEF OutOfResources
      <4> QED BY <3>5, <4>1 DEF Verified
    <3> QED BY <1>3, <3>3, <3>4, <3>5
  <2>7. CASE type # m.type
    <3>1. d.ret # "OK"
      <4>1. CASE type \in Types
        BY <1>2, <1>4, <2>1, <2>3, <2>7, <4>1, DecodeEncoded
      <4>2. CASE type \notin Types
        BY <1>4, <4>2 DEF decode_string
      <4> QED BY <4>1, <4>2
    <3>2. pc' = "fail" /\ ret' # "OK" /\ type' # m.type
      BY <1>3, <2>7, <3>1
    <3> QED BY <3>2 DEF Verified
  <2> QED BY <2>6, <2>7
<1>7. ~ hashReturns /\ [Next]_vars
  BY <1>1 DEF hashReturns, Next
<1>8. \A m \in made' : m.str = call'.str => \E c : MadeOf(m, c)' /\ Verified(m, c)'
  BY <1>1, <1>5, <1>6, <1>7, StillVerified
<1>9. pc' \in {"validate", "fail"}
  BY <1>3
<1> QED BY <1>2, <1>5, <1>8, <1>9 DEF VerifyPath

\* What is returned, after everything is freed.
LEMMA VerifyReturns ==
    ASSUME IInv, VerifyPath, call.fn = "verify", verifyReturns \/ alter \/ UNCHANGED vars
    PROVE  VerifyPath'
<1>1. /\ call' = call /\ type' = type /\ ret' = ret /\ ctx' = ctx /\ prehash' = prehash
      /\ hashed' = hashed
      /\ pc' = pc \/ (pc = "fail" /\ pc' = "idle")
      /\ pc' = "idle" \/ encoded' = encoded
  BY DEF verifyReturns, alter, Return, vars, ctxVars, userVars, heapVars
<1>2. ASSUME NEW m, NEW c, MadeOf(m, c), Verified(m, c) PROVE Verified(m, c)'
  <2>1. /\ SamePassword(m)' <=> SamePassword(m)
        /\ Readable' <=> Readable
        /\ HashOfContext(prehash)' <=> HashOfContext(prehash)
        /\ DecodedAs(ctx', c, call') <=> DecodedAs(ctx, c, call)
    BY <1>1 DEF SamePassword, Readable, HashOfContext
  <2>2. Comparable(m, c)' <=> Comparable(m, c)
    BY <1>1, <2>1 DEF Comparable, Tag
  <2> QED BY <1>1, <1>2, <2>1, <2>2 DEF Verified
<1>3. ~ hashReturns /\ [Next]_vars
  BY DEF verifyReturns, alter, hashReturns, Next, vars
<1>4. \A m \in made' : m.str = call'.str => \E c : MadeOf(m, c)' /\ Verified(m, c)'
  BY <1>1, <1>2, <1>3, StillVerified
<1>5. Readable' <=> Readable
  BY <1>1 DEF Readable
<1> QED BY <1>1, <1>4, <1>5 DEF VerifyPath

\* argon2_hash is called with its own arguments.
LEMMA HashIsNoVerify == callHash => call'.fn = "hash"
<1> SUFFICES ASSUME callHash PROVE call'.fn = "hash"
  OBVIOUS
<1>1. PICK a \in HashCalls : \E b \in {a, hash_raw(a), hash_encoded(a)} :
         Begin(b, hashLengths(b), "hash")
  BY DEF callHash
<1> PICK b \in {a, hash_raw(a), hash_encoded(a)} : Begin(b, hashLengths(b), "hash")
  BY <1>1
<1>2. call' = b
  BY DEF Begin
<1>3. DOMAIN a = CallFields /\ a.fn = "hash"
  BY CallAssumption
<1>4. b.fn = "hash"
  <2>1. CASE b = a
    BY <1>3, <2>1
  <2>2. CASE b = hash_raw(a)
    BY <1>3, <2>2 DEF hash_raw, CallFields
  <2>3. CASE b = hash_encoded(a)
    BY <1>3, <2>3 DEF hash_encoded, CallFields
  <2> QED BY <2>1, <2>2, <2>3
<1> QED BY <1>2, <1>4

LEMMA VerifyPathKeeps ==
    ASSUME IInv, VerifyPath, MadeInv, [Next]_vars
    PROVE  VerifyPath'
<1>1. ASSUME call'.fn # "verify" PROVE VerifyPath'
  BY <1>1 DEF VerifyPath
<1>2. CASE call.fn = "verify" /\ (validate \/ initialize \/ initializeFails \/ fill \/ finalize)
  BY <1>2, VerifyValidates, VerifyInitializes, VerifyFills, VerifyFinalizes
<1>3. CASE call.fn # "verify" /\ (validate \/ initialize \/ initializeFails \/ fill \/ finalize)
  <2>1. call' = call
    BY <1>3 DEF validate, initialize, initializeFails, fill, finalize
  <2> QED BY <1>1, <1>3, <2>1
<1>4. CASE callCtx \/ callCtxAgain
  <2>1. call'.fn = "ctx"
    BY <1>4 DEF callCtx, callCtxAgain, Begin, IInv, ControlInv
  <2> QED BY <1>1, <2>1
<1>5. CASE callHash
  BY <1>1, <1>5, HashIsNoVerify
<1>6. CASE ctxReturns \/ hashAllocates \/ hashOutOfMemory \/ hashReturns
  <2>1. call' = call /\ call.fn # "verify"
    BY <1>6 DEF ctxReturns, hashAllocates, hashOutOfMemory, hashReturns, IInv, ControlInv
  <2> QED BY <1>1, <2>1
<1>7. CASE callVerify
  BY <1>7, VerifyBegins
<1>8. CASE verifyAllocates \/ verifyDecodes \/ verifyCompares
  BY <1>8, VerifyAllocates, VerifyDecodes, VerifyComparesTags
<1>9. CASE call.fn = "verify" /\ (verifyReturns \/ alter \/ UNCHANGED vars)
  BY <1>9, VerifyReturns
<1>10. CASE call.fn # "verify" /\ (verifyReturns \/ alter \/ UNCHANGED vars)
  <2>1. call' = call
    BY <1>10 DEF verifyReturns, alter, vars
  <2> QED BY <1>1, <1>10, <2>1
<1> QED BY <1>2, <1>3, <1>4, <1>5, <1>6, <1>7, <1>8, <1>9, <1>10 DEF Next, done

LEMMA PathsInitial == Init => PathsInv
<1> SUFFICES ASSUME Init PROVE PathsInv
  OBVIOUS
<1>1. pc = "idle" /\ call.fn = "none" /\ hashed = <<>> /\ calls = 0 /\ made = {}
  BY DEF Init, NoCall
<1>2. CountInv
  <2>1. MaxCalls \in 0..255
    BY CallAssumption
  <2>2. Len(hashed) = 0
    BY <1>1
  <2> QED BY <1>1, <2>1, <2>2 DEF CountInv
<1> QED BY <1>1, <1>2 DEF PathsInv, HashPath, MadeInv, VerifyPath

LEMMA PathsInvariant == Spec => []PathsInv
<1>1. IInv /\ PathsInv /\ [Next]_vars => PathsInv'
  <2> SUFFICES ASSUME IInv, PathsInv, [Next]_vars PROVE PathsInv'
    OBVIOUS
  <2>1. HashPath /\ CountInv /\ MadeInv /\ VerifyPath
    BY DEF PathsInv
  <2>2. HashPath'
    BY <2>1, HashPathKeeps
  <2>3. CountInv'
    BY <2>1, CountKeeps
  <2>4. MadeInv'
    BY <2>1, MadeKeeps
  <2>5. VerifyPath'
    BY <2>1, VerifyPathKeeps
  <2> QED BY <2>2, <2>3, <2>4, <2>5 DEF PathsInv
<1> QED BY Invariant, PathsInitial, <1>1, PTL DEF Spec

-----------------------------------------------------------------------------

\* What argon2_hash gives in hash; no error of argon2_ctx is one of the encoding.
GivenInv ==
    call.fn = "hash" =>
        /\ pc = "returned" => ret # "ENCODING_FAIL"
        /\ pc = "idle" =>
              hash = IF call.raw /\ ret \in {"OK", "ENCODING_FAIL"}
                     THEN [i \in 1..call.hashlen |-> prehash] ELSE NULL

\* The tag that argon2_ctx has written is as long as was asked for.
LEMMA TagWritten ==
    ASSUME HashPath, call.fn = "hash", pc = "returned", ret = "OK"
    PROVE  ctx.out = [i \in 1..call.hashlen |-> prehash]
<1> DEFINE c == HashContext(call)
<1>1. Arguments(call) /\ ctx = [c EXCEPT !.out = Tag]
  BY DEF HashPath
<1>2. DOMAIN c = ContextFields /\ c.outlen = call.hashlen
  BY <1>1, HashContextFacts
<1> HIDE DEF c
<1>3. ctx.out = Tag /\ ctx.outlen = call.hashlen
  BY <1>1, <1>2 DEF ContextFields
<1> QED BY <1>3 DEF Tag

LEMMA GivenWhenHashReturns ==
    ASSUME IInv, HashPath, GivenInv, hashReturns
    PROVE  GivenInv'
<1>1. /\ call.fn = "hash" /\ pc = "returned" /\ pc' = "idle"
      /\ call' = call /\ prehash' = prehash
      /\ hash' = IF ret = "OK" /\ call.raw THEN ctx.out ELSE hash
      /\ ret' \in {ret, "ENCODING_FAIL"} /\ (ret # "OK" => ret' = ret)
  BY DEF hashReturns, Return, ctxVars
<1>2. hash = NULL /\ ret # "ENCODING_FAIL"
  BY <1>1 DEF IInv, ResultsInv, GivenInv
<1>3. CASE ret = "OK"
  <2>1. ctx.out = [i \in 1..call.hashlen |-> prehash]
    BY <1>1, <1>3, TagWritten
  <2>2. ret' \in {"OK", "ENCODING_FAIL"}
    BY <1>1, <1>3
  <2> QED BY <1>1, <1>2, <1>3, <2>1, <2>2 DEF GivenInv
<1>4. CASE ret # "OK"
  <2>1. ret' \notin {"OK", "ENCODING_FAIL"} /\ hash' = NULL
    BY <1>1, <1>2, <1>4
  <2> QED BY <1>1, <2>1 DEF GivenInv
<1> QED BY <1>3, <1>4

LEMMA GivenKeeps ==
    ASSUME IInv, HashPath, GivenInv, [Next]_vars
    PROVE  GivenInv'
<1>1. ASSUME call'.fn # "hash" PROVE GivenInv'
  BY <1>1 DEF GivenInv
<1>2. ASSUME pc' # "idle", pc' = "returned" => ret' # "ENCODING_FAIL" PROVE GivenInv'
  BY <1>2 DEF GivenInv
<1>3. CASE validate
  BY <1>2, <1>3, ValidateInputs DEF validate, CtxReturn
<1>4. CASE initialize \/ initializeFails \/ fill \/ finalize
  BY <1>2, <1>4 DEF initialize, initializeFails, fill, finalize, CtxReturn
<1>5. CASE callCtx \/ callCtxAgain \/ callVerify
  <2>1. callCtx \/ callCtxAgain => call'.fn = "ctx"
    BY DEF callCtx, callCtxAgain, Begin, IInv, ControlInv
  <2>2. callVerify => call'.fn = "verify"
    BY DEF callVerify, Begin
  <2> QED BY <1>1, <1>5, <2>1, <2>2
<1>6. CASE callHash
  <2>1. PICK b : Begin(b, hashLengths(b), "hash") /\ hash' = NULL
    BY <1>6 DEF callHash
  <2>2. hashLengths(b) # "ENCODING_FAIL"
    BY LengthsChecked
  <2>3. pc' = "hash" \/ (pc' = "idle" /\ ret' \notin {"OK", "ENCODING_FAIL"})
    BY <2>1, <2>2 DEF Begin
  <2> QED BY <2>1, <2>3 DEF GivenInv
<1>7. CASE hashAllocates \/ verifyAllocates \/ verifyDecodes \/ verifyCompares
  BY <1>2, <1>7 DEF hashAllocates, verifyAllocates, verifyDecodes, verifyCompares, Failed
<1>8. CASE hashOutOfMemory
  <2>1. /\ call.fn = "hash" /\ hash' = hash /\ hash = NULL /\ pc' = "idle"
        /\ ret' = "MEMORY_ALLOCATION_ERROR"
    BY <1>8 DEF hashOutOfMemory, Return, userVars, IInv, ControlInv, ResultsInv
  <2> QED BY <2>1 DEF GivenInv
<1>9. CASE hashReturns
  BY <1>9, GivenWhenHashReturns
<1>10. CASE ctxReturns \/ verifyReturns
  <2>1. call' = call /\ call.fn # "hash"
    BY <1>10 DEF ctxReturns, verifyReturns, IInv, ControlInv
  <2> QED BY <1>1, <2>1
<1>11. CASE alter \/ UNCHANGED vars
  <2>1. UNCHANGED <<pc, call, ret, prehash, hash>>
    BY <1>11 DEF alter, vars, ctxVars, userVars
  <2> QED BY <2>1 DEF GivenInv
<1> QED BY <1>3, <1>4, <1>5, <1>6, <1>7, <1>8, <1>9, <1>10, <1>11 DEF Next, done

\* argon2_hash wipes its copy of the tag on every way out, and leaves no part of
\* a string when it fails.  The caller's hash holds the tag if one was asked for
\* and made: after success, and also when the encoding then failed.
THEOREM ATagIsLeftOnlyWhereAsked == Spec => []HashLeavesTagOnlyWhereAsked
<1>1. IInv /\ GivenInv => HashLeavesTagOnlyWhereAsked
  BY DEF IInv, ResultsInv, EncodedInv, GivenInv, HashLeavesTagOnlyWhereAsked, Returned
<1>2. Init => GivenInv
  BY DEF Init, NoCall, GivenInv
<1>3. PathsInv => HashPath
  BY DEF PathsInv
<1>4. IInv /\ HashPath /\ GivenInv /\ [Next]_vars => GivenInv'
  BY GivenKeeps
<1> QED BY Invariant, PathsInvariant, <1>1, <1>2, <1>3, <1>4, PTL DEF Spec

\* argon2_verify accepts the string that argon2_hash made, with the type and the
\* password it was made of, whatever was called before, and fails only if
\* memory or threads run out or the string is longer than it takes.
THEOREM MadeIsAccepted == Spec => []VerifyAcceptsMade
<1>1. PathsInv => VerifyAcceptsMade
  <2> SUFFICES ASSUME PathsInv, Returned("verify"), Matches, call.str # NULL,
                      Len(call.str) <= UINT32_MAX
               PROVE  ret \in {"OK"} \cup OutOfResources
    BY DEF VerifyAcceptsMade
  <2>1. PICK m \in made : m.str = call.str /\ m.type = type /\ SamePassword(m)
    BY DEF Matches, SamePassword
  <2>2. PICK c : MadeOf(m, c) /\ Verified(m, c)
    BY <2>1 DEF PathsInv, VerifyPath, Returned
  <2>3. Len(call.str) \in Nat
    BY <2>1, <2>2, TextWritten DEF MadeOf
  <2>4. Readable
    BY <2>3, SizesAreNumbers DEF Readable
  <2> QED BY <2>1, <2>2, <2>4 DEF Verified, Returned
<1> QED BY PathsInvariant, <1>1, PTL

\* A string that argon2_hash made is accepted for nothing else: if argon2_verify
\* takes it, it was made of this password and is of this type.
THEOREM AcceptedForItsPassword ==
    Spec => [](Returned("verify") /\ ret = "OK" /\ (\E m \in made : m.str = call.str) => Matches)
<1> DEFINE P == Returned("verify") /\ ret = "OK" /\ (\E m \in made : m.str = call.str) => Matches
<1>1. PathsInv => P
  <2> SUFFICES ASSUME PathsInv, Returned("verify"), ret = "OK",
                      NEW m \in made, m.str = call.str
               PROVE  Matches
    OBVIOUS
  <2>1. PICK c : MadeOf(m, c) /\ Verified(m, c)
    BY DEF PathsInv, VerifyPath, Returned
  <2>2. type = m.type /\ SamePassword(m)
    BY <2>1 DEF Verified, Returned
  <2> QED BY <2>2 DEF Matches, SamePassword
<1> QED BY PathsInvariant, <1>1, PTL

-----------------------------------------------------------------------------
(* Strings that were altered.                                               *)

Chars == Alphabet \cup Altered

Near(str, strings) == \E m \in strings : OneChange(m.str, str)

\* The caller's string, if there is one, is one that was made, with as many
\* characters changed as there is damage.
StringInv ==
    /\ damage \in Nat
    /\ encoded # NULL => encoded \in Seq(Chars)
    /\ encoded \notin {NULL, <<>>} =>
          /\ damage = 0 => \E m \in made : m.str = encoded
          /\ damage = 1 => Near(encoded, made)

NearInv ==
    call.fn = "verify" /\ damage <= 1 => call.str \in {NULL, <<>>} \/ Near(call.str, made)

\* The context c is what argon2_verify reads from its string.
ReadHash(c) ==
    /\ IsHash(c) /\ type \in Types /\ DecodedAs(c, c, call) /\ call.str # NULL
    /\ IsTextOf(call.str, c, type)

HashOf(c) == prehash \in DOMAIN hashed /\ hashed[prehash] = initial_hash(c, type)

\* Where argon2_verify is with its string, whatever that is: what was read is
\* hashed, and accepted if what was read as its tag is the tag of it.
Compares(c) == ReadHash(c) /\ HashOf(c) /\ call.expected = c.out /\ ctx.outlen = c.outlen

Accepts(c) == ReadHash(c) /\ HashOf(c) /\ c.out = [i \in 1..c.outlen |-> prehash]

ReadInv ==
    call.fn = "verify" =>
        /\ pc \in {"validate", "initialize", "fill", "finalize"} =>
              ReadHash(ctx) /\ call.expected = ctx.out
        /\ pc \in {"fill", "finalize"} => HashOf(ctx)
        /\ pc = "returned" /\ ret = "OK" => ctx.out = Tag /\ \E c : Compares(c)
        /\ pc \in {"fail", "idle"} /\ ret = "OK" => \E c : Accepts(c)

\* A string of characters differs from itself in no place.
LEMMA NoChange ==
    ASSUME NEW S, NEW s \in Seq(S), s # <<>>
    PROVE  OneChange(s, s)
<1>1. Len(s) \in Nat /\ DOMAIN s = 1..Len(s) /\ Len(s) # 0
  BY LenProperties, EmptySeq
<1>2. 1 \in 1..Len(s)
  BY <1>1
<1> QED BY <1>1, <1>2 DEF OneChange

\* Who changes the string.
LEMMA StringStays ==
    ASSUME [Next]_vars
    PROVE  \/ callHash \/ hashReturns \/ alter
           \/ encoded' = encoded /\ damage' = damage /\ made' = made
<1>1. CASE validate \/ initialize \/ initializeFails \/ fill \/ finalize \/ ctxReturns
  BY <1>1 DEF validate, initialize, initializeFails, fill, finalize, ctxReturns, userVars
<1>2. CASE callCtx \/ callCtxAgain \/ callVerify \/ hashAllocates \/ hashOutOfMemory
  BY <1>2 DEF callCtx, callCtxAgain, callVerify, hashAllocates, hashOutOfMemory, userVars
<1>3. CASE verifyAllocates \/ verifyDecodes \/ verifyCompares \/ verifyReturns
  BY <1>3 DEF verifyAllocates, verifyDecodes, verifyCompares, verifyReturns, userVars
<1>4. CASE UNCHANGED vars
  BY <1>4 DEF vars, userVars
<1> QED BY <1>1, <1>2, <1>3, <1>4 DEF Next, done

\* argon2_hash makes a string or clears the buffer.
LEMMA HashMakesString ==
    ASSUME IInv, HashPath, CountInv, hashReturns
    PROVE  /\ damage' = damage /\ made \subseteq made'
           /\ \/ encoded' = encoded
              \/ encoded' = <<>>
              \/ encoded' \in Seq(Alphabet) /\ \E m \in made' : m.str = encoded'
<1> DEFINE e == encode_string(call.encodedlen, ctx, type)
           rec == [str |-> e.dst, type |-> type, pwd |-> call.pwd, pwdlen |-> call.pwdlen]
<1>1. /\ call.fn = "hash" /\ pc = "returned" /\ damage' = damage
      /\ encoded' = IF ret = "OK" /\ call.encodedlen > 0 THEN kept(e) ELSE encoded
      /\ made' = IF (ret = "OK" /\ call.encodedlen > 0) /\ e.ret = "OK"
                 THEN made \cup {rec} ELSE made
  BY DEF hashReturns
<1>2. rec.str = e.dst
  OBVIOUS
<1>3. e = encode_string(call.encodedlen, ctx, type)
  OBVIOUS
<1> HIDE DEF e, rec
<1>4. made \subseteq made'
  BY <1>1
<1>5. CASE ~ (ret = "OK" /\ call.encodedlen > 0)
  BY <1>1, <1>4, <1>5
<1>6. CASE (ret = "OK" /\ call.encodedlen > 0) /\ e.ret # "OK"
  BY <1>1, <1>4, <1>6 DEF kept
<1>7. CASE (ret = "OK" /\ call.encodedlen > 0) /\ e.ret = "OK"
  <2>1. IsHash(ctx) /\ type \in Types /\ call.encodedlen \in Nat
    BY <1>1, <1>7, HashIsMade
  <2>2. e.dst \in Seq(Alphabet)
    BY <1>3, <2>1, EncodeString
  <2>3. encoded' = e.dst /\ rec \in made'
    BY <1>1, <1>7 DEF kept
  <2>4. \E m \in made' : m.str = encoded'
    BY <1>2, <2>3
  <2> QED BY <1>1, <1>4, <2>2, <2>3, <2>4
<1> QED BY <1>5, <1>6, <1>7

LEMMA StringInvKeeps ==
    ASSUME IInv, HashPath, CountInv, StringInv, [Next]_vars
    PROVE  StringInv'
<1>1. CASE callHash
  <2>1. encoded' = NULL /\ damage' = 0
    BY <1>1 DEF callHash
  <2> QED BY <2>1 DEF StringInv
<1>2. CASE hashReturns
  <2>1. damage' = damage /\ made \subseteq made'
    BY <1>2, HashMakesString
  <2>2. CASE encoded' = encoded
    BY <2>1, <2>2 DEF StringInv, Near
  <2>3. CASE encoded' = <<>>
    <3>1. <<>> \in Seq(Chars)
      OBVIOUS
    <3> QED BY <2>1, <2>3, <3>1 DEF StringInv
  <2>4. CASE encoded' \in Seq(Alphabet) /\ \E m \in made' : m.str = encoded'
    <3>1. encoded' \in Seq(Chars)
      <4>1. Alphabet \subseteq Chars
        BY DEF Chars
      <4> QED BY <2>4, <4>1, SeqMonotonic
    <3>2. encoded' # <<>> => OneChange(encoded', encoded')
      BY <2>4, NoChange
    <3> QED BY <2>1, <2>4, <3>1, <3>2 DEF StringInv, Near
  <2> QED BY <1>2, <2>2, <2>3, <2>4, HashMakesString
<1>3. CASE alter
  <2>1. PICK i \in DOMAIN encoded, a \in Altered : encoded' = ReplaceAt(encoded, i, a)
    BY <1>3 DEF alter
  <2>2. encoded # NULL /\ damage' = damage + 1 /\ made' = made
    BY <1>3 DEF alter
  <2>3. encoded \in Seq(Chars) /\ damage \in Nat
    BY <2>2 DEF StringInv
  <2>4. a \in Chars
    BY DEF Chars
  <2>5. encoded' \in Seq(Chars) /\ OneChange(encoded, encoded')
    BY <2>1, <2>3, <2>4, OneCharAltered
  <2>6. encoded # <<>>
    OBVIOUS
  <2>7. damage' = 1 => damage = 0 /\ \E m \in made : m.str = encoded
    BY <2>2, <2>3, <2>6 DEF StringInv
  <2>8. damage' = 1 => Near(encoded', made')
    BY <2>2, <2>5, <2>7 DEF Near
  <2>9. damage' \in Nat /\ damage' # 0
    BY <2>2, <2>3
  <2> QED BY <2>5, <2>8, <2>9 DEF StringInv, Near
<1>4. CASE encoded' = encoded /\ damage' = damage /\ made' = made
  BY <1>4 DEF StringInv, Near
<1> QED BY <1>1, <1>2, <1>3, <1>4, StringStays

\* What argon2_verify was given.
LEMMA NearInvKeeps ==
    ASSUME IInv, HashPath, CountInv, StringInv, VerifyPath, NearInv, [Next]_vars
    PROVE  NearInv'
<1> SUFFICES ASSUME call'.fn = "verify", damage' <= 1
             PROVE  call'.str \in {NULL, <<>>} \/ Near(call'.str, made')
  BY DEF NearInv
<1>1. CASE callVerify
  <2>1. PICK p \in Passwords, t \in Types \cup {"other"} :
          call' = [fn |-> "verify", str |-> encoded, pwd |-> p.pwd, pwdlen |-> p.pwdlen,
                   expected |-> <<>>]
    BY <1>1 DEF callVerify, Begin
  <2>2. damage' = damage /\ made' = made
    BY <1>1 DEF callVerify, userVars
  <2>3. call'.str = encoded
    BY <2>1
  <2>4. damage = 0 \/ damage = 1
    BY <2>2 DEF StringInv
  <2>5. ASSUME encoded \notin {NULL, <<>>} PROVE Near(encoded, made)
    <3>1. encoded \in Seq(Chars) /\ OneChange(encoded, encoded)
      BY <2>5, NoChange DEF StringInv
    <3> QED BY <2>4, <2>5, <3>1 DEF StringInv, Near
  <2> QED BY <2>2, <2>3, <2>5 DEF Near
<1>2. CASE call.fn = "verify" /\ call'.str = call.str /\ made' = made /\ damage <= 1
  BY <1>2 DEF NearInv, Near
<1>3. ~ hashReturns /\ ~ callHash
  <2>1. ~ hashReturns
    BY DEF hashReturns
  <2>2. ~ callHash
    BY HashIsNoVerify
  <2> QED BY <2>1, <2>2
<1>4. made' = made /\ damage <= 1
  <2>1. CASE alter
    <3>1. damage' = damage + 1 /\ made' = made
      BY <2>1 DEF alter
    <3> QED BY <3>1 DEF StringInv
  <2>2. CASE damage' = damage /\ made' = made
    BY <2>2
  <2> QED BY <1>3, <2>1, <2>2, StringStays
<1>5. ASSUME ~ callVerify PROVE call.fn = "verify" /\ call'.str = call.str
  <2>1. CASE validate \/ initialize \/ initializeFails \/ fill \/ finalize \/ ctxReturns
    BY <2>1 DEF validate, initialize, initializeFails, fill, finalize, ctxReturns
  <2>2. CASE callCtx \/ callCtxAgain
    <3>1. call'.fn = "ctx"
      BY <2>2 DEF callCtx, callCtxAgain, Begin, IInv, ControlInv
    <3> QED BY <3>1
  <2>3. CASE hashAllocates \/ hashOutOfMemory \/ verifyAllocates \/ verifyCompares \/ verifyReturns
             \/ alter \/ UNCHANGED vars
    BY <2>3 DEF hashAllocates, hashOutOfMemory, verifyAllocates, verifyCompares, verifyReturns,
                alter, vars
  <2>4. CASE verifyDecodes
    <3>1. pc = "decode" /\ call.fn = "verify"
      BY <2>4 DEF verifyDecodes, IInv, ControlInv
    <3>2. DOMAIN call = {"fn", "str", "pwd", "pwdlen", "expected"}
      BY <3>1 DEF VerifyPath
    <3>3. call' = call \/ \E x : call' = [call EXCEPT !.expected = x]
      BY <2>4 DEF verifyDecodes
    <3> QED BY <3>1, <3>2, <3>3
  <2> QED BY <1>3, <1>5, <2>1, <2>2, <2>3, <2>4 DEF Next, done
<1> QED BY <1>1, <1>2, <1>4, <1>5

-----------------------------------------------------------------------------
\* What was read depends on the call and its type only.
LEMMA ReadStays ==
    ASSUME type' = type, call'.str = call.str, call'.pwd = call.pwd,
           call'.pwdlen = call.pwdlen
    PROVE  \A c : ReadHash(c) => ReadHash(c)'
BY DEF ReadHash, DecodedAs

\* argon2_ctx hashes what was read.
LEMMA ReadIsHashed ==
    ASSUME IInv, ReadInv, call.fn = "verify", validate \/ initialize
    PROVE  ReadInv'
<1>1. /\ call' = call /\ type' = type /\ pc \in {"validate", "initialize"}
      /\ ReadHash(ctx) /\ call.expected = ctx.out
  BY DEF validate, initialize, ctxVars, ReadInv
<1>2. validate_inputs(ctx) = "OK" /\ ctx.flags = {}
  BY <1>1 DEF ReadHash, DecodedAs
<1>3. ctx' = ctx
  <2>1. CASE validate
    BY <2>1 DEF validate, ctxVars
  <2>2. CASE initialize
    BY <1>2, <2>2, NothingCleared DEF initialize
  <2> QED BY <2>1, <2>2
<1>4. ReadHash(ctx') /\ call'.expected = ctx'.out
  BY <1>1, <1>3
<1>5. ReadHash(ctx)'
  <2>1. \A c : ReadHash(c) => ReadHash(c)'
    BY <1>1, ReadStays
  <2> QED BY <1>1, <1>3 DEF ReadHash, DecodedAs
<1>6. CASE validate
  <2>1. pc' = "initialize"
    BY <1>1, <1>2, <1>6 DEF validate, ReadHash
  <2> QED BY <1>4, <1>5, <2>1 DEF ReadInv
<1>7. CASE initialize
  <2>1. prehash' \in DOMAIN hashed' /\ hashed'[prehash'] = initial_hash(ctx, type)
    BY <1>7, HashFacts DEF IInv
  <2>2. HashOf(ctx)'
    BY <1>1, <1>3, <2>1 DEF HashOf
  <2>3. pc' = "fill"
    BY <1>7 DEF initialize
  <2> QED BY <1>4, <1>5, <2>2, <2>3 DEF ReadInv
<1> QED BY <1>6, <1>7

LEMMA ReadIsFilled ==
    ASSUME IInv, ReadInv, call.fn = "verify", initializeFails \/ fill
    PROVE  ReadInv'
<1>1. /\ call' = call /\ type' = type /\ pc \in {"initialize", "fill"} /\ ctx' = ctx
      /\ prehash' = prehash /\ hashed' = hashed
      /\ (pc = "fill" /\ pc' = "finalize") \/ (pc' = "returned" /\ ret' # "OK")
  BY DEF initializeFails, fill, CtxReturn, ctxVars
<1>2. ReadHash(ctx)' /\ call'.expected = ctx'.out
  BY <1>1 DEF ReadInv, ReadHash, DecodedAs
<1>3. pc = "fill" => HashOf(ctx)'
  BY <1>1 DEF ReadInv, HashOf
<1> QED BY <1>1, <1>2, <1>3 DEF ReadInv

LEMMA ReadIsFinal ==
    ASSUME IInv, ReadInv, call.fn = "verify", finalize
    PROVE  ReadInv'
<1>1. /\ pc = "finalize" /\ pc' = "returned" /\ call' = call /\ type' = type
      /\ ctx' = [ctx EXCEPT !.out = Tag] /\ prehash' = prehash /\ hashed' = hashed
  BY DEF finalize, CtxReturn
<1>2. ReadHash(ctx) /\ call.expected = ctx.out /\ HashOf(ctx)
  BY <1>1 DEF ReadInv
<1>3. DOMAIN ctx = ContextFields
  BY <1>2 DEF ReadHash, IsHash
<1>4. ctx'.outlen = ctx.outlen /\ ctx'.out = Tag
  BY <1>1, <1>3 DEF ContextFields
<1>5. Tag' = Tag
  BY <1>1, <1>4 DEF Tag
<1>6. \A c : ReadHash(c) => ReadHash(c)'
  BY <1>1, ReadStays
<1>7. \E c : Compares(c)'
  <2>1. PICK c : c = ctx
    OBVIOUS
  <2>2. ReadHash(c)'
    BY <1>2, <1>6, <2>1
  <2>3. HashOf(c)'
    BY <1>1, <1>2, <2>1 DEF HashOf
  <2>4. call'.expected = c.out /\ ctx'.outlen = c.outlen
    BY <1>1, <1>2, <1>4, <2>1
  <2>5. Compares(c)'
    BY <2>2, <2>3, <2>4 DEF Compares
  <2> QED BY <2>5
<1> QED BY <1>1, <1>4, <1>5, <1>7 DEF ReadInv

\* The tag that was read is accepted if it is the tag of what was read.
LEMMA ReadIsCompared ==
    ASSUME IInv, ReadInv, verifyCompares
    PROVE  ReadInv'
<1>1. /\ pc = "returned" /\ pc' = "fail" /\ call.fn = "verify" /\ call' = call /\ type' = type
      /\ ret' = compared(call.expected) /\ prehash' = prehash /\ hashed' = hashed
  BY DEF verifyCompares, Failed, ctxVars
<1> SUFFICES ASSUME ret' = "OK" PROVE \E c : Accepts(c)'
  BY <1>1 DEF ReadInv
<1>2. ret = "OK" /\ argon2_compare(call.expected, ctx.out, ctx.outlen) = 0
  BY <1>1 DEF compared
<1>3. PICK c : Compares(c)
  BY <1>1, <1>2 DEF ReadInv
<1>4. ctx.out = Tag
  BY <1>1, <1>2 DEF ReadInv
<1>5. \A c1 : ReadHash(c1) => ReadHash(c1)'
  BY <1>1, ReadStays
<1> DEFINE n == c.outlen
<1>6. n \in Nat /\ DOMAIN c.out = 1..n /\ c.out \in Seq(Int)
  BY <1>3, LenProperties DEF Compares, ReadHash, IsHash, IsBytes
<1>7. c.out = [i \in 1..n |-> prehash]
  <2>1. \A i \in 1..n : c.out[i] = Tag[i]
    BY <1>2, <1>3, <1>4 DEF argon2_compare, Compares
  <2>2. \A i \in 1..n : Tag[i] = prehash
    BY <1>3 DEF Tag, Compares
  <2>3. c.out = [i \in 1..n |-> c.out[i]]
    BY SMTT(30), <1>6
  <2> QED BY <2>1, <2>2, <2>3
<1>8. Accepts(c)'
  BY <1>1, <1>3, <1>5, <1>7 DEF Compares, Accepts, HashOf
<1> QED BY <1>8

\* A string is read as what it is the text of.
LEMMA ReadIsDecoded ==
    ASSUME IInv, VerifyPath, StringInv, verifyDecodes
    PROVE  ReadInv'
<1> DEFINE d == decode_string(ctx, encoded, type)
           b == ctx
<1>1. pc = "decode" /\ call.fn = "verify"
  BY DEF verifyDecodes, IInv, ControlInv
<1>2. /\ DOMAIN call = {"fn", "str", "pwd", "pwdlen", "expected"}
      /\ call.str = encoded /\ Readable
      /\ DOMAIN b = ContextFields /\ b.pwd = call.pwd /\ b.pwdlen = call.pwdlen
      /\ b.saltlen = Word(Len(encoded)) /\ b.outlen = Word(Len(encoded))
  BY <1>1 DEF VerifyPath
<1>3. /\ type' = type
      /\ \/ d.ret # "OK" /\ pc' = "fail" /\ ret' = d.ret /\ call' = call
         \/ /\ d.ret = "OK" /\ pc' = "validate" /\ ctx' = d.ctx
            /\ call' = [call EXCEPT !.expected = d.ctx.out]
         \/ /\ d.ret = "OK" /\ pc' = "fail" /\ ret' = "MEMORY_ALLOCATION_ERROR" /\ call' = call
  BY DEF verifyDecodes, Failed
<1>4. d = decode_string(b, encoded, type)
  OBVIOUS
<1> HIDE DEF d, b
<1>5. CASE pc' = "fail" /\ ret' # "OK"
  BY <1>5 DEF ReadInv
<1>6. CASE d.ret = "OK" /\ pc' = "validate"
  <2>1. encoded \in Seq(Chars) /\ Alphabet \subseteq Chars
    BY <1>2 DEF StringInv, Chars, Readable
  <2>2. b.saltlen \in Nat /\ b.outlen \in Nat
    <3>1. Len(encoded) \in Nat
      BY <2>1, LenProperties
    <3>2. Len(encoded) \in 0..UINT32_MAX
      BY <1>2, <3>1, SizesAreNumbers DEF Readable
    <3> QED BY <1>2, <3>1, <3>2, CastsKeep
  <2>3. /\ type \in Types /\ IsHash(d.ctx) /\ DecodedAs(d.ctx, d.ctx, b)
        /\ encoded = Text(d.ctx, type) \/ encoded = UnversionedText(d.ctx, type)
    BY <1>2, <1>4, <1>6, <2>1, <2>2, DecodedIsEncoded
  <2>4. /\ ctx' = d.ctx /\ call'.str = call.str /\ call'.pwd = call.pwd
        /\ call'.pwdlen = call.pwdlen /\ call'.expected = d.ctx.out
    BY <1>2, <1>3, <1>6
  <2>5. DecodedAs(ctx', ctx', call')
    BY <1>2, <2>3, <2>4 DEF DecodedAs
  <2>6. call'.str # NULL /\ IsTextOf(call'.str, ctx', type')
    BY <1>2, <1>3, <2>3, <2>4 DEF Readable, IsTextOf
  <2>7. ReadHash(ctx)'
    BY <1>3, <2>3, <2>4, <2>5, <2>6 DEF ReadHash
  <2> QED BY <1>6, <2>4, <2>7 DEF ReadInv
<1> QED BY <1>3, <1>5, <1>6

LEMMA ReadInvKeeps ==
    ASSUME IInv, VerifyPath, StringInv, ReadInv, [Next]_vars
    PROVE  ReadInv'
<1> SUFFICES ASSUME call'.fn = "verify" PROVE ReadInv'
  BY DEF ReadInv
<1>1. CASE validate \/ initialize \/ initializeFails \/ fill \/ finalize
  <2>1. call' = call
    BY <1>1 DEF validate, initialize, initializeFails, fill, finalize
  <2> QED BY <1>1, <2>1, ReadIsHashed, ReadIsFilled, ReadIsFinal
<1>2. CASE callCtx \/ callCtxAgain
  <2>1. call'.fn = "ctx"
    BY <1>2 DEF callCtx, callCtxAgain, Begin, IInv, ControlInv
  <2> QED BY <2>1
<1>3. CASE callHash
  BY <1>3, HashIsNoVerify
<1>4. CASE ctxReturns \/ hashAllocates \/ hashOutOfMemory \/ hashReturns
  <2>1. call' = call /\ call.fn # "verify"
    BY <1>4 DEF ctxReturns, hashAllocates, hashOutOfMemory, hashReturns, IInv, ControlInv
  <2> QED BY <2>1
<1>5. CASE callVerify
  <2>1. /\ pc' = "verify" \/ (pc' = "idle" /\ ret' # "OK")
    BY <1>5 DEF callVerify, Begin
  <2> QED BY <2>1 DEF ReadInv
<1>6. CASE verifyAllocates
  <2>1. pc' = "decode" \/ (pc' = "fail" /\ ret' # "OK")
    BY <1>6 DEF verifyAllocates, Failed
  <2> QED BY <2>1 DEF ReadInv
<1>7. CASE verifyDecodes \/ verifyCompares
  BY <1>7, ReadIsDecoded, ReadIsCompared
<1>8. CASE verifyReturns \/ alter \/ UNCHANGED vars
  <2>1. /\ call' = call /\ type' = type /\ ret' = ret /\ ctx' = ctx /\ prehash' = prehash
        /\ hashed' = hashed
        /\ pc' = pc \/ (pc = "fail" /\ pc' = "idle")
    BY <1>8 DEF verifyReturns, alter, Return, vars, ctxVars
  <2>2. call.fn = "verify"
    BY <2>1
  <2>3. \A c : ReadHash(c) => ReadHash(c)'
    BY <2>1, ReadStays
  <2>4. \A c : Accepts(c) => Accepts(c)'
    BY <2>1, <2>3 DEF Accepts, HashOf
  <2>5. \A c : Compares(c) => Compares(c)'
    BY <2>1, <2>3 DEF Compares, HashOf
  <2>6. Tag' = Tag
    BY <2>1 DEF Tag
  <2>7. CASE pc' = pc
    <3>1. ReadHash(ctx) => ReadHash(ctx)'
      BY <2>1 DEF ReadHash, DecodedAs
    <3>2. HashOf(ctx) => HashOf(ctx)'
      BY <2>1 DEF HashOf
    <3> QED BY <2>1, <2>2, <2>4, <2>5, <2>6, <2>7, <3>1, <3>2 DEF ReadInv
  <2>8. CASE pc = "fail" /\ pc' = "idle"
    BY <2>1, <2>2, <2>4, <2>8 DEF ReadInv
  <2> QED BY <2>1, <2>7, <2>8
<1> QED BY <1>1, <1>2, <1>3, <1>4, <1>5, <1>6, <1>7, <1>8 DEF Next, done

-----------------------------------------------------------------------------

AlteredInv == StringInv /\ NearInv /\ ReadInv

LEMMA AlteredInvariant == Spec => []AlteredInv
<1>1. Init => AlteredInv
  BY DEF Init, NoCall, AlteredInv, StringInv, NearInv, ReadInv
<1>2. IInv /\ PathsInv /\ AlteredInv /\ [Next]_vars => AlteredInv'
  BY StringInvKeeps, NearInvKeeps, ReadInvKeeps DEF PathsInv, AlteredInv
<1> QED BY Invariant, PathsInvariant, <1>1, <1>2, PTL DEF Spec

\* The same hash of what was read and of what a string was made of.
LEMMA SameInputs ==
    ASSUME NEW c, IsHash(c), validate_inputs(c) = "OK", NEW t,
           NEW x, IsHash(x), validate_inputs(x) = "OK", NEW r,
           initial_hash(c, t) = initial_hash(x, r)
    PROVE  /\ c.lanes = x.lanes /\ c.outlen = x.outlen /\ c.m_cost = x.m_cost
           /\ c.t_cost = x.t_cost /\ c.version = x.version /\ t = r
           /\ c.pwdlen = x.pwdlen /\ Bytes(c.pwd, c.pwdlen) = Bytes(x.pwd, x.pwdlen)
           /\ c.salt = x.salt
<1> DEFINE h == initial_hash(c, t)
           g == initial_hash(x, r)
           a == Bytes(c.salt, c.saltlen)
           b == Bytes(x.salt, x.saltlen)
<1>1. /\ h[1] = c.lanes /\ h[2] = c.outlen /\ h[3] = c.m_cost /\ h[4] = c.t_cost
      /\ h[5] = c.version /\ h[6] = t /\ h[7] = c.pwdlen /\ h[8] = Bytes(c.pwd, c.pwdlen)
      /\ h[10] = a
  BY DEF initial_hash
<1>2. /\ g[1] = x.lanes /\ g[2] = x.outlen /\ g[3] = x.m_cost /\ g[4] = x.t_cost
      /\ g[5] = x.version /\ g[6] = r /\ g[7] = x.pwdlen /\ g[8] = Bytes(x.pwd, x.pwdlen)
      /\ g[10] = b
  BY DEF initial_hash
<1>3. h = g
  OBVIOUS
<1>4. ASSUME NEW y, IsHash(y), validate_inputs(y) = "OK" PROVE y.salt # NULL /\ y.saltlen # 0
  <2>1. ~ (y.salt = NULL /\ y.saltlen # 0) /\ ~ (y.saltlen < MinSaltLength)
    BY <1>4, ValidateInputs DEF Valid, ValidBuffer
  <2>2. y.saltlen \in Nat
    BY <1>4, SizesAreNumbers DEF IsHash
  <2> QED BY <2>1, <2>2 DEF MinSaltLength
<1>5. a = <<[ptr |-> c.salt, len |-> c.saltlen]>> /\ b = <<[ptr |-> x.salt, len |-> x.saltlen]>>
  BY <1>4 DEF Bytes
<1> HIDE DEF h, g, a, b
<1>6. a = b
  BY <1>1, <1>2, <1>3
<1>7. c.salt = x.salt
  <2>1. a[1] = [ptr |-> c.salt, len |-> c.saltlen] /\ b[1] = [ptr |-> x.salt, len |-> x.saltlen]
    BY <1>5
  <2> QED BY <1>6, <2>1
<1> QED BY <1>1, <1>2, <1>3, <1>7

\* Only the string that argon2_hash made is accepted, for the password it was
\* made of and with its type; not one with a character changed anywhere in it.
THEOREM OnlyMadeIsAccepted == Spec => []VerifyAcceptsOnlyMade
<1>1. IInv /\ PathsInv /\ AlteredInv => VerifyAcceptsOnlyMade
  <2> SUFFICES ASSUME IInv, PathsInv, AlteredInv, Returned("verify"), ret = "OK", damage <= 1
               PROVE  Matches
    BY DEF VerifyAcceptsOnlyMade
  <2>1. PICK x : Accepts(x)
    BY DEF Returned, AlteredInv, ReadInv
  <2> DEFINE str == call.str
  <2>2. /\ IsHash(x) /\ type \in Types /\ validate_inputs(x) = "OK" /\ str # NULL
        /\ x.pwd = call.pwd /\ x.pwdlen = call.pwdlen
        /\ IsTextOf(str, x, type)
        /\ prehash \in DOMAIN hashed /\ hashed[prehash] = initial_hash(x, type)
        /\ x.out = [i \in 1..x.outlen |-> prehash]
    BY <2>1 DEF Accepts, ReadHash, HashOf, DecodedAs, str
  <2>3. str # <<>>
    <3>1. Ended(str, to_base64(x.out))
      BY <2>2, TextEnded DEF IsTextOf
    <3>2. Len(<<>>) = 0
      OBVIOUS
    <3> QED BY <3>1, <3>2 DEF Ended, Fields
  <2>4. PICK m \in made : OneChange(m.str, str)
    BY <2>2, <2>3 DEF AlteredInv, NearInv, Near, Returned
  <2>5. PICK c : MadeOf(m, c)
    BY <2>4 DEF PathsInv, MadeInv
  <2>6. /\ IsHash(c) /\ validate_inputs(c) = "OK" /\ m.type \in Types /\ m.str = Text(c, m.type)
        /\ m.pwd = c.pwd /\ m.pwdlen = c.pwdlen
    BY <2>5 DEF MadeOf
  <2>7. PICK k \in DOMAIN hashed :
          hashed[k] = initial_hash(c, m.type) /\ c.out = [i \in 1..c.outlen |-> k]
    BY <2>5 DEF MadeOf, TagOf
  <2> DEFINE p == prehash
  <2>8. ASSUME NEW y, IsHash(y), validate_inputs(y) = "OK", NEW j, y.out = [i \in 1..y.outlen |-> j]
        PROVE  y.outlen >= 3 /\ j \in 0..255
    <3>1. y.outlen \in Nat /\ ~ (y.outlen < MinOutlen) /\ IsBytes(y.out) /\ Len(y.out) = y.outlen
      BY <2>8, ValidateInputs, LenProperties DEF Valid, ValidOutput, IsHash, IsBytes
    <3>2. y.outlen >= 4 /\ 1 \in 1..y.outlen
      BY <3>1 DEF MinOutlen
    <3>3. y.out[1] = j /\ IsByte(y.out[1])
      BY <2>8, <3>1, <3>2 DEF IsBytes
    <3>4. j \in Nat /\ j < 256
      BY <3>3 DEF IsByte
    <3> QED BY <3>1, <3>2, <3>4
  <2>9. c.outlen >= 3 /\ k \in 0..255 /\ x.outlen >= 3 /\ p \in 0..255
    BY ZenonT(30), <2>2, <2>6, <2>7, <2>8
  <2> HIDE DEF str, p
  <2>10. k = p
    <3>1. OneChange(Text(c, m.type), str)
      BY <2>4, <2>6
    <3>2. Repeats(c, k) /\ Repeats(x, p)
      BY <2>2, <2>7, <2>9 DEF Repeats, p
    <3>3. /\ IsHash(c) /\ m.type \in Types /\ IsHash(x) /\ type \in Types
          /\ IsTextOf(str, x, type)
      BY <2>2, <2>6
    <3> QED BY <3>1, <3>2, <3>3, OneChangeKeepsTag
  <2>11. initial_hash(c, m.type) = initial_hash(x, type)
    BY <2>2, <2>7, <2>10 DEF p
  <2>12. /\ c.lanes = x.lanes /\ c.outlen = x.outlen /\ c.m_cost = x.m_cost
         /\ c.t_cost = x.t_cost /\ c.version = x.version /\ m.type = type
         /\ c.pwdlen = x.pwdlen /\ Bytes(c.pwd, c.pwdlen) = Bytes(x.pwd, x.pwdlen)
         /\ c.salt = x.salt
    BY <2>2, <2>6, <2>11, SameInputs
  <2>13. SameInText(c, x)
    <3>1. c.out = x.out
      BY <2>2, <2>7, <2>10, <2>12 DEF p
    <3> QED BY <2>12, <3>1 DEF SameInText
  <2>14. str = Text(c, type)
    BY <2>2, <2>4, <2>6, <2>12, <2>13, SameText
  <2>15. m.str = call.str /\ m.pwdlen = call.pwdlen
         /\ Bytes(m.pwd, m.pwdlen) = Bytes(call.pwd, call.pwdlen)
    BY <2>2, <2>6, <2>12, <2>14 DEF str
  <2> QED BY <2>12, <2>15 DEF Matches
<1> QED BY Invariant, PathsInvariant, AlteredInvariant, <1>1, PTL
=============================================================================
