------------------------------ MODULE Argon2Api ------------------------------
(***************************************************************************)
(* The calls of the library from outside: argon2_hash and its wrappers,     *)
(* argon2_verify and argon2_ctx on a context of the caller, one after the   *)
(* other.  Every allocation may fail and filling may fail; how the matrix   *)
(* is filled is in Argon2.  The memory a call allocates is followed object  *)
(* by object.  Hashing is ideal: different inputs have different tags.      *)
(***************************************************************************)
EXTENDS Encoding

CONSTANTS HashCalls,       \* the arguments of argon2_hash
          UserContexts,    \* contexts given to argon2_ctx and argon2_verify_ctx
          Tags,            \* tags argon2_verify_ctx compares with
          Passwords,       \* passwords given to argon2_verify
          Altered,         \* characters of altered strings
          MaxCalls, MaxDamage

Objects == {"out", "salt", "new_out", "matrix"}

CallFields == {"fn", "pwd", "pwdlen", "salt", "saltlen", "hashlen", "t_cost", "m_cost",
               "lanes", "raw", "encodedlen", "type", "version"}

\* The C types of the arguments: lengths are size_t, costs and lanes uint32_t,
\* a salt that may be hashed is the bytes there are, an allocator is given or
\* not.  NULL is no object.  Bound: there are no more calls than a byte counts,
\* so that the place of an input among those hashed is a byte of a tag.
ASSUME CallAssumption ==
    /\ \A a \in HashCalls :
          /\ DOMAIN a = CallFields /\ a.fn = "hash"
          /\ {a.pwdlen, a.saltlen, a.hashlen, a.encodedlen} \subseteq Nat
          /\ {a.t_cost, a.m_cost, a.lanes, a.version} \subseteq 0..UINT32_MAX
          /\ a.salt # NULL /\ a.saltlen \in MinSaltLength..UINT32_MAX =>
                a.salt \in Seq(0..255) /\ a.saltlen = Len(a.salt)
    /\ \A p \in Passwords : p.pwdlen \in Nat
    /\ \A c \in UserContexts :
          /\ DOMAIN c = ContextFields
          /\ {c.m_cost, c.lanes} \subseteq 0..UINT32_MAX
          /\ {c.allocate_cbk, c.free_cbk} \subseteq BOOLEAN
    /\ NULL \notin Objects /\ MaxCalls \in 0..255

VARIABLES
    pc,         \* where the running call is; "idle" between calls
    call,       \* the running call, or the last one, with its arguments
    ret,        \* what it returned
    ctx,        \* its argon2_context
    type,       \* and type
    heap,       \* its objects: "none", "malloc", "cbk", "freed" or "misfreed"
    tagged,     \* objects that hold what was made from the password
    out,        \* the object ctx.out points to
    desired,    \* the object desired_result points to
    prehash,    \* the last initial hash
    hash,       \* the caller's buffer for the tag
    encoded,    \* the caller's string
    hashed,     \* every input that was hashed, in order: the ideal hash
    made,       \* strings that argon2_hash made, and of what
    calls, damage

heapVars  == <<heap, tagged, out, desired>>
userVars  == <<hash, encoded, made, damage>>
ctxVars   == <<ctx, type, prehash, hashed>>
vars == <<pc, call, ret, ctxVars, heapVars, userVars, calls>>

NoCall == [fn |-> "none"]
NoContext == [out |-> NULL]

Return(code) == pc' = "idle" /\ ret' = code

Init ==
    /\ pc = "idle" /\ call = NoCall /\ ret = "OK" /\ ctx = NoContext /\ type = "id"
    /\ heap = [o \in Objects |-> "none"] /\ tagged = {}
    /\ out = NULL /\ desired = NULL /\ prehash = 0 /\ hashed = <<>>
    /\ hash = NULL /\ encoded = NULL /\ made = {} /\ calls = 0 /\ damage = 0

\* free: NULL is ignored, an object that is not malloc's is undefined.
Free(h, o) ==
    IF o = NULL THEN h ELSE [h EXCEPT ![o] = IF @ = "malloc" THEN "freed" ELSE "misfreed"]

-----------------------------------------------------------------------------
(* argon2_ctx. *)

\* argon2_ctx returns to the function that called it.
CtxReturn(code) == pc' = "returned" /\ ret' = code

validate ==
    /\ pc = "validate"
    /\ IF validate_inputs(ctx) # "OK" THEN CtxReturn(validate_inputs(ctx))
       ELSE IF type \notin Types THEN CtxReturn("INCORRECT_TYPE")
       ELSE pc' = "initialize" /\ UNCHANGED ret
    /\ UNCHANGED <<call, ctxVars, heapVars, userVars, calls>>

\* The matrix is allocated, the inputs are hashed (and wiped, if asked) and
\* the first blocks are made of the hash.
initialize ==
    /\ pc = "initialize" /\ ~ overflows(memory_blocks(ctx))
    /\ heap' = [heap EXCEPT !["matrix"] = IF ctx.allocate_cbk THEN "cbk" ELSE "malloc"]
    /\ tagged' = tagged \cup {"matrix"}
    /\ LET h == initial_hash(ctx, type)
           known == {i \in DOMAIN hashed : hashed[i] = h}
       IN /\ hashed' = IF known = {} THEN Append(hashed, h) ELSE hashed
          /\ prehash' = IF known = {} THEN Len(hashed) + 1 ELSE Min(known)
    /\ ctx' = clearHashed(ctx)
    /\ pc' = "fill"
    /\ UNCHANGED <<call, ret, type, out, desired, userVars, calls>>

\* The size wraps around, or malloc or the caller's allocator has no memory.
initializeFails ==
    /\ pc = "initialize"
    /\ CtxReturn("MEMORY_ALLOCATION_ERROR")
    /\ UNCHANGED <<call, ctxVars, heapVars, userVars, calls>>

\* A single thread needs nothing that could run out.  When filling fails,
\* argon2_ctx returns without a look at the matrix.
fill ==
    /\ pc = "fill"
    /\ \/ pc' = "finalize" /\ UNCHANGED ret
       \/ /\ threads(ctx) > 1
          /\ \E code \in {"MEMORY_ALLOCATION_ERROR", "THREAD_FAIL"} : CtxReturn(code)
    /\ UNCHANGED <<call, ctxVars, heapVars, userVars, calls>>

Tag == [i \in 1..ctx.outlen |-> prehash]

free_memory ==
    [heap EXCEPT !["matrix"] =
        IF @ = (IF ctx.free_cbk THEN "cbk" ELSE "malloc") THEN "freed" ELSE "misfreed"]

finalize ==
    /\ pc = "finalize"
    /\ ctx' = [ctx EXCEPT !.out = Tag]
    /\ heap' = free_memory
    /\ tagged' = (tagged \ {"matrix"}) \cup (IF out = NULL THEN {} ELSE {out})
    /\ CtxReturn("OK")
    /\ UNCHANGED <<call, type, out, desired, prehash, hashed, userVars, calls>>

\* A new call begins, with memory of its own; at once it may return a code.
\* Bound: contexts of the caller and strings share only the ideal hash, so a
\* behaviour is about one context, tried again and again, or about strings.
Begin(c, code, next) ==
    /\ pc = "idle" /\ calls < MaxCalls
    /\ call.fn = "ctx" => c.fn = "ctx"
    /\ calls' = calls + 1 /\ call' = c
    /\ heap' = [o \in Objects |-> "none"] /\ tagged' = {} /\ out' = NULL /\ desired' = NULL
    /\ pc' = IF code = "OK" THEN next ELSE "idle"
    /\ ret' = IF code = "OK" THEN "none" ELSE code

\* Mutant of argon2_compare: it stops one byte early.
argon2_compare_short(b1, b2, len) ==
    IF \A i \in 1..(len - 1) : b1[i] = b2[i] THEN 0 ELSE -1

\* The differences of all bytes, or-ed: 0 if there are none.
argon2_compare(b1, b2, len) == IF \A i \in 1..len : b1[i] = b2[i] THEN 0 ELSE -1

\* argon2_verify_ctx: what it returns after argon2_ctx returned ret.
compared(expected) ==
    IF ret = "OK" /\ argon2_compare(expected, ctx.out, ctx.outlen) # 0
    THEN "VERIFY_MISMATCH" ELSE ret

\* argon2_ctx, argon2d_ctx, argon2i_ctx, argon2id_ctx on a context of the
\* caller, or argon2_verify_ctx and its variants with a tag expected.
callCtx ==
    /\ call = NoCall
    /\ \E c \in UserContexts, t \in Types, e \in {NULL} \cup Tags :
           /\ Begin([fn |-> "ctx", flags |-> c.flags, first |-> 0, expected |-> e],
                    "OK", "validate")
           /\ ctx' = c /\ type' = t /\ prehash' = 0
           /\ UNCHANGED <<hashed, userVars>>

\* The caller tries once more with the context as the failed call left it.
callCtxAgain ==
    /\ call.fn = "ctx" /\ ret \in {"MEMORY_ALLOCATION_ERROR", "THREAD_FAIL"}
    /\ Begin([call EXCEPT !.first = IF prehash = 0 THEN @ ELSE prehash], "OK", "validate")
    /\ prehash' = 0
    /\ UNCHANGED <<ctx, type, hashed, userVars>>

ctxReturns ==
    /\ pc = "returned" /\ call.fn = "ctx"
    /\ Return(IF call.expected = NULL THEN ret ELSE compared(call.expected))
    /\ UNCHANGED <<call, ctxVars, heapVars, userVars, calls>>

-----------------------------------------------------------------------------
(* argon2_hash. *)

\* Mutant of hashLengths: the password's length is cast without a comparison.
hashLengthsNoPassword(a) ==
    FirstError(<< <<a.saltlen > UINT32_MAX, "SALT_TOO_LONG">>,
                  <<a.hashlen > UINT32_MAX, "OUTPUT_TOO_LONG">>,
                  <<a.hashlen < MinOutlen, "OUTPUT_TOO_SHORT">> >>)

\* Lengths are size_t: what does not fit in the context's words is refused.
hashLengths(a) ==
    FirstError(<< <<a.pwdlen > UINT32_MAX, "PWD_TOO_LONG">>,
                  <<a.saltlen > UINT32_MAX, "SALT_TOO_LONG">>,
                  <<a.hashlen > UINT32_MAX, "OUTPUT_TOO_LONG">>,
                  <<a.hashlen < MinOutlen, "OUTPUT_TOO_SHORT">> >>)

\* The context argon2_hash fills in; what malloc returned is not initialized.
HashContext(a) ==
    [out |-> [i \in 1..Word(a.hashlen) |-> 0], outlen |-> Word(a.hashlen),
     pwd |-> a.pwd, pwdlen |-> Word(a.pwdlen), salt |-> a.salt, saltlen |-> Word(a.saltlen),
     secret |-> NULL, secretlen |-> 0, ad |-> NULL, adlen |-> 0,
     t_cost |-> a.t_cost, m_cost |-> a.m_cost, lanes |-> a.lanes, threads |-> a.lanes,
     allocate_cbk |-> FALSE, free_cbk |-> FALSE, flags |-> {}, version |-> a.version]

\* The wrappers want the tag, or a string; both use the current version.
hash_raw(a) == [a EXCEPT !.raw = TRUE, !.encodedlen = 0, !.version = VersionNumber]
hash_encoded(a) == [a EXCEPT !.raw = FALSE, !.version = VersionNumber]

callHash ==
    \E a \in HashCalls : \E b \in {a, hash_raw(a), hash_encoded(a)} :
        /\ Begin(b, hashLengths(b), "hash")
        /\ hash' = NULL /\ encoded' = NULL /\ damage' = 0 /\ type' = b.type
        /\ UNCHANGED <<ctx, prehash, hashed, made>>

hashAllocates ==
    /\ pc = "hash"
    /\ heap' = [heap EXCEPT !["out"] = "malloc"] /\ out' = "out"
    /\ ctx' = HashContext(call)
    /\ pc' = "validate"
    /\ UNCHANGED <<call, ret, type, prehash, hashed, tagged, desired, userVars, calls>>

hashOutOfMemory ==
    /\ pc = "hash"
    /\ Return("MEMORY_ALLOCATION_ERROR")
    /\ UNCHANGED <<call, ctxVars, heapVars, userVars, calls>>

\* Mutant of kept: what fitted in the buffer is left there.
keptPart(e) == e.dst

\* The caller's string: cleared when the encoding fails.
kept(e) == IF e.ret = "OK" THEN e.dst ELSE <<>>

\* The tag is copied and encoded, as far as asked; out is wiped and freed.
hashReturns ==
    /\ pc = "returned" /\ call.fn = "hash"
    /\ LET e == encode_string(call.encodedlen, ctx, type)
           encodes == ret = "OK" /\ call.encodedlen > 0
       IN /\ Return(IF encodes /\ e.ret # "OK" THEN "ENCODING_FAIL" ELSE ret)
          /\ hash' = IF ret = "OK" /\ call.raw THEN ctx.out ELSE hash
          /\ encoded' = IF encodes THEN kept(e) ELSE encoded
          /\ made' = IF encodes /\ e.ret = "OK"
                     THEN made \cup {[str |-> e.dst, type |-> type, pwd |-> call.pwd,
                                      pwdlen |-> call.pwdlen]}
                     ELSE made
    /\ tagged' = tagged \ {"out"} /\ heap' = Free(heap, "out")
    /\ UNCHANGED <<call, ctxVars, out, desired, damage, calls>>

-----------------------------------------------------------------------------
(* argon2_verify and argon2_verify_ctx. *)

\* Where the string is kept, a character of it is changed.
alter ==
    /\ pc = "idle" /\ encoded # NULL /\ damage < MaxDamage /\ calls < MaxCalls
    /\ \E i \in DOMAIN encoded, a \in Altered : encoded' = ReplaceAt(encoded, i, a)
    /\ damage' = damage + 1
    /\ UNCHANGED <<pc, call, ret, ctxVars, heapVars, hash, made, calls>>

callVerify ==
    \E p \in Passwords, t \in Types \cup {"other"} :
        /\ Begin([fn |-> "verify", str |-> encoded, pwd |-> p.pwd, pwdlen |-> p.pwdlen,
                  expected |-> <<>>],
                 FirstError(<< <<p.pwdlen > UINT32_MAX, "PWD_TOO_LONG">>,
                               <<encoded = NULL \/ Len(encoded) > UINT32_MAX,
                                 "DECODING_FAIL">> >>), "verify")
        /\ type' = t
        /\ UNCHANGED <<ctx, prehash, hashed, userVars>>

Failed(code) == pc' = "fail" /\ ret' = code

\* The context of argon2_verify is not initialized: what is in the fields it
\* does not set is undefined.  decode_string has to set them, and here they
\* hold what is refused, or wiped, should it forget one.
VerifyContext(str, p) ==
    [out |-> <<>>, outlen |-> Word(Len(str)), pwd |-> p.pwd, pwdlen |-> Word(p.pwdlen),
     salt |-> <<>>, saltlen |-> Word(Len(str)), secret |-> NULL, secretlen |-> 1,
     ad |-> NULL, adlen |-> 1, t_cost |-> 0, m_cost |-> 0, lanes |-> 0, threads |-> 0,
     version |-> 0, allocate_cbk |-> TRUE, free_cbk |-> FALSE,
     flags |-> {"CLEAR_PASSWORD", "CLEAR_SECRET"}]

\* No field is longer than the string: both buffers are as long as that.
verifyAllocates ==
    /\ pc = "verify"
    /\ \E salted, got \in BOOLEAN :
          /\ heap' = [heap EXCEPT !["salt"] = IF salted THEN "malloc" ELSE @,
                                  !["out"] = IF got THEN "malloc" ELSE @]
          /\ out' = IF got THEN "out" ELSE NULL
          /\ IF salted /\ got THEN pc' = "decode" /\ UNCHANGED ret
             ELSE Failed("MEMORY_ALLOCATION_ERROR")
    /\ ctx' = VerifyContext(encoded, call)
    /\ UNCHANGED <<call, type, prehash, hashed, tagged, desired, userVars, calls>>

\* The decoded tag is set aside in desired_result; ctx.out is a new buffer.
setAside(o) == desired' = "out" /\ out' = o

verifyDecodes ==
    /\ pc = "decode"
    /\ LET d == decode_string(ctx, encoded, type) IN
       IF d.ret # "OK"
       THEN Failed(d.ret) /\ ctx' = d.ctx /\ UNCHANGED <<call, heap, out, desired>>
       ELSE \/ /\ setAside("new_out")
               /\ heap' = [heap EXCEPT !["new_out"] = "malloc"]
               /\ ctx' = d.ctx /\ call' = [call EXCEPT !.expected = d.ctx.out]
               /\ pc' = "validate" /\ UNCHANGED ret
            \/ /\ setAside(NULL)
               /\ ctx' = [d.ctx EXCEPT !.out = NULL]
               /\ Failed("MEMORY_ALLOCATION_ERROR") /\ UNCHANGED <<call, heap>>
    /\ UNCHANGED <<type, prehash, hashed, tagged, userVars, calls>>

verifyCompares ==
    /\ pc = "returned" /\ call.fn = "verify"
    /\ Failed(compared(call.expected))
    /\ UNCHANGED <<call, ctxVars, heapVars, userVars, calls>>

\* What was allocated is freed, in success and failure.
verifyReturns ==
    /\ pc = "fail"
    /\ LET salt == IF heap["salt"] = "none" THEN NULL ELSE "salt"
       IN heap' = Free(Free(Free(heap, salt), out), desired)
    /\ Return(ret)
    /\ UNCHANGED <<call, ctxVars, tagged, out, desired, userVars, calls>>

-----------------------------------------------------------------------------
\* The caller may stop calling.
done == pc = "idle" /\ UNCHANGED vars

Next ==
    \/ validate \/ initialize \/ initializeFails \/ fill \/ finalize
    \/ callCtx \/ callCtxAgain \/ ctxReturns
    \/ callHash \/ hashAllocates \/ hashOutOfMemory \/ hashReturns \/ alter
    \/ callVerify \/ verifyAllocates \/ verifyDecodes \/ verifyCompares \/ verifyReturns
    \/ done

Spec == Init /\ [][Next]_vars

-----------------------------------------------------------------------------
(* Properties. *)

Returned(fn) == pc = "idle" /\ call.fn = fn

OutOfResources == {"MEMORY_ALLOCATION_ERROR", "THREAD_FAIL"}

\* The string given was made by argon2_hash of this password and type.
Matches ==
    \E m \in made : /\ m.str = call.str /\ m.type = type
                    /\ m.pwdlen = call.pwdlen
                    /\ Bytes(m.pwd, m.pwdlen) = Bytes(call.pwd, call.pwdlen)

\* argon2.h:331, "Verifies a password against an encoded string": a string that
\* argon2_hash made is accepted with its password, unless resources run out or
\* it is too long for argon2_verify.
VerifyAcceptsMade ==
    Returned("verify") /\ Matches /\ call.str # NULL /\ Len(call.str) <= UINT32_MAX =>
        ret \in {"OK"} \cup OutOfResources

\* No other password, type or string, altered in one place, is accepted.  (In
\* more places, a string could become the string of another tag.)
VerifyAcceptsOnlyMade == Returned("verify") /\ ret = "OK" /\ damage <= 1 => Matches

\* The lengths that argon2_hash casts to a word keep their value: a long
\* password is refused, never hashed in part.
WholeInputHashed ==
    Returned("hash") /\ ret = "OK" =>
        LET h == hashed[prehash] IN
        h[2] = call.hashlen /\ h[7] = call.pwdlen /\ h[9] = call.saltlen

\* Whatever fails, every object is freed once and by its own allocator.  (Not
\* so the matrix when filling fails: see InternalMemoryWiped in Argon2.)
HeapBalanced ==
    \A o \in Objects :
        /\ heap[o] # "misfreed"
        /\ pc = "idle" /\ heap[o] \in {"malloc", "cbk"} => o = "matrix" /\ ret \in OutOfResources

\* argon2.c:167, "wipe buffers if error": out is wiped on every way out of
\* argon2_hash, and a call that fails leaves no part of a string in encoded.
\* It may leave the tag in hash: where both were asked for, the tag is copied
\* before the encoding can fail, and hash is not among the buffers wiped then.
\* So hash holds the tag after success and after ENCODING_FAIL, if it was
\* asked for, and nothing after any other failure.
HashLeavesTagOnlyWhereAsked ==
    Returned("hash") =>
        /\ "out" \notin tagged
        /\ ret # "OK" => encoded \in {NULL, <<>>}
        /\ hash = IF call.raw /\ ret \in {"OK", "ENCODING_FAIL"}
                  THEN [i \in 1..call.hashlen |-> prehash] ELSE NULL

\* argon2.h:64, "Max memory size is addressing-space/2": behind the checks no
\* product wraps around, the segments have two blocks and no more memory is
\* used than asked for.
AcceptedMatrixFits ==
    pc \in {"initialize", "fill", "finalize"} =>
        LET blocks == segment_length(ctx) * ctx.lanes * SyncPoints IN
        /\ segment_length(ctx) >= 2
        /\ blocks = memory_blocks(ctx) /\ blocks <= ctx.m_cost
        /\ 2 * (blocks * BlockSize) <= PointerSize

\* A context without flags may be used again: a second attempt after a failure
\* hashes what the first one hashed.
SecondAttemptHashesTheSame ==
    call.fn = "ctx" =>
        (call.flags = {} /\ call.first # 0 /\ prehash # 0 => prehash = call.first)
=============================================================================
