---------------------------- MODULE Argon2Context ----------------------------
(***************************************************************************)
(* argon2_context and what the library checks and derives from it before    *)
(* it fills the matrix: validate_inputs, the size of the matrix,            *)
(* allocate_memory and initial_hash.  Operators only; the calls that use    *)
(* them are in Encoding and Argon2Api.  Words are scaled down: there are    *)
(* WordSize values of a uint32_t, PointerSize of a size_t or a pointer and  *)
(* LongSize of an unsigned long, and a block of the matrix has BlockSize    *)
(* bytes.                                                                   *)
(***************************************************************************)
EXTENDS Integers, Sequences, SequencesExt

CONSTANTS WordSize, PointerSize, LongSize, BlockSize,
          MaxLanes,       \* ARGON2_MAX_LANES and ARGON2_MAX_THREADS, 0xFFFFFF
          NULL

\* 2^32 > 8 * 0xFFFFFF, a pointer is at least a word, version 0x13 is one, and
\* the least memory for a lane takes up less than half of the addresses.
ASSUME WordAssumption ==
    /\ WordSize \in Nat /\ PointerSize \in Nat /\ LongSize \in Nat
    /\ BlockSize \in Nat \ {0}
    /\ WordSize >= 32 /\ PointerSize >= WordSize /\ LongSize >= WordSize
    /\ PointerSize >= 16 * BlockSize
    /\ MaxLanes \in Nat \ {0} /\ 8 * MaxLanes < WordSize

ContextFields == {"out", "outlen", "pwd", "pwdlen", "salt", "saltlen", "secret", "secretlen",
                  "ad", "adlen", "t_cost", "m_cost", "lanes", "threads", "version",
                  "allocate_cbk", "free_cbk", "flags"}

UINT32_MAX == WordSize - 1
ULONG_MAX  == LongSize - 1

(* argon2.h: the limits. *)
SyncPoints    == 4
MinOutlen     == 4
MinSaltLength == 8
MinMemory     == 2 * SyncPoints

Least(a, b) == IF a < b THEN a ELSE b

\* The blocks in half of the addresses.
MaxMemory == Least(UINT32_MAX, Least(WordSize, PointerSize \div (2 * BlockSize)))

Types == {"d", "i", "id"}
Version10 == 16
VersionNumber == 19

\* A cast to uint32_t, and what its arithmetic leaves of a product.
Word(n) == n % WordSize

\* The first condition that holds names the error.
FirstError(checks) ==
    LET failed == {i \in DOMAIN checks : checks[i][1]}
    IN IF failed = {} THEN "OK" ELSE checks[Min(failed)][2]

\* A pointer with its length: it may be NULL only if the length is 0.
Buffer(ptr, len, min, mismatch, short, long) ==
    << <<ptr = NULL /\ len # 0, mismatch>>, <<len < min, short>>,
       <<len > UINT32_MAX, long>> >>

\* Mutant of memoryForLanes: there is no upper limit for the lanes.
memoryForLanesUnbounded(c) ==
    << <<c.m_cost < Word(8 * c.lanes), "MEMORY_TOO_LITTLE">>,
       <<c.t_cost < 1, "TIME_TOO_SMALL">>, <<c.t_cost > UINT32_MAX, "TIME_TOO_LARGE">>,
       <<c.lanes < 1, "LANES_TOO_FEW">> >>

\* 8 * lanes wraps around: too many lanes pass here and are refused below.
memoryForLanes(c) ==
    << <<c.m_cost < Word(8 * c.lanes), "MEMORY_TOO_LITTLE">>,
       <<c.t_cost < 1, "TIME_TOO_SMALL">>, <<c.t_cost > UINT32_MAX, "TIME_TOO_LARGE">>,
       <<c.lanes < 1, "LANES_TOO_FEW">>, <<c.lanes > MaxLanes, "LANES_TOO_MANY">> >>

\* Mutant of callbacks: only an allocator without its deallocator is refused.
callbacksHalf(c) ==
    << <<c.allocate_cbk /\ ~ c.free_cbk, "FREE_MEMORY_CBK_NULL">> >>

callbacks(c) ==
    << <<c.allocate_cbk /\ ~ c.free_cbk, "FREE_MEMORY_CBK_NULL">>,
       <<~ c.allocate_cbk /\ c.free_cbk, "ALLOCATE_MEMORY_CBK_NULL">> >>

validate_inputs(c) ==
    FirstError(
       << <<c.out = NULL, "OUTPUT_PTR_NULL">>,
          <<c.outlen < MinOutlen, "OUTPUT_TOO_SHORT">>,
          <<c.outlen > UINT32_MAX, "OUTPUT_TOO_LONG">> >>
       \o Buffer(c.pwd, c.pwdlen, 0, "PWD_PTR_MISMATCH", "PWD_TOO_SHORT", "PWD_TOO_LONG")
       \o Buffer(c.salt, c.saltlen, MinSaltLength,
                 "SALT_PTR_MISMATCH", "SALT_TOO_SHORT", "SALT_TOO_LONG")
       \o Buffer(c.secret, c.secretlen, 0,
                 "SECRET_PTR_MISMATCH", "SECRET_TOO_SHORT", "SECRET_TOO_LONG")
       \o Buffer(c.ad, c.adlen, 0, "AD_PTR_MISMATCH", "AD_TOO_SHORT", "AD_TOO_LONG")
       \o << <<c.m_cost < MinMemory, "MEMORY_TOO_LITTLE">>,
             <<c.m_cost > MaxMemory, "MEMORY_TOO_MUCH">> >>
       \o memoryForLanes(c)
       \o << <<c.threads < 1, "THREADS_TOO_FEW">>,
             <<c.threads > MaxLanes, "THREADS_TOO_MANY">> >>
       \o callbacks(c))

\* argon2_ctx: the matrix has as many whole segments as fit in m_cost.
segment_length(c) ==
    LET least == Word(2 * SyncPoints * c.lanes)
    IN (IF c.m_cost < least THEN least ELSE c.m_cost) \div Word(c.lanes * SyncPoints)

memory_blocks(c) == Word(segment_length(c) * Word(c.lanes * SyncPoints))

threads(c) == Least(c.threads, c.lanes)

\* The size that allocate_memory asks for, and whether it is the whole one.
memory_size(num) == (num * BlockSize) % PointerSize

overflows(num) == memory_size(num) \div BlockSize # num

\* What the first len bytes of a buffer are hashed as.
Bytes(ptr, len) == IF ptr = NULL \/ len = 0 THEN <<>> ELSE <<[ptr |-> ptr, len |-> len]>>

\* initial_hash: all it feeds to BLAKE2b, in this order.
initial_hash(c, type) ==
    <<c.lanes, c.outlen, c.m_cost, c.t_cost, c.version, type,
      c.pwdlen, Bytes(c.pwd, c.pwdlen), c.saltlen, Bytes(c.salt, c.saltlen),
      c.secretlen, Bytes(c.secret, c.secretlen), c.adlen, Bytes(c.ad, c.adlen)>>

\* Mutant of clearHashed: the password is cleared whatever the flags say.
clearHashedAlways(c) ==
    IF c.pwd # NULL THEN [c EXCEPT !.pwd = "wiped", !.pwdlen = 0] ELSE c

\* The password and the secret are wiped as soon as they are hashed, if asked.
clearHashed(c) ==
    LET p == IF c.pwd # NULL /\ "CLEAR_PASSWORD" \in c.flags
             THEN [c EXCEPT !.pwd = "wiped", !.pwdlen = 0] ELSE c
    IN IF c.secret # NULL /\ "CLEAR_SECRET" \in c.flags
       THEN [p EXCEPT !.secret = "wiped", !.secretlen = 0] ELSE p
=============================================================================
