------------------------------ MODULE EncodedHash ------------------------------
(***************************************************************************)
(* A hash as text: a context is encoded into a buffer of some size, the     *)
(* string is kept or sent by whoever asked for it, perhaps altered, and is  *)
(* decoded again with buffers of some size.                                 *)
(***************************************************************************)
EXTENDS Encoding

CONSTANTS Contexts,     \* what is encoded
          Room,         \* sizes of the buffer, against argon2_encodedlen
          BufferSizes,  \* sizes of the decoder's buffers for salt and output
          Altered,      \* characters that may appear in an altered string
          MaxDamage     \* how often a string is altered

\* The context has a salt and an output of its lengths; numbers are words.
ASSUME EncodedAssumption ==
    /\ \A ctx \in Contexts :
          /\ DOMAIN ctx = ContextFields
          /\ ctx.salt \in Seq(0..255) /\ ctx.saltlen = Len(ctx.salt)
          /\ ctx.out \in Seq(0..255) /\ ctx.outlen = Len(ctx.out)
          /\ {ctx.saltlen, ctx.outlen, ctx.t_cost, ctx.m_cost, ctx.lanes, ctx.version}
                \subseteq 0..UINT32_MAX
    /\ Room \subseteq Int /\ BufferSizes \subseteq Nat /\ Altered \subseteq STRING

VARIABLES c,         \* the context encoded
          type,      \* and its type
          size,      \* the size of the buffer
          encoded,   \* what encode_string returned and wrote
          str,       \* the string as it is now
          damage,    \* how often it was altered
          decoded    \* the result of the last decode_string, and its inputs

vars == <<c, type, size, encoded, str, damage, decoded>>

NotYet == [ret |-> "none"]

Needed(ctx, t) ==
    argon2_encodedlen(ctx.t_cost, ctx.m_cost, ctx.lanes, ctx.saltlen, ctx.outlen, t)

Init ==
    /\ c \in Contexts /\ type \in Types
    /\ size \in {Needed(c, type) + r : r \in Room} \cap Nat
    /\ encoded = NotYet /\ str = <<>> /\ damage = 0 /\ decoded = NotYet

Encode ==
    /\ encoded = NotYet
    /\ encoded' = encode_string(size, c, type)
    /\ str' = encoded'.dst
    /\ UNCHANGED <<c, type, size, damage, decoded>>

Without(s, i, j) == SubSeq(s, 1, i) \o Rest(s, j)

\* One character more or another one, or a part left out.
Variants(s) ==
    {InsertAt(s, i, a) : i \in 1..(Len(s) + 1), a \in Altered}
    \cup {ReplaceAt(s, i, a) : i \in DOMAIN s, a \in Altered}
    \cup {Without(s, i, j) : i \in 0..Len(s), j \in 0..Len(s)}

Alter ==
    /\ encoded.ret = "OK" /\ damage < MaxDamage /\ decoded = NotYet
    /\ str' \in Variants(str)
    /\ damage' = damage + 1
    /\ UNCHANGED <<c, type, size, encoded, decoded>>

\* A context with two buffers that nobody has written to; of what decode_string
\* has to fill in, nothing passes validate_inputs as it is, and the flags ask
\* for what a string cannot ask for.
Buffers(saltlen, outlen) ==
    [c EXCEPT !.salt = <<>>, !.saltlen = saltlen, !.out = <<>>, !.outlen = outlen,
              !.version = 0, !.t_cost = 0, !.m_cost = 0, !.lanes = 0, !.threads = 0,
              !.secret = NULL, !.secretlen = 1, !.ad = NULL, !.adlen = 1,
              !.allocate_cbk = TRUE, !.free_cbk = FALSE,
              !.flags = {"CLEAR_PASSWORD", "CLEAR_SECRET"}]

Decode(t, saltlen, outlen) ==
    /\ encoded.ret = "OK" /\ decoded = NotYet
    /\ LET d == decode_string(Buffers(saltlen, outlen), str, t)
       IN decoded' = [ret |-> d.ret, ctx |-> d.ctx, type |-> t,
                      saltlen |-> saltlen, outlen |-> outlen]
    /\ UNCHANGED <<c, type, size, encoded, str, damage>>

\* The string is not decoded, or decoded: nothing more is asked.
done == (decoded # NotYet \/ encoded.ret \notin {"none", "OK"}) /\ UNCHANGED vars

Next ==
    \/ Encode \/ Alter \/ done
    \/ \E t \in Types, n \in BufferSizes \cup {Len(str)} : Decode(t, n, n)

Spec == Init /\ [][Next]_vars

-----------------------------------------------------------------------------
(* Properties. *)

\* argon2.h:420, "Returns the encoded hash length for the given input
\* parameters": a buffer of argon2_encodedlen bytes is enough, one byte less is
\* not, and whatever its size encode_string writes no byte behind its end, the
\* terminating 0 included.
EncodesIntoBuffer ==
    encoded # NotYet =>
        /\ encoded.dst = <<>> \/ Len(encoded.dst) + 1 <= size
        /\ numlen[c.version] = 2 /\ validate_inputs(c) = "OK" =>
              (encoded.ret = "OK" <=> size >= Needed(c, type))

\* What was encoded is decoded as it was, if the buffers are large enough, and
\* never as a hash of another type ("argon2i" begins "argon2id").  Whatever the
\* context held before, it then asks for no input to be wiped.
SameHash(a, b) ==
    /\ a.version = b.version /\ a.t_cost = b.t_cost /\ a.m_cost = b.m_cost
    /\ a.lanes = b.lanes /\ a.saltlen = b.saltlen /\ a.outlen = b.outlen
    /\ SubSeq(a.salt, 1, a.saltlen) = b.salt /\ SubSeq(a.out, 1, a.outlen) = b.out

DecodesWhatWasEncoded ==
    decoded # NotYet /\ damage = 0 =>
        IF decoded.type = type /\ decoded.saltlen >= c.saltlen /\ decoded.outlen >= c.outlen
        THEN decoded.ret = "OK" /\ SameHash(c, decoded.ctx) /\ decoded.ctx.flags = {}
        ELSE decoded.ret # "OK"

\* A hash has one encoding: what is accepted is what encode_string writes for
\* it, or the form of version 0x10 that does not say its version.
WithoutVersion(s, t) ==
    LET n == Len(type_string(t)) + 1 IN Without(s, n, n + 5)

OneEncodingPerHash ==
    decoded.ret = "OK" =>
        LET again == encode_string(Len(str) + 6, decoded.ctx, decoded.type).dst IN
        \/ str = again
        \/ decoded.ctx.version = Version10 /\ str = WithoutVersion(again, decoded.type)

\* encoding.c:254, "The ctx struct must contain buffers large enough to hold the
\* salt": decoding stops at the end of the buffers, whatever the string says.
DecodesIntoBuffers ==
    decoded # NotYet =>
        /\ Len(decoded.ctx.salt) <= decoded.saltlen
        /\ Len(decoded.ctx.out) <= decoded.outlen
=============================================================================
