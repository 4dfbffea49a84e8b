------------------------------ MODULE MCArgon2Api ------------------------------
(* An instance of Argon2Api for TLC. *)
EXTENDS Argon2Api

MCPasswords ==
    {[pwd |-> "p", pwdlen |-> 3], [pwd |-> "p", pwdlen |-> 2], [pwd |-> "q", pwdlen |-> 3],
     [pwd |-> NULL, pwdlen |-> 0], [pwd |-> "p", pwdlen |-> 259]}

Salt(n) == [i \in 1..n |-> 83 * i % 256]

Hash(p, saltlen, hashlen, cost, lanes, encodedlen, t, version) ==
    [fn |-> "hash", pwd |-> p.pwd, pwdlen |-> p.pwdlen, salt |-> Salt(8),
     saltlen |-> saltlen, hashlen |-> hashlen, t_cost |-> 1, m_cost |-> cost,
     lanes |-> lanes, raw |-> TRUE, encodedlen |-> encodedlen, type |-> t,
     version |-> version]

P == [pwd |-> "p", pwdlen |-> 3]

\* Every password and type; lengths at and over the limits; buffers of the
\* right length and one too short; threads that may fail.
MCHashCalls ==
    {Hash(p, 8, 4, 8, 1, 42, "id", 19) : p \in MCPasswords}
    \cup {Hash(P, 8, 4, 16, 2, n, t, 16) : n \in {30, 41, 42}, t \in {"i", "d", "other"}}
    \cup {Hash(P, s, h, 8, 1, 42, "i", 19) : s \in {7, 8, 264}, h \in {3, 4, 260}}

Context(m_cost, lanes, allowed) ==
    [out |-> <<0, 0, 0, 0>>, outlen |-> 4, pwd |-> "p", pwdlen |-> 3,
     salt |-> Salt(8), saltlen |-> 8, secret |-> "s", secretlen |-> 2,
     ad |-> NULL, adlen |-> 0, t_cost |-> 1, m_cost |-> m_cost, lanes |-> lanes,
     threads |-> allowed, version |-> 19,
     allocate_cbk |-> FALSE, free_cbk |-> FALSE, flags |-> {}]

Flags == SUBSET {"CLEAR_PASSWORD", "CLEAR_SECRET"}

\* Memory and lanes at their limits and around a word; allocators; flags.
MCUserContexts ==
    {Context(m, l, 2) : m \in {7, 8, 23, 64, 65, 255}, l \in {0, 1, 2, 8, 9, 16, 32}}
    \cup {[Context(20, 2, t) EXCEPT !.allocate_cbk = a, !.free_cbk = f, !.flags = g] :
              t \in {0, 1, 2, 16}, a \in BOOLEAN, f \in BOOLEAN, g \in Flags}
    \cup {[Context(8, 1, 1) EXCEPT !.out = NULL], [Context(8, 1, 1) EXCEPT !.pwd = NULL],
          [Context(8, 1, 1) EXCEPT !.salt = NULL], [Context(8, 1, 1) EXCEPT !.adlen = 1],
          [Context(8, 1, 1) EXCEPT !.t_cost = 0], [Context(8, 1, 1) EXCEPT !.outlen = 3]}

\* The tag of the first input that is hashed, and one that differs at its end.
MCTags == {<<1, 1, 1, 1>>, <<1, 1, 1, 2>>}

MCAltered == {"A", "6", "$"}
=============================================================================
