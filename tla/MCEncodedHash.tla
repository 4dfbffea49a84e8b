----------------------------- MODULE MCEncodedHash -----------------------------
(* Instances of EncodedHash for TLC. *)
EXTENDS EncodedHash

Context(salt, out, t_cost, m_cost, lanes, version) ==
    [out |-> out, outlen |-> Len(out), pwd |-> "password", pwdlen |-> 3,
     salt |-> salt, saltlen |-> Len(salt), secret |-> NULL, secretlen |-> 0,
     ad |-> NULL, adlen |-> 0, t_cost |-> t_cost, m_cost |-> m_cost,
     lanes |-> lanes, threads |-> lanes, version |-> version,
     allocate_cbk |-> FALSE, free_cbk |-> FALSE, flags |-> {}]

Salt(n) == [i \in 1..n |-> (i * 83 + 4) % 256]

\* Every remainder of a length by 3, numbers of one, two and three digits, the
\* limits, and two that are refused (an output too short, lanes that wrap).
MCContexts ==
    { Context(Salt(8), <<0, 255, 16, 7>>, 1, 8, 1, 19),
      Context(Salt(9), <<251, 239, 190, 0, 1>>, 10, 64, 8, 16),
      Context(Salt(10), <<8, 0, 0, 0, 0, 64>>, 255, 16, 2, 19),
      Context(Salt(8), <<1, 2, 3, 4>>, 9, 20, 2, 100),
      Context(Salt(8), <<1, 2, 3>>, 1, 8, 1, 19),
      Context(Salt(8), <<1, 2, 3, 4>>, 1, 8, 32, 19) }

MCRoom == -46..0
MCAltered == {"0", "9", "A", "i", "$", ","}
MCBufferSizes == {8}
=============================================================================
