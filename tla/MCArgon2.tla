------------------------------ MODULE MCArgon2 ------------------------------
(***************************************************************************)
(* Argon2 on small matrices.  Every word a block may hold is tried, so that *)
(* index_alpha refers to every block it can refer to.                       *)
(***************************************************************************)
EXTENDS Argon2

Words == 0..(WordSize - 1)
=============================================================================
