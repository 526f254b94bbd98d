--------------------------- MODULE MCSlcOperations ---------------------------
(***************************************************************************)
(* Two versions of the repository, of which the second adds a signer; two   *)
(* signals with a natural key each; a day of two entry slots.               *)
(***************************************************************************)
EXTENDS SlcOperations

CONSTANTS v1, v2, k1, k2

\* Accounts and nonces are told apart by nothing.
Interchangeable == Permutations(Accounts) \union Permutations(Nonces)

MCSigners == (v1 :> {k1}) @@ (v2 :> {k1, k2})
MCKeyOf == [g \in Signals |-> g]
=============================================================================
