----------------------------- MODULE MCKeyVault -----------------------------
(* Two executions at a time and two passphrases, over one local identity,  *)
(* one shared secret and, in the second run, one remote verification key.  *)
EXTENDS KeyVault, TLC

Symmetry == Permutations(Ops)

\* What may follow once the rows can be under several passphrases is beyond
\* every property of the module, so it is not explored.
Unmixed == ~mixed
=============================================================================
