------------------------------ MODULE MCMemoize ------------------------------
(* Two threads, three keys in a cache for two. *)
EXTENDS Memoize, TLC

Symmetry == Permutations(Threads) \union Permutations(Keys)
=============================================================================
