-------------------------- MODULE MCLazyNodeLoader --------------------------
(* TLC instances of LazyNodeLoader. *)
EXTENDS LazyNodeLoader, TLC

Symmetry == Permutations(Loader) \cup Permutations(Id) \cup Permutations(Token)
=============================================================================
