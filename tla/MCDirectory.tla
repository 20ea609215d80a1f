----------------------------- MODULE MCDirectory -----------------------------
(* Directory for TLC.  Names, keys and connections are interchangeable.     *)
EXTENDS Directory, TLC

Symmetry == Permutations(Conn) \union Permutations(Key) \union Permutations(Name)
=============================================================================
