---------------------------- MODULE MCFileStore ----------------------------
(* Two files, one column, two requests and two values of the secrets. *)
EXTENDS FileStore, TLC

Symmetric == Permutations(Requests) \cup Permutations(Files) \cup Permutations(Keys)
=============================================================================
