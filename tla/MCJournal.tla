------------------------------- MODULE MCJournal -------------------------------
(* Journal with two requests at a time, of which neither is special. *)
EXTENDS Journal

Symmetry == Permutations(Requests)
=============================================================================
