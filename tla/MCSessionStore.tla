--------------------------- MODULE MCSessionStore ---------------------------
(* SessionStore for TLC: processes are interchangeable, and so are tasks.  *)
EXTENDS SessionStore, TLC

Interchangeable == Permutations(Procs) \cup Permutations(Workers)
=============================================================================
