---------------------------- MODULE MCFileTools ----------------------------
(* FileTools for TLC: tool calls are interchangeable.                      *)
EXTENDS FileTools, TLC

CallSymmetry == Permutations(Callers)
=============================================================================
