---------------------------- MODULE MCImageServer ----------------------------
(* ImageServer for TLC: clients are interchangeable. *)
EXTENDS ImageServer, TLC

ConnSymmetry == Permutations(Conns)
=============================================================================
