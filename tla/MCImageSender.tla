---------------------------- MODULE MCImageSender ----------------------------
(* ImageSender for TLC: threads and sockets are interchangeable. *)
EXTENDS ImageSender, TLC

Symmetry == Permutations(Threads) \cup Permutations(Conns)
ConnSymmetry == Permutations(Conns)
=============================================================================
