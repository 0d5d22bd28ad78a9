-------------------------------- MODULE MCMail --------------------------------
(* Instances of Mail for TLC. *)
EXTENDS Mail, TLC

CONSTANTS k1, k2, h1, h2, b1, b2, p1, p2

Symmetry ==
  Permutations(Process) \cup Permutations(Header) \cup Permutations(Body) \cup Permutations(Key)
===============================================================================
