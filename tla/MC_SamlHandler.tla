--------------------------- MODULE MC_SamlHandler ---------------------------
(* Model-checking instance of SamlHandler: two browsers, three requests    *)
(* (two authentications started and a callback, or two callbacks racing   *)
(* on the same cookies), and one restart.  Browsers and requests are      *)
(* model values and are symmetric.                                         *)
EXTENDS SamlHandler, TLC

MCSymmetry == Permutations(Browsers) \cup Permutations(Threads)
=============================================================================
