------------------------- MODULE MC_SamlMiddleware -------------------------
(* Model-checking instance of SamlMiddleware: three concurrent requests,  *)
(* enough for two constructions racing while a third request uses the     *)
(* middleware, and one process restart.  Requests are model values given *)
(* in the .cfg files.  They are only compared for equality: every run    *)
(* uses their symmetry.                                                    *)
EXTENDS SamlMiddleware, TLC

MCSymmetry == Permutations(Threads)
=============================================================================
