---------------------------- MODULE MC_SamlAcs ----------------------------
(* Model-checking instance of SamlAcs: two browsers (a user and another   *)
(* site or tab), one flow of any kind and type, one identity, up to two   *)
(* authentication requests and two ACS POSTs: enough for a replayed POST  *)
(* racing the original, for two tabs of one browser overwriting each      *)
(* other's container, and for a response carried into another browser.    *)
(* The sets are model values given in the .cfg files.                     *)
EXTENDS SamlAcs, TLC

\* Browsers, requests, flows and identities are only compared for equality
\* and no CHOOSE picks one of them: each set is symmetric.
MCSymmetry ==
    Permutations(Browsers) \cup Permutations(Requests) \cup
    Permutations(FlowIds) \cup Permutations(Identities)
=============================================================================
