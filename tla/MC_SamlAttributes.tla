------------------------- MODULE MC_SamlAttributes -------------------------
(* Model-checking instance of SamlAttributes: names "", "uid" and "mail"  *)
(* (so that a friendly name can collide with another attribute's raw      *)
(* name), two values, up to two values per attribute and two attributes   *)
(* in up to two statements: every order of a shared key across attributes *)
(* and statements, empty statements and attributes without values.        *)
EXTENDS SamlAttributes
=============================================================================
