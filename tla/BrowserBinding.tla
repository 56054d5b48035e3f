--------------------------- MODULE BrowserBinding ---------------------------
(***************************************************************************)
(* What a SAML assertion consumer promises about whom it logs in (spec 3, *)
(* 4.1 and 4.3): authentications are started one after the other by       *)
(* browsers, and a browser is bound only to an authentication it started  *)
(* itself.  The record of who started what is never rewritten, and a       *)
(* binding, once made, stays.                                               *)
(*                                                                         *)
(* Both consumers of the repository implement this specification: the     *)
(* strategy's handleCallback (SamlAcs, bound <- the authentications its    *)
(* completed flows answer, per browser) and the eager handler's serveAcs   *)
(* (SamlHandler, bound <- the samlsp session cookies).                     *)
(***************************************************************************)
EXTENDS Naturals, Sequences

CONSTANTS
    Browsers,   \* browser contexts
    MaxAuthn    \* bound on the authentications started

VARIABLES
    startedBy,  \* startedBy[a]: the browser that started authentication a
    bound       \* bound[b]: the authentications browser b was logged in with

bbvars == <<startedBy, bound>>

TypeOK ==
    /\ startedBy \in Seq(Browsers) /\ Len(startedBy) <= MaxAuthn
    /\ bound \in [Browsers -> SUBSET (1..MaxAuthn)]

Init ==
    /\ startedBy = <<>>
    /\ bound = [b \in Browsers |-> {}]

\* Browser b starts the next authentication.
Start(b) ==
    /\ Len(startedBy) < MaxAuthn
    /\ startedBy' = Append(startedBy, b)
    /\ UNCHANGED bound

\* Browser b is logged in with authentication a, which it started.
Bind(b, a) ==
    /\ a \in 1..Len(startedBy)
    /\ startedBy[a] = b
    /\ bound' = [bound EXCEPT ![b] = @ \cup {a}]
    /\ UNCHANGED startedBy

Next ==
    \E b \in Browsers :
        \/ Start(b)
        \/ \E a \in 1..MaxAuthn : Bind(b, a)

Spec == Init /\ [][Next]_bbvars
=============================================================================
