------------------------- MODULE SamlHandler_proofs -------------------------
(***************************************************************************)
(* Proofs about the eager handler of handler.go, for every number of       *)
(* browsers, requests, authentications and restarts.                       *)
(*                                                                         *)
(* The argument: serveAcs accepts only a response whose InResponseTo is    *)
(* among the tracking cookies the POST carried (AllowIDPInitiated is      *)
(* unset).  Those cookies are a snapshot of the browser's tracked ids,     *)
(* and every id tracked in a browser was started by that browser, since   *)
(* only HandleStartAuthFlow adds one, in the browser of its own request.   *)
(* The snapshot stays true after the browser's cookies change, because     *)
(* authnBy only grows.  A restart keeps all of this: it touches neither    *)
(* the cookies nor authnBy.                                                *)
(***************************************************************************)
EXTENDS SamlHandler, TLAPS

\* Authentication a, in the history s, was started by browser b.
StartedIn(s, b, a) == a \in 1..Len(s) /\ s[a] = b

\* Every id tracked in a browser was started by it.
TrackedStarted ==
    \A b \in Browsers : \A a \in tracked[b] : StartedIn(authnBy, b, a)

\* A request being served has a kind and a browser, and the cookies it
\* carries were started by its browser.
CookiesStarted ==
    \A t \in Threads : thr[t].pc = "serve" =>
        /\ thr[t].b \in Browsers /\ thr[t].kind \in Kinds
        /\ \A a \in thr[t].cookies : StartedIn(authnBy, thr[t].b, a)

IInv == TypeOK /\ TrackedStarted /\ CookiesStarted /\ SessionBinding

USE ConstantsAssumption

\* Appending to a history keeps who started the earlier authentications.
LEMMA AppendKeepsStarted ==
    ASSUME NEW S, NEW s \in Seq(S), NEW x \in S, NEW b, NEW a,
           StartedIn(s, b, a)
    PROVE  StartedIn(Append(s, x), b, a)
BY DEF StartedIn

\* Init establishes the inductive invariant.
LEMMA InitIInv == Init => IInv
<1> SUFFICES ASSUME Init PROVE IInv
  OBVIOUS
<1>1. IdleThr \in Thr
  BY DEF IdleThr, Thr, Pc, InResponseTo
<1>2. TypeOK
  BY <1>1, ConstantsAssumption DEF Init, TypeOK, InResponseTo
<1>3. QED
  BY <1>2 DEF Init, IInv, TrackedStarted, CookiesStarted, SessionBinding,
     IdleThr

\* A request that ends keeps the request table typed and drops out of
\* CookiesStarted; the others keep their snapshot.
LEMMA FinishKeeps ==
    ASSUME TypeOK, NEW t \in Threads, NEW pc \in Pc \ {"serve"},
           NEW os \in Seq(Outputs), Finish(t, pc, os)
    PROVE  /\ thr' \in [Threads -> Thr]
           /\ thr'[t].pc # "serve"
           /\ \A u \in Threads \ {t} : thr'[u] = thr[u]
<1>1. thr[t] \in Thr
  BY DEF TypeOK
<1>2. thr'[t] = [thr[t] EXCEPT !.pc = pc, !.out = os]
  BY DEF Finish, TypeOK
<1>3. thr'[t] \in Thr
  BY <1>1, <1>2 DEF Thr
<1>4. QED
  BY <1>2, <1>3 DEF Finish, TypeOK

\* Every step preserves the inductive invariant.
LEMMA NextIInv == IInv /\ [Next]_vars => IInv'
<1> SUFFICES ASSUME IInv, [Next]_vars PROVE IInv'
  OBVIOUS
<1>0. TypeOK /\ TrackedStarted /\ CookiesStarted /\ SessionBinding
  BY DEF IInv
<1>1. CASE BootOk \/ BootFail
  BY <1>0, <1>1 DEF BootOk, BootFail, IInv, TypeOK, TrackedStarted,
     CookiesStarted, SessionBinding
<1>2. CASE Restart
  <2>1. ASSUME NEW t \in Threads
        PROVE  /\ thr'[t] \in Thr
               /\ thr'[t].pc = "serve" => thr'[t] = thr[t]
    <3>1. thr[t] \in Thr
      BY <1>0 DEF TypeOK
    <3>2. CASE thr[t].pc = "serve"
      <4>1. thr'[t] = [thr[t] EXCEPT !.pc = "killed"]
        BY <3>2, <1>2 DEF Restart
      <4>2. QED
        BY <3>1, <4>1 DEF Thr, Pc
    <3>3. CASE thr[t].pc # "serve"
      BY <3>1, <3>3, <1>2 DEF Restart
    <3>4. QED
      BY <3>2, <3>3
  <2>2. thr' \in [Threads -> Thr]
    BY <2>1, <1>2 DEF Restart
  <2>3. restarts' \in 0..MaxRestarts /\ phase' = "boot"
    BY <1>0, <1>2, ConstantsAssumption DEF Restart, TypeOK
  <2>4. QED
    BY <1>0, <1>2, <2>1, <2>2, <2>3 DEF Restart, IInv, TypeOK,
       TrackedStarted, CookiesStarted, SessionBinding
<1>3. ASSUME NEW a \in Authn, IdpRespond(a)
      PROVE  IInv'
  BY <1>0, <1>3 DEF IdpRespond, IInv, TypeOK, TrackedStarted,
     CookiesStarted, SessionBinding, InResponseTo, Authn
<1>4. ASSUME NEW t \in Threads, NEW k \in Kinds, NEW b \in Browsers,
             NEW s \in SessionStates \cup {Nil}, NEW to \in InResponseTo,
             Arrive(t, k, b, s, to)
      PROVE  IInv'
  <2> DEFINE c == IF k = "acs" THEN tracked[b] ELSE {}
  <2>1. c \subseteq Authn /\ \A a \in c : StartedIn(authnBy, b, a)
    BY <1>0 DEF TypeOK, TrackedStarted
  <2>2. thr'[t] = [kind |-> k, pc |-> "serve", b |-> b, sess |-> s,
                   to |-> to, out |-> <<>>, cookies |-> c]
    BY <1>0, <1>4 DEF Arrive, TypeOK
  <2>3. thr'[t] \in Thr
    BY <2>1, <2>2 DEF Thr, Pc
  <2>4. \A u \in Threads \ {t} : thr'[u] = thr[u]
    BY <1>0, <1>4 DEF Arrive, TypeOK
  <2>5. thr' \in [Threads -> Thr]
    BY <1>0, <1>4, <2>3, <2>4 DEF Arrive, TypeOK
  <2>6. CookiesStarted'
    BY <1>0, <1>4, <2>1, <2>2, <2>4 DEF Arrive, CookiesStarted
  <2>7. QED
    BY <1>0, <1>4, <2>5, <2>6 DEF Arrive, IInv, TypeOK, TrackedStarted,
       SessionBinding
<1>5. ASSUME NEW t \in Threads, SubmitMetadata(t) \/ LoginError(t) \/
             LoginActive(t) \/ AcsFail(t)
      PROVE  IInv'
  <2>1. /\ <<"metadata">> \in Seq(Outputs) /\ <<"error">> \in Seq(Outputs)
        /\ <<"redirect", "error">> \in Seq(Outputs)
    BY DEF Outputs
  <2>2. /\ thr' \in [Threads -> Thr]
        /\ thr'[t].pc # "serve"
        /\ \A u \in Threads \ {t} : thr'[u] = thr[u]
    BY <1>0, <1>5, <2>1, FinishKeeps
       DEF SubmitMetadata, LoginError, LoginActive, AcsFail, Pc
  <2>3. UNCHANGED <<phase, restarts, authnBy, tracked, issued, samlSess>>
    BY <1>5 DEF SubmitMetadata, LoginError, LoginActive, AcsFail
  <2>4. QED
    BY <1>0, <2>2, <2>3 DEF IInv, TypeOK, TrackedStarted, CookiesStarted,
       SessionBinding
<1>6. ASSUME NEW t \in Threads, LoginNoSession(t)
      PROVE  IInv'
  <2> DEFINE b == thr[t].b
             n == Len(authnBy) + 1
  <2>1. b \in Browsers /\ Len(authnBy) < MaxAuthn
    BY <1>0, <1>6 DEF LoginNoSession, Serving, CookiesStarted
  <2>2. /\ authnBy' = Append(authnBy, b)
        /\ authnBy' \in Seq(Browsers) /\ Len(authnBy') <= MaxAuthn
        /\ Len(authnBy') = n /\ authnBy'[n] = b
    BY <1>0, <1>6, <2>1 DEF LoginNoSession, TypeOK
  <2>3. \A bb \in Browsers, a \in Nat :
          StartedIn(authnBy, bb, a) => StartedIn(authnBy', bb, a)
    BY <1>0, <2>1, <2>2, AppendKeepsStarted DEF TypeOK
  <2>4. n \in Authn /\ StartedIn(authnBy', b, n)
    BY <1>0, <2>1, <2>2 DEF TypeOK, Authn, StartedIn
  <2>5. tracked' = [tracked EXCEPT ![b] = @ \cup {n}]
    BY <1>6, <2>2 DEF LoginNoSession
  <2>6. tracked' \in [Browsers -> SUBSET Authn] /\ TrackedStarted'
    BY <1>0, <2>1, <2>3, <2>4, <2>5 DEF TypeOK, TrackedStarted, Authn
  <2>7. /\ thr' \in [Threads -> Thr]
        /\ thr'[t].pc # "serve"
        /\ \A u \in Threads \ {t} : thr'[u] = thr[u]
    <3>1. <<"startauth", "error">> \in Seq(Outputs)
      BY DEF Outputs
    <3>2. QED
      BY <1>0, <1>6, <3>1, FinishKeeps DEF LoginNoSession, Pc
  <2>8. CookiesStarted'
    <3> SUFFICES ASSUME NEW u \in Threads, thr'[u].pc = "serve"
                 PROVE  /\ thr'[u].b \in Browsers /\ thr'[u].kind \in Kinds
                        /\ \A a \in thr'[u].cookies :
                             StartedIn(authnBy', thr'[u].b, a)
      BY DEF CookiesStarted
    <3>1. u # t /\ thr'[u] = thr[u]
      BY <2>7
    <3>2. thr[u].b \in Browsers /\ thr[u].kind \in Kinds
          /\ \A a \in thr[u].cookies : StartedIn(authnBy, thr[u].b, a)
      BY <1>0, <3>1 DEF CookiesStarted
    <3>3. thr[u].cookies \subseteq Nat
      BY <1>0 DEF TypeOK, Thr, Authn
    <3>4. QED
      BY <2>3, <3>1, <3>2, <3>3
  <2>9. SessionBinding'
    BY <1>0, <1>6, <2>3 DEF LoginNoSession, SessionBinding, StartedIn,
       TypeOK, InResponseTo
  <2>10. QED
    BY <1>0, <1>6, <2>2, <2>6, <2>7, <2>8, <2>9
       DEF LoginNoSession, IInv, TypeOK
<1>7. ASSUME NEW t \in Threads, AcsOk(t)
      PROVE  IInv'
  <2> DEFINE b == thr[t].b
             a == thr[t].to
  <2>1. b \in Browsers /\ a \in thr[t].cookies /\ StartedIn(authnBy, b, a)
    BY <1>0, <1>7 DEF AcsOk, Serving, CookiesStarted, PossibleRequestIDs,
       AllowIDPInitiated
  <2>2. a \in InResponseTo
    BY <1>0 DEF TypeOK, Thr
  <2>3. /\ tracked' = [tracked EXCEPT ![b] = @ \ {a}]
        /\ samlSess' = [samlSess EXCEPT ![b] = @ \cup {a}]
    BY <1>7 DEF AcsOk
  <2>4. /\ tracked' \in [Browsers -> SUBSET Authn] /\ TrackedStarted'
        /\ samlSess' \in [Browsers -> SUBSET InResponseTo]
    BY <1>0, <1>7, <2>1, <2>2, <2>3 DEF AcsOk, TypeOK, TrackedStarted
  <2>5. SessionBinding'
    BY <1>0, <1>7, <2>1, <2>3 DEF AcsOk, SessionBinding, StartedIn, TypeOK
  <2>6. /\ thr' \in [Threads -> Thr]
        /\ thr'[t].pc # "serve"
        /\ \A u \in Threads \ {t} : thr'[u] = thr[u]
    <3>1. <<"session">> \in Seq(Outputs)
      BY DEF Outputs
    <3>2. QED
      BY <1>0, <1>7, <3>1, FinishKeeps DEF AcsOk, Pc
  <2>7. CookiesStarted'
    BY <1>0, <1>7, <2>6 DEF AcsOk, CookiesStarted
  <2>8. QED
    BY <1>0, <1>7, <2>4, <2>5, <2>6, <2>7 DEF AcsOk, IInv, TypeOK
<1>8. CASE UNCHANGED vars
  BY <1>0, <1>8 DEF vars, IInv, TypeOK, TrackedStarted, CookiesStarted,
     SessionBinding
<1>9. QED
  BY <1>1, <1>2, <1>3, <1>4, <1>5, <1>6, <1>7, <1>8 DEF Next

\* Theorem (serveAcs, handler.go 146-166): in every behaviour, a samlsp
\* session in a browser comes only from the answer to an authentication
\* that browser started.
THEOREM SessionBindingHolds == Spec => []SessionBinding
<1>1. Init => IInv
  BY InitIInv
<1>2. IInv /\ [Next]_vars => IInv'
  BY NextIInv
<1>3. IInv => SessionBinding
  BY DEF IInv
<1>4. QED
  BY <1>1, <1>2, <1>3, PTL DEF Spec

\* Theorem: the handler's state stays well typed in every behaviour; in
\* particular loginWithIdp never starts more than MaxAuthn authentications.
THEOREM TypeCorrect == Spec => []TypeOK
<1>1. IInv => TypeOK
  BY DEF IInv
<1>2. QED
  BY <1>1, InitIInv, NextIInv, PTL DEF Spec

\* The step simulation: HandleStartAuthFlow in loginWithIdp starts an
\* authentication of the abstract specification, serveAcs's
\* CreateSessionFromAssertion binds one, and every other step (boot,
\* restart, metadata, the other login branches, a failed ACS) leaves both
\* the record and the bindings alone.
LEMMA StepBinds == IInv /\ [Next]_vars => [BB!Next]_BB!bbvars
<1> SUFFICES ASSUME IInv, [Next]_vars PROVE [BB!Next]_BB!bbvars
  OBVIOUS
<1>0. TypeOK /\ CookiesStarted
  BY DEF IInv
<1>1. ASSUME NEW t \in Threads, LoginNoSession(t) PROVE BB!Next
  <2>1. thr[t].b \in Browsers
    BY <1>0, <1>1 DEF LoginNoSession, Serving, CookiesStarted
  <2>2. BB!Start(thr[t].b)
    BY <1>1 DEF LoginNoSession, BB!Start
  <2>3. QED
    BY <2>1, <2>2 DEF BB!Next
<1>2. ASSUME NEW t \in Threads, AcsOk(t) PROVE BB!Next
  <2> DEFINE b == thr[t].b
             a == thr[t].to
  <2>1. thr[t].pc = "serve" /\ a \in thr[t].cookies
    BY <1>2 DEF AcsOk, Serving, PossibleRequestIDs, AllowIDPInitiated
  <2>2. b \in Browsers /\ StartedIn(authnBy, b, a)
    BY <1>0, <2>1 DEF CookiesStarted
  <2>3. a \in 1..MaxAuthn
    BY <1>0, <2>2, ConstantsAssumption DEF TypeOK, StartedIn
  <2>4. BB!Bind(b, a)
    BY <1>2, <2>2 DEF AcsOk, BB!Bind, StartedIn
  <2>5. QED
    BY <2>2, <2>3, <2>4 DEF BB!Next
<1>3. ASSUME \/ BootOk \/ BootFail \/ Restart \/ \E a \in Authn : IdpRespond(a)
             \/ UNCHANGED vars
      PROVE  UNCHANGED BB!bbvars
  BY <1>3 DEF BootOk, BootFail, Restart, IdpRespond, vars, BB!bbvars
<1>4. ASSUME NEW t \in Threads,
             \/ \E k \in Kinds, b \in Browsers, s \in SessionStates \cup {Nil},
                   to \in InResponseTo : Arrive(t, k, b, s, to)
             \/ SubmitMetadata(t) \/ LoginError(t) \/ LoginActive(t)
             \/ AcsFail(t)
      PROVE  UNCHANGED BB!bbvars
  BY <1>4 DEF Arrive, SubmitMetadata, LoginError, LoginActive, AcsFail,
     BB!bbvars
<1>5. QED
  BY <1>1, <1>2, <1>3, <1>4 DEF Next

\* Theorem (the property BindingRefined that handler_safety checks): for
\* every number of browsers, requests, authentications and restarts, the
\* eager handler implements the abstract BrowserBinding specification:
\* the record of who started which authentication only grows, and a
\* session cookie binds a browser only to an authentication it started.
THEOREM BindingRefinedHolds == Spec => BindingRefined
<1>1. Init => BB!Init
  BY DEF Init, BB!Init
<1>2. Spec => []IInv
  BY InitIInv, NextIInv, PTL DEF Spec
<1>3. QED
  BY <1>1, <1>2, StepBinds, PTL DEF Spec, BindingRefined, BB!Spec
=============================================================================
