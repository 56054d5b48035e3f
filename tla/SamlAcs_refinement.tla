------------------------- MODULE SamlAcs_refinement -------------------------
(***************************************************************************)
(* The ACS model implements BrowserBinding under SamlAcs!BB: StartAuth is  *)
(* a Start, AcsComplete binds its browser to the authentication its        *)
(* assertion answers (a Bind, by AcceptedTracked and TrackedStarted), and  *)
(* every other step leaves the record and the completions alone.           *)
(***************************************************************************)
EXTENDS SamlAcs_proofs

\* The steps of Next that start an authentication.
StartStep == \E b \in Browsers, f \in FlowIds, t \in BOOLEAN : StartAuth(b, f, t)

\* The bindings the completions make, per browser, as SamlAcs!BB maps them.
Bnd(comps) == [b \in Browsers |-> {c.authn : c \in {d \in comps : d.browser = b}}]

\* A new completion adds its authentication to its browser's bindings.
LEMMA BndAdd ==
    ASSUME NEW C, NEW c, c.browser \in Browsers
    PROVE  Bnd(C \cup {c}) = [Bnd(C) EXCEPT ![c.browser] = @ \cup {c.authn}]
BY DEF Bnd

\* Only StartAuth writes authnBy, and only AcsComplete the completions.
LEMMA BindingWriters ==
    ASSUME [Next]_vars
    PROVE  \/ StartStep
           \/ \E r \in Requests : AcsComplete(r)
           \/ UNCHANGED <<authnBy, completions>>
<1>1. ASSUME NEW id, NEW s, IdpRespond(id, s)
      PROVE  UNCHANGED <<authnBy, completions>>
  BY <1>1 DEF IdpRespond
<1>2. ASSUME NEW r \in Requests, NEW b \in Browsers, NEW resp,
             \/ AcsParseFail(r, b, resp) \/ AcsProviderFail(r, b, resp)
             \/ AcsClaimsFail(r, b, resp)
             \/ \E e \in BOOLEAN : AcsClaimsOk(r, b, resp, e)
      PROVE  UNCHANGED <<authnBy, completions>>
  BY <1>2 DEF AcsParseFail, AcsProviderFail, AcsClaimsFail, AcsClaimsOk
<1>3. ASSUME NEW r \in Requests,
             \/ AcsContinueFail(r) \/ AcsContinue(r) \/ AcsFlowRejected(r)
             \/ AcsFlowError(r)
      PROVE  UNCHANGED <<authnBy, completions>>
  BY <1>3 DEF AcsContinueFail, AcsContinue, AcsFlowRejected, AcsFlowError
<1>4. ASSUME \/ \E f \in FlowIds : ExpireFlow(f)
             \/ \E b \in Browsers : SessionEnds(b)
             \/ \E b \in Browsers, i \in Identities : OtherLogin(b, i)
             \/ UNCHANGED vars
      PROVE  UNCHANGED <<authnBy, completions>>
  BY <1>4 DEF ExpireFlow, SessionEnds, OtherLogin, vars
<1>5. QED
  BY <1>1, <1>2, <1>3, <1>4 DEF Next, StartStep

\* The step simulation for BrowserBinding.
LEMMA StepBinds == IInv /\ [Next]_vars => [BB!Next]_BB!bbvars
<1> SUFFICES ASSUME IInv, [Next]_vars PROVE [BB!Next]_BB!bbvars
  OBVIOUS
<1>0. TypeOK /\ ReqShape /\ TrackedStarted /\ AcceptedTracked
  BY DEF IInv, TypeInv
<1>1. CASE StartStep
  <2>1. PICK b \in Browsers, f \in FlowIds, t \in BOOLEAN : StartAuth(b, f, t)
    BY <1>1 DEF StartStep
  <2>2. BB!Start(b)
    BY <2>1 DEF StartAuth, BB!Start
  <2>3. QED
    BY <2>2 DEF BB!Next
<1>2. CASE \E r \in Requests : AcsComplete(r)
  <2>1. PICK r \in Requests : AcsComplete(r)
    BY <1>2
  <2> DEFINE b == req[r].b
             a == req[r].resp.to
             c == [flow |-> req[r].flow, browser |-> b, authn |-> a,
                   state |-> req[r].token.authn, subject |-> req[r].resp.subject]
  <2>2. /\ req[r].pc = "complete"
        /\ completions' = completions \cup {c}
        /\ authnBy' = authnBy
    BY <2>1 DEF AcsComplete
  <2>3. b \in Browsers /\ a \in tracked[b]
    BY <1>0, <2>2 DEF ReqShape, AcceptedTracked
  <2>4. a \in 1..Len(authnBy) /\ authnBy[a] = b
    BY <1>0, <2>3 DEF TrackedStarted
  <2>5. a \in 1..MaxAuthn
    BY <1>0, <2>4, ConstantsAssumption DEF TypeOK
  <2>6. Bnd(completions') = [Bnd(completions) EXCEPT ![b] = @ \cup {a}]
    BY <2>2, <2>3, BndAdd
  <2>7. QED
    BY <2>2, <2>3, <2>4, <2>5, <2>6, Zenon DEF BB!Next, BB!Bind, Bnd
<1>3. CASE UNCHANGED <<authnBy, completions>>
  BY <1>3 DEF BB!bbvars
<1>4. QED
  BY <1>1, <1>2, <1>3, BindingWriters

\* Theorem (getAttributesFromAssertion's InResponseTo check and
\* processLoginOrRegister, for every value of the constants): the ACS model
\* implements BrowserBinding, so the record of who started what only grows
\* and a completed flow binds its browser only to an authentication that
\* browser started.  TLC checked BindingRefined once on the acs_safety
\* instance; the run does not keep it, as it adds little to SessionBinding.
THEOREM BindingRefinedHolds == Spec => BindingRefined
<1>1. Init => BB!Init
  BY DEF Init, BB!Init
<1>2. Spec => []IInv
  BY InitIInv, NextIInv, PTL DEF Spec
<1>3. QED
  BY <1>1, <1>2, StepBinds, PTL DEF Spec, BindingRefined, BB!Spec
=============================================================================
