--------------------------- MODULE SamlAcs_proofs ---------------------------
(***************************************************************************)
(* Proofs about the ACS model, for every number of browsers, flows,       *)
(* identities, requests and authentication requests.                       *)
(*                                                                         *)
(* TypeOK alone is not inductive: AcsContinue and AcsComplete read the     *)
(* browser, the response and the token a request carries, and TypeOK only *)
(* says these may also be Nil, Forged or NoToken.  ReqShape says what an   *)
(* in-flight request holds at each pc.  SessionBinding needs two more     *)
(* facts: a tracked request id names a request the browser itself started *)
(* (TrackedStarted), and a request past ParseResponse holds a response to *)
(* one of its browser's tracked ids (AcceptedTracked), which survives to  *)
(* completion because tracked ids are never dropped.                       *)
(***************************************************************************)
EXTENDS SamlAcs, TLAPS

\* What a request holds once it has passed ParseResponse and Continue.
ReqShape ==
    \A r \in Requests :
        /\ req[r].pc \in {"continue", "complete"} =>
             /\ req[r].b \in Browsers
             /\ req[r].resp \in Response
             /\ req[r].resp.subject \in Identities
        /\ req[r].pc = "complete" =>
             /\ req[r].token \in Token
             /\ req[r].flow = req[r].token.flow

TypeInv == TypeOK /\ ReqShape

\* The ids tracked in a browser's cookies are requests that browser started.
TrackedStarted ==
    \A b \in Browsers : \A id \in tracked[b] :
        id \in 1..Len(authnBy) /\ authnBy[id] = b

\* A request past ParseResponse answers one of its browser's tracked ids.
AcceptedTracked ==
    \A r \in Requests :
        req[r].pc \in {"continue", "complete"} => req[r].resp.to \in tracked[req[r].b]

IInv == TypeInv /\ TrackedStarted /\ AcceptedTracked /\ SessionBinding

USE ConstantsAssumption

\* Init establishes the inductive invariant.
LEMMA InitIInv == Init => IInv
<1> SUFFICES ASSUME Init PROVE IInv
  OBVIOUS
<1>1. TypeOK
  <2>1. \A f \in FlowIds : flows[f] \in Flow
    <3>1. <<"form">> \in Seq(NodeKinds)
      BY DEF NodeKinds
    <3>2. InitFlow \subseteq Flow
      BY <3>1 DEF InitFlow, Flow
    <3>3. QED
      BY <3>2 DEF Init
  <2>2. IdleReq \in Req
    BY DEF IdleReq, Req, Pc
  <2>3. QED
    BY <2>1, <2>2 DEF Init, TypeOK
<1>2. ReqShape /\ TrackedStarted /\ AcceptedTracked /\ SessionBinding
  BY DEF Init, IdleReq, ReqShape, TrackedStarted, AcceptedTracked, SessionBinding
<1>3. QED
  BY <1>1, <1>2 DEF IInv, TypeInv

\* The responses Finish appends are writes.
LEMMA WritesAreWrites ==
    /\ NoFlowError \in Write
    /\ [by |-> "engine", flow |-> NoFlow] \in Write
    /\ \A f \in FlowIds : [by |-> "redirect", flow |-> f] \in Write
  BY DEF NoFlowError, Write


\* Finishing a request keeps the request table typed and leaves the other
\* requests as they were; the finished one holds nothing ReqShape and
\* AcceptedTracked constrain.
LEMMA FinishKeeps ==
    ASSUME TypeOK, ReqShape, AcceptedTracked,
           NEW r \in Requests, NEW pc \in {"done", "panic"},
           NEW ws \in Seq(Write), Finish(r, pc, ws), tracked' = tracked
    PROVE  /\ req' \in [Requests -> Req]
           /\ ReqShape' /\ AcceptedTracked'
<1>1. req' \in [Requests -> Req]
  <2>1. req[r].out \o ws \in Seq(Write)
    BY DEF TypeOK, Req
  <2>2. req'[r] \in Req
    <3> DEFINE q == req[r]
    <3>1. q \in Req
      BY DEF TypeOK
    <3>2. req'[r] = [pc |-> pc, b |-> Nil, resp |-> Nil, errParam |-> FALSE,
                     token |-> q.token, flow |-> q.flow, out |-> q.out \o ws]
      BY <3>1 DEF Finish, TypeOK, Req
    <3>3. QED
      BY <2>1, <3>1, <3>2 DEF Req, Pc
  <2>3. QED
    BY <2>2 DEF Finish, TypeOK
<1>2. ReqShape'
  BY DEF Finish, TypeOK, ReqShape
<1>3. AcceptedTracked'
  BY DEF Finish, TypeOK, AcceptedTracked
<1>4. QED
  BY <1>1, <1>2, <1>3


\* handleError returns a flow, and forwardError a write on the response.
LEMMA HandleErrorType ==
    ASSUME NEW fl \in Flow, NEW traits \in BOOLEAN, NEW schemaOk \in BOOLEAN,
           NEW f \in FlowIds
    PROVE  /\ HandleError(fl, traits, schemaOk) \in Flow
           /\ ForwardError(HandleError(fl, traits, schemaOk), f) \in Write
<1>1. <<"continue">> \o (IF traits /\ schemaOk THEN <<"trait">> ELSE <<>>)
        \in Seq(NodeKinds)
  <2>1. <<"continue">> \in Seq(NodeKinds) /\ <<"trait">> \in Seq(NodeKinds)
    BY DEF NodeKinds
  <2>2. (IF traits /\ schemaOk THEN <<"trait">> ELSE <<>>) \in Seq(NodeKinds)
    BY <2>1
  <2>3. QED
    BY <2>1, <2>2
<1>2. HandleError(fl, traits, schemaOk) \in Flow
  BY <1>1 DEF HandleError, Flow
<1>3. \A g \in Flow : ForwardError(g, f) \in Write
  BY DEF ForwardError, NoFlowError, Write
<1>4. QED
  BY <1>2, <1>3

\* Every step of the ACS model preserves the inductive invariant.
LEMMA NextIInv == IInv /\ [Next]_vars => IInv'
<1> SUFFICES ASSUME IInv, [Next]_vars PROVE IInv'
  OBVIOUS
<1>0. /\ TypeOK /\ ReqShape /\ TrackedStarted /\ AcceptedTracked
      /\ SessionBinding
  BY DEF IInv, TypeInv
<1>1. ASSUME NEW b \in Browsers, NEW f \in FlowIds, NEW t \in BOOLEAN,
             StartAuth(b, f, t)
      PROVE  IInv'
  <2> DEFINE id == Len(authnBy) + 1
  <2>1. /\ id \in AuthnIds
        /\ authnBy' \in Seq(Browsers) /\ Len(authnBy') = id
        /\ authnBy'[id] = b
        /\ \A i \in 1..Len(authnBy) : authnBy'[i] = authnBy[i]
    BY <1>0, <1>1 DEF StartAuth, TypeOK, AuthnIds
  <2>2. TypeOK'
    BY <1>0, <1>1, <2>1 DEF StartAuth, TypeOK, Token
  <2>3. TrackedStarted'
    BY <1>0, <1>1, <2>1 DEF StartAuth, TypeOK, TrackedStarted
  <2>4. ReqShape' /\ AcceptedTracked'
    BY <1>0, <1>1 DEF StartAuth, TypeOK, ReqShape, AcceptedTracked
  <2>5. SessionBinding'
    BY <1>0, <1>1, <2>1 DEF StartAuth, SessionBinding
  <2>6. QED
    BY <2>2, <2>3, <2>4, <2>5 DEF IInv, TypeInv
<1>2. ASSUME NEW id \in {0} \cup AuthnIds, NEW s \in Identities \cup {NoSubject},
             IdpRespond(id, s)
      PROVE  IInv'
  BY <1>0, <1>2 DEF IdpRespond, IInv, TypeInv, TypeOK, Response, ReqShape,
     TrackedStarted, AcceptedTracked, SessionBinding
<1>3. ASSUME NEW r \in Requests, NEW b \in Browsers,
             NEW resp \in issued \cup {Forged}, AcsParseFail(r, b, resp)
      PROVE  IInv'
  <2>1. <<[by |-> "engine", flow |-> NoFlow], NoFlowError>> \in Seq(Write)
    BY WritesAreWrites
  <2>2. /\ req' \in [Requests -> Req] /\ ReqShape' /\ AcceptedTracked'
    BY <1>0, <1>3, <2>1, FinishKeeps DEF AcsParseFail
  <2>3. QED
    BY <1>0, <1>3, <2>2 DEF AcsParseFail, IInv, TypeInv, TypeOK,
       TrackedStarted, SessionBinding
<1>4. ASSUME NEW r \in Requests, NEW b \in Browsers,
             NEW resp \in issued \cup {Forged},
             AcsProviderFail(r, b, resp) \/ AcsClaimsFail(r, b, resp)
      PROVE  IInv'
  <2>1. <<NoFlowError>> \in Seq(Write)
    BY WritesAreWrites
  <2>2. /\ req' \in [Requests -> Req] /\ ReqShape' /\ AcceptedTracked'
    BY <1>0, <1>4, <2>1, FinishKeeps DEF AcsProviderFail, AcsClaimsFail
  <2>3. QED
    BY <1>0, <1>4, <2>2 DEF AcsProviderFail, AcsClaimsFail, IInv, TypeInv,
       TypeOK, TrackedStarted, SessionBinding
<1>5. ASSUME NEW r \in Requests, NEW b \in Browsers,
             NEW resp \in issued \cup {Forged}, NEW e \in BOOLEAN,
             AcsClaimsOk(r, b, resp, e)
      PROVE  IInv'
  <2> DEFINE q == req[r]
  <2>1. /\ resp \in Response /\ resp.subject \in Identities
        /\ resp.to \in tracked[b]
    BY <1>0, <1>5 DEF AcsClaimsOk, ParseResponseOk, PossibleRequestIDs,
       AllowIDPInitiated, TypeOK
  <2>2. /\ q \in Req
        /\ req'[r] = [pc |-> "continue", b |-> b, resp |-> resp,
                      errParam |-> e, token |-> q.token, flow |-> q.flow,
                      out |-> q.out]
    <3>1. q \in Req
      BY <1>0 DEF TypeOK
    <3>2. req' = [req EXCEPT ![r].pc = "continue", ![r].b = b,
                             ![r].resp = resp, ![r].errParam = e]
      BY <1>5 DEF AcsClaimsOk
    <3>3. QED
      BY <1>0, <3>1, <3>2 DEF TypeOK, Req
  <2>3. /\ req' \in [Requests -> Req]
        /\ \A s \in Requests \ {r} : req'[s] = req[s]
    BY <1>0, <1>5, <2>1, <2>2 DEF AcsClaimsOk, TypeOK, Req, Pc
  <2>4. TypeOK'
    BY <1>0, <1>5, <2>3 DEF AcsClaimsOk, TypeOK
  <2>5. ReqShape' /\ AcceptedTracked'
    BY <1>0, <1>5, <2>1, <2>2, <2>3 DEF AcsClaimsOk, ReqShape, AcceptedTracked
  <2>6. QED
    BY <1>0, <1>5, <2>4, <2>5 DEF AcsClaimsOk, IInv, TypeInv,
       TrackedStarted, SessionBinding
<1>6. ASSUME NEW r \in Requests, AcsContinueFail(r)
      PROVE  IInv'
  <2>1. <<>> \in Seq(Write)
    OBVIOUS
  <2>2. /\ req' \in [Requests -> Req] /\ ReqShape' /\ AcceptedTracked'
    BY <1>0, <1>6, <2>1, FinishKeeps DEF AcsContinueFail
  <2>3. QED
    BY <1>0, <1>6, <2>2 DEF AcsContinueFail, IInv, TypeInv, TypeOK,
       TrackedStarted, SessionBinding
<1>7. ASSUME NEW r \in Requests, AcsContinue(r)
      PROVE  IInv'
  <2> DEFINE q == req[r]
             tok == continuity[q.b]
  <2>1. /\ q \in Req /\ q.pc = "continue"
        /\ q.b \in Browsers /\ q.resp \in Response
        /\ q.resp.subject \in Identities /\ q.resp.to \in tracked[q.b]
        /\ tok \in Token
    BY <1>0, <1>7 DEF AcsContinue, TypeOK, ReqShape, AcceptedTracked
  <2>2. req' = [req EXCEPT ![r].pc = "complete", ![r].token = tok,
                           ![r].flow = tok.flow]
    BY <1>7 DEF AcsContinue
  <2>3. req'[r] = [pc |-> "complete", b |-> q.b, resp |-> q.resp,
                   errParam |-> q.errParam, token |-> tok, flow |-> tok.flow,
                   out |-> q.out]
    BY <1>0, <2>1, <2>2 DEF TypeOK, Req
  <2>4. /\ req' \in [Requests -> Req]
        /\ \A s \in Requests \ {r} : req'[s] = req[s]
    BY <1>0, <2>1, <2>2, <2>3 DEF TypeOK, Req, Pc, Token
  <2>5. TypeOK'
    BY <1>0, <1>7, <2>1, <2>4 DEF AcsContinue, TypeOK
  <2>6. ReqShape' /\ AcceptedTracked'
    <3>1. tracked' = tracked
      BY <1>7 DEF AcsContinue
    <3>2. ReqShape'
      BY <1>0, <2>1, <2>3, <2>4 DEF ReqShape
    <3>3. AcceptedTracked'
      BY <1>0, <2>1, <2>3, <2>4, <3>1 DEF AcceptedTracked
    <3>4. QED
      BY <3>2, <3>3
  <2>7. QED
    BY <1>0, <1>7, <2>5, <2>6 DEF AcsContinue, IInv, TypeInv,
       TrackedStarted, SessionBinding
<1>8. ASSUME NEW r \in Requests, AcsFlowRejected(r)
       PROVE  IInv'
  <2>1. /\ req[r].b \in Browsers
        /\ continuity' \in [Browsers -> Token \cup {NoToken}]
    BY <1>0, <1>8 DEF AcsFlowRejected, ReqShape, TypeOK
  <2> DEFINE q == req[r]
              tok == continuity[req[r].b]
  <2>2. q \in Req /\ tok \in Token
    BY <1>0, <1>8, <2>1 DEF AcsFlowRejected, TypeOK
  <2>3. req'[r] = [pc |-> "panic", b |-> Nil, resp |-> Nil, errParam |-> FALSE,
                   token |-> tok, flow |-> q.flow, out |-> q.out]
    BY <1>0, <1>8, <2>2 DEF AcsFlowRejected, TypeOK, Req
  <2>4. /\ req' \in [Requests -> Req]
        /\ \A s \in Requests \ {r} : req'[s] = req[s]
    BY <1>0, <1>8, <2>2, <2>3 DEF AcsFlowRejected, TypeOK, Req, Pc
  <2>5. ReqShape' /\ AcceptedTracked'
    <3>1. tracked' = tracked
      BY <1>8 DEF AcsFlowRejected
    <3>2. ReqShape'
      BY <1>0, <2>3, <2>4 DEF ReqShape
    <3>3. AcceptedTracked'
      BY <1>0, <2>3, <2>4, <3>1 DEF AcceptedTracked
    <3>4. QED
      BY <3>2, <3>3
  <2>6. QED
    BY <1>0, <1>8, <2>1, <2>4, <2>5 DEF AcsFlowRejected, IInv, TypeInv, TypeOK,
       TrackedStarted, SessionBinding
<1>9. ASSUME NEW r \in Requests, AcsComplete(r)
      PROVE  IInv'
  <2> DEFINE q == req[r]
             c == [flow |-> q.flow, browser |-> q.b, authn |-> q.resp.to,
                   state |-> q.token.authn, subject |-> q.resp.subject]
  <2>1. /\ q \in Req /\ q.b \in Browsers /\ q.resp \in Response
        /\ q.resp.subject \in Identities /\ q.resp.to \in tracked[q.b]
        /\ q.token \in Token /\ q.flow = q.token.flow
    BY <1>0, <1>9 DEF AcsComplete, TypeOK, ReqShape, AcceptedTracked
  <2>2. c \in Completion
    BY <2>1 DEF Completion, Response, Token
  <2>3. c.authn \in 1..Len(authnBy) /\ authnBy[c.authn] = c.browser
    BY <1>0, <2>1 DEF TrackedStarted
  <2>4. completions' = completions \cup {c}
    BY <1>9 DEF AcsComplete
  <2>5. <<[by |-> "redirect", flow |-> q.flow]>> \in Seq(Write)
    BY <2>1, WritesAreWrites DEF Token
  <2>6. /\ req' \in [Requests -> Req] /\ ReqShape' /\ AcceptedTracked'
    BY <1>0, <1>9, <2>5, FinishKeeps DEF AcsComplete
  <2>7. session' \in [Browsers -> Identities \cup {NoSession}]
    BY <1>0, <1>9, <2>1 DEF AcsComplete, TypeOK
  <2>8. TypeOK'
    BY <1>0, <1>9, <2>2, <2>4, <2>6, <2>7 DEF AcsComplete, TypeOK
  <2>9. SessionBinding'
    BY <1>0, <1>9, <2>3, <2>4 DEF AcsComplete, SessionBinding
  <2>10. QED
    BY <1>0, <1>9, <2>6, <2>8, <2>9 DEF AcsComplete, IInv, TypeInv,
       TrackedStarted
<1>10. ASSUME NEW r \in Requests, AcsFlowError(r)
      PROVE  IInv'
  <2> DEFINE q == req[r]
  <2>1. q.pc = "complete" /\ q.token \in Token /\ q.flow = q.token.flow
    BY <1>0, <1>10 DEF AcsFlowError, ReqShape
  <2>2. PICK schemaOk \in BOOLEAN :
          LET fl == HandleError(flows[q.flow], q.token.traits, schemaOk) IN
          /\ flows' = [flows EXCEPT ![q.flow] = fl]
          /\ Finish(r, "done", <<ForwardError(fl, q.flow)>>)
    BY <1>10 DEF AcsFlowError
  <2> DEFINE fl == HandleError(flows[q.flow], q.token.traits, schemaOk)
  <2>3. fl \in Flow /\ ForwardError(fl, q.flow) \in Write
    BY <1>0, <2>1, HandleErrorType DEF TypeOK, Token
  <2>4. /\ req' \in [Requests -> Req] /\ ReqShape' /\ AcceptedTracked'
    <3>1. <<ForwardError(fl, q.flow)>> \in Seq(Write)
      BY <2>3
    <3>2. tracked' = tracked
      BY <1>10 DEF AcsFlowError
    <3>3. Finish(r, "done", <<ForwardError(fl, q.flow)>>)
      BY <2>2
    <3>4. QED
      BY <1>0, <3>1, <3>2, <3>3, FinishKeeps
  <2>5. flows' \in [FlowIds -> Flow]
    BY <1>0, <2>2, <2>3 DEF TypeOK
  <2>6. QED
    BY <1>0, <1>10, <2>4, <2>5 DEF AcsFlowError, IInv, TypeInv, TypeOK,
       TrackedStarted, SessionBinding
<1>11. ASSUME NEW f \in FlowIds, ExpireFlow(f)
       PROVE  IInv'
  <2>1. flows' \in [FlowIds -> Flow]
    BY <1>0, <1>11 DEF ExpireFlow, TypeOK, Flow
  <2>2. QED
    BY <1>0, <1>11, <2>1 DEF ExpireFlow, IInv, TypeInv, TypeOK, ReqShape,
       TrackedStarted, AcceptedTracked, SessionBinding
<1>12. ASSUME NEW b \in Browsers, NEW i \in Identities, OtherLogin(b, i)
       PROVE  IInv'
  BY <1>0, <1>12 DEF OtherLogin, IInv, TypeInv, TypeOK,
     ReqShape, TrackedStarted, AcceptedTracked, SessionBinding
<1>13. ASSUME NEW b \in Browsers, SessionEnds(b)
       PROVE  IInv'
  BY <1>0, <1>13 DEF SessionEnds, IInv, TypeInv, TypeOK,
     ReqShape, TrackedStarted, AcceptedTracked, SessionBinding
<1>14. CASE UNCHANGED vars
  BY <1>0, <1>14 DEF vars, IInv, TypeInv, TypeOK, ReqShape,
     TrackedStarted, AcceptedTracked, SessionBinding
<1>15. QED
  BY <1>1, <1>2, <1>3, <1>4, <1>5, <1>6, <1>7, <1>8, <1>9, <1>10, <1>11,
     <1>12, <1>13, <1>14 DEF Next

\* Sessions are bound to the browser that asked for them, for every number
\* of browsers, flows, identities and requests: a callback completes a flow
\* in browser b only with an assertion answering a request b started
\* (getAttributesFromAssertion checks InResponseTo against b's cookies).
THEOREM SessionBindingHolds == Spec => []SessionBinding
<1>1. Init => IInv
  BY InitIInv
<1>2. IInv /\ [Next]_vars => IInv'
  BY NextIInv
<1>3. IInv => SessionBinding
  BY DEF IInv
<1>4. QED
  BY <1>1, <1>2, <1>3, PTL DEF Spec

\* The ACS model is well typed: every handler step keeps flows, sessions,
\* containers, tracked ids and requests within their types.
THEOREM TypeCorrect == Spec => []TypeOK
<1>1. IInv => TypeOK
  BY DEF IInv, TypeInv
<1>2. QED
  BY <1>1, InitIInv, NextIInv, PTL DEF Spec

=============================================================================
