--------------------------- MODULE SamlAcs_nodes ----------------------------
(***************************************************************************)
(* Proof that handleError (strategy.go 119-150) leaves a failed           *)
(* registration flow with exactly one "continue" node and none of its old *)
(* form nodes, however many callbacks failed on it, for every number of    *)
(* browsers, flows, identities and requests.                                *)
(*                                                                         *)
(* RegistrationUIReset is not inductive by itself: it says nothing of a    *)
(* flow that still shows its form, and the next handleError must not       *)
(* append to what is there.  NodesShape names the three node lists a flow  *)
(* can hold: the form it was created with, and the two lists handleError   *)
(* builds, with and without the trait nodes.  handleError replaces the     *)
(* list rather than extending it, so the shape survives any number of      *)
(* failed callbacks; the counts then follow from the three lists.          *)
(***************************************************************************)
EXTENDS SamlAcs_proofs, FiniteSetTheorems, SequenceTheorems

\* The node lists a flow can hold.
NodeShapes == {<<"form">>, <<"continue">>, <<"continue", "trait">>}

NodesShape == \A f \in FlowIds : flows[f].nodes \in NodeShapes

NInv == IInv /\ NodesShape

\* The two lists handleError builds, written as concatenations in the model.
LEMMA ContinueLists ==
    /\ <<"continue">> \o <<"trait">> = <<"continue", "trait">>
    /\ <<"continue">> \o <<>> = <<"continue">>
<1>1. /\ <<"continue">> \in Seq(NodeKinds)
      /\ <<"trait">> \in Seq(NodeKinds)
      /\ <<"continue", "trait">> \in Seq(NodeKinds)
  BY DEF NodeKinds
<1>2. /\ <<"continue">> \o <<"trait">> \in Seq(NodeKinds)
      /\ Len(<<"continue">> \o <<"trait">>) = 2
      /\ \A i \in 1..2 : (<<"continue">> \o <<"trait">>)[i] =
                           IF i <= 1 THEN "continue" ELSE "trait"
  BY <1>1, ConcatProperties
<1> DEFINE ct == <<"continue">> \o <<"trait">>
<1>3. /\ Len(<<"continue", "trait">>) = 2
      /\ \A i \in 1..Len(ct) : ct[i] = <<"continue", "trait">>[i]
  BY <1>2
<1>4. ct = <<"continue", "trait">>
  BY <1>1, <1>2, <1>3, SeqEqual, Zenon
<1>5. <<"continue">> \o <<>> = <<"continue">>
  BY <1>1, ConcatEmptySeq
<1>6. QED
  BY <1>4, <1>5

\* handleError keeps a flow's kind and gives it one of the node lists.
LEMMA HandleErrorShape ==
    ASSUME NEW fl \in Flow, fl.nodes \in NodeShapes,
           NEW traits \in BOOLEAN, NEW schemaOk \in BOOLEAN
    PROVE  /\ HandleError(fl, traits, schemaOk).kind = fl.kind
           /\ HandleError(fl, traits, schemaOk).nodes \in NodeShapes
<1>1. CASE fl.kind = "registration" /\ traits /\ schemaOk
  BY <1>1, ContinueLists DEF HandleError, Flow, NodeShapes
<1>2. CASE fl.kind = "registration" /\ ~(traits /\ schemaOk)
  BY <1>2, ContinueLists DEF HandleError, Flow, NodeShapes
<1>3. CASE fl.kind # "registration"
  BY <1>3 DEF HandleError
<1>4. QED
  BY <1>1, <1>2, <1>3

\* How many "continue" and "form" nodes each list holds.
LEMMA CountShapes ==
    /\ CountOf(<<"form">>, "continue") = 0
    /\ CountOf(<<"continue">>, "continue") = 1
    /\ CountOf(<<"continue">>, "form") = 0
    /\ CountOf(<<"continue", "trait">>, "continue") = 1
    /\ CountOf(<<"continue", "trait">>, "form") = 0
<1>1. /\ {i \in 1..Len(<<"form">>) : <<"form">>[i] = "continue"} = {}
      /\ {i \in 1..Len(<<"continue">>) : <<"continue">>[i] = "form"} = {}
      /\ {i \in 1..Len(<<"continue", "trait">>) :
            <<"continue", "trait">>[i] = "form"} = {}
  OBVIOUS
<1>2. /\ {i \in 1..Len(<<"continue">>) : <<"continue">>[i] = "continue"} = {1}
      /\ {i \in 1..Len(<<"continue", "trait">>) :
            <<"continue", "trait">>[i] = "continue"} = {1}
  OBVIOUS
<1>3. QED
  BY <1>1, <1>2, FS_EmptySet, FS_Singleton DEF CountOf

\* Only AcsFlowError and ExpireFlow write the flow persisters.
LEMMA FlowWriters ==
    ASSUME [Next]_vars
    PROVE  \/ \E r \in Requests : AcsFlowError(r)
           \/ \E f \in FlowIds : ExpireFlow(f)
           \/ flows' = flows
<1>1. ASSUME NEW b \in Browsers, NEW f \in FlowIds, NEW t \in BOOLEAN,
             StartAuth(b, f, t)
      PROVE  flows' = flows
  BY <1>1 DEF StartAuth
<1>2. ASSUME NEW id, NEW s, IdpRespond(id, s) PROVE flows' = flows
  BY <1>2 DEF IdpRespond
<1>3. ASSUME NEW r \in Requests, NEW b \in Browsers, NEW resp,
             \/ AcsParseFail(r, b, resp) \/ AcsProviderFail(r, b, resp)
             \/ AcsClaimsFail(r, b, resp)
             \/ \E e \in BOOLEAN : AcsClaimsOk(r, b, resp, e)
      PROVE  flows' = flows
  BY <1>3 DEF AcsParseFail, AcsProviderFail, AcsClaimsFail, AcsClaimsOk
<1>4. ASSUME NEW r \in Requests,
             AcsContinueFail(r) \/ AcsContinue(r) \/ AcsFlowRejected(r)
             \/ AcsComplete(r)
      PROVE  flows' = flows
  BY <1>4 DEF AcsContinueFail, AcsContinue, AcsFlowRejected, AcsComplete
<1>5. ASSUME NEW b \in Browsers, SessionEnds(b) \/ \E i \in Identities : OtherLogin(b, i)
      PROVE  flows' = flows
  BY <1>5 DEF SessionEnds, OtherLogin
<1>6. CASE UNCHANGED vars
  BY <1>6 DEF vars
<1>7. QED
  BY <1>1, <1>2, <1>3, <1>4, <1>5, <1>6 DEF Next

LEMMA InitNInv == Init => NInv
<1> SUFFICES ASSUME Init PROVE NInv
  OBVIOUS
<1>1. NodesShape
  BY DEF Init, InitFlow, NodesShape, NodeShapes
<1>2. QED
  BY <1>1, InitIInv DEF NInv

\* No step gives a flow a node list of another shape.
LEMMA NextNInv == NInv /\ [Next]_vars => NInv'
<1> SUFFICES ASSUME NInv, [Next]_vars PROVE NInv'
  OBVIOUS
<1>0. TypeOK /\ ReqShape /\ NodesShape
  BY DEF NInv, IInv, TypeInv
<1>1. IInv'
  BY NextIInv DEF NInv
<1>2. CASE \E r \in Requests : AcsFlowError(r)
  <2>1. PICK r \in Requests : AcsFlowError(r)
    BY <1>2
  <2> DEFINE f == req[r].flow
  <2>2. req[r].pc = "complete"
    BY <2>1 DEF AcsFlowError
  <2>3. f \in FlowIds /\ req[r].token.traits \in BOOLEAN
    BY <1>0, <2>2 DEF ReqShape, Token
  <2>4. PICK schemaOk \in BOOLEAN :
          flows' = [flows EXCEPT ![f] =
                      HandleError(flows[f], req[r].token.traits, schemaOk)]
    BY <2>1 DEF AcsFlowError
  <2>5. flows[f] \in Flow /\ flows[f].nodes \in NodeShapes
    BY <1>0, <2>3 DEF TypeOK, NodesShape
  <2>6. HandleError(flows[f], req[r].token.traits, schemaOk).nodes \in NodeShapes
    BY <2>3, <2>5, HandleErrorShape
  <2>7. NodesShape'
    BY <1>0, <2>3, <2>4, <2>6 DEF TypeOK, NodesShape
  <2>8. QED
    BY <1>1, <2>7 DEF NInv
<1>3. CASE \E f \in FlowIds : ExpireFlow(f)
  <2>1. NodesShape'
    BY <1>0, <1>3 DEF ExpireFlow, TypeOK, NodesShape, Flow
  <2>2. QED
    BY <1>1, <2>1 DEF NInv
<1>4. CASE flows' = flows
  BY <1>0, <1>1, <1>4 DEF NInv, NodesShape
<1>5. QED
  BY <1>2, <1>3, <1>4, FlowWriters

\* Theorem (handleError, strategy.go 119-150; the property RegistrationUIReset
\* that acs_safety checks): for every number of browsers, flows, identities
\* and requests, a registration flow that shows a "continue" node shows
\* exactly one and none of its former form nodes.
THEOREM RegistrationUIResetHolds == Spec => []RegistrationUIReset
<1>1. NInv => RegistrationUIReset
  <2> SUFFICES ASSUME NInv, NEW f \in FlowIds
               PROVE  CountOf(flows[f].nodes, "continue") > 0
                        => /\ CountOf(flows[f].nodes, "continue") = 1
                           /\ CountOf(flows[f].nodes, "form") = 0
    BY DEF RegistrationUIReset
  <2>1. flows[f].nodes \in NodeShapes
    BY DEF NInv, NodesShape
  <2>2. QED
    BY <2>1, CountShapes DEF NodeShapes
<1>2. QED
  BY <1>1, InitNInv, NextNInv, PTL DEF Spec
=============================================================================
