------------------------------ MODULE SamlAcs ------------------------------
(***************************************************************************)
(* The SAML assertion consumer service (ACS) of the SAML strategy,         *)
(* selfservice/strategy/saml/strategy/strategy.go: handleCallback and what *)
(* it calls (getAttributesFromAssertion, provider, Config, validateCallback,*)
(* validateFlow, handleError, forwardError), together with the browser-side *)
(* steps that make a callback possible: starting an authentication         *)
(* (loginWithIdp), the identity provider answering it, and the browser     *)
(* POSTing that answer, possibly twice or into another browser.            *)
(*                                                                         *)
(* Every POST is a request with its own program counter, so callbacks of   *)
(* one or several browsers interleave with each other and with flows       *)
(* expiring and sessions starting or ending.  Whether the strategy         *)
(* configuration decodes is fixed for a run.                               *)
(*                                                                         *)
(* processLoginOrRegister and the continuity manager are not under src/:   *)
(* they are modelled from spec.md (sections 4.2, 4.5 and 4.6).             *)
(***************************************************************************)
EXTENDS Naturals, Sequences, FiniteSets

CONSTANTS
    Browsers,     \* browser contexts (cookie jars)
    FlowIds,      \* ids of the flows the three flow persisters hold
    Identities,   \* identities, which are also the subjects of assertions
    Requests,     \* POSTs to the ACS endpoint
    MaxAuthn,     \* bound on the authentication requests started
    NoSession,    \* FetchFromRequest finds no active session
    NoToken,      \* no continuity container in the browser
    NoFlow,       \* forwardError called with a nil flow
    NoSubject,    \* an assertion whose claims cannot be mapped
    Forged,       \* a SAML response whose signature does not verify
    NoOwner,      \* the identity of a login or registration flow
    Nil           \* a field of a request that has not arrived yet

ASSUME ConstantsAssumption ==
    /\ MaxAuthn \in Nat
    /\ Browsers # {} /\ FlowIds # {} /\ Identities # {}
    /\ NoSubject \notin Identities /\ NoSession \notin Identities

(***************************************************************************)
(* Data.  An authentication request is numbered by the order it was       *)
(* started in; 0 is the empty request id of an IdP-initiated response.     *)
(***************************************************************************)
Kinds == {"login", "registration", "settings"}
AuthnIds == 1..MaxAuthn
NodeKinds == {"form", "continue", "trait"}

\* A flow as its persister holds it: kind is the persister it lives in.
\* Only a settings flow belongs to an identity.
Flow == [kind : Kinds, type : {"browser", "api"}, expired : BOOLEAN,
         owner : Identities \cup {NoOwner}, nodes : Seq(NodeKinds)]

InitFlow ==
    {fl \in [kind : Kinds, type : {"browser", "api"}, expired : {FALSE},
             owner : Identities \cup {NoOwner}, nodes : {<<"form">>}] :
        (fl.kind = "settings") = (fl.owner # NoOwner)}

\* authCodeContainer: the flow id, the correlation state and staged traits.
Token == [authn : AuthnIds, flow : FlowIds, traits : BOOLEAN]

Response == [to : {0} \cup AuthnIds, subject : Identities \cup {NoSubject}]

\* One response written on the ResponseWriter, and by whom.
Write == [by : {"engine", "login", "registration", "redirect"},
          flow : FlowIds \cup {NoFlow}]

Pc == {"idle", "continue", "complete", "done", "panic"}

Req == [pc : Pc, b : Browsers \cup {Nil}, resp : Response \cup {Forged, Nil},
        errParam : BOOLEAN, token : Token \cup {NoToken},
        flow : FlowIds \cup {NoFlow}, out : Seq(Write)]

\* A flow completed by a callback: which browser, which authentication
\* request the assertion answered, which one the token was stored for.
Completion == [flow : FlowIds, browser : Browsers, authn : {0} \cup AuthnIds,
               state : AuthnIds, subject : Identities]

IdleReq == [pc |-> "idle", b |-> Nil, resp |-> Nil, errParam |-> FALSE,
            token |-> NoToken, flow |-> NoFlow, out |-> <<>>]

VARIABLES
    flows,        \* flows[f]: the flow with id f in its persister
    session,      \* session[b]: the identity of b's active session
    continuity,   \* continuity[b]: b's continuity container
    tracked,      \* tracked[b]: ids of b's tracked authentication requests
    authnBy,      \* authnBy[i]: the browser that started request i
    issued,       \* the responses the identity provider has issued
    configOk,     \* the SAML strategy configuration decodes (fixed per run)
    req,          \* req[r]: the state of ACS request r
    completions   \* history: the flows the callbacks completed

vars == <<flows, session, continuity, tracked, authnBy, issued, configOk,
          req, completions>>

TypeOK ==
    /\ flows \in [FlowIds -> Flow]
    /\ session \in [Browsers -> Identities \cup {NoSession}]
    /\ continuity \in [Browsers -> Token \cup {NoToken}]
    /\ tracked \in [Browsers -> SUBSET AuthnIds]
    /\ authnBy \in Seq(Browsers) /\ Len(authnBy) <= MaxAuthn
    /\ issued \subseteq Response
    /\ configOk \in BOOLEAN
    /\ req \in [Requests -> Req]
    /\ completions \subseteq Completion

Init ==
    /\ flows \in [FlowIds -> InitFlow]
    /\ session = [b \in Browsers |-> NoSession]
    /\ continuity = [b \in Browsers |-> NoToken]
    /\ tracked = [b \in Browsers |-> {}]
    /\ authnBy = <<>>
    /\ issued = {}
    /\ configOk \in BOOLEAN
    /\ req = [r \in Requests |-> IdleReq]
    /\ completions = {}

(***************************************************************************)
(* Starting an authentication, and the identity provider answering.        *)
(***************************************************************************)

\* loginWithIdp: when FetchFromRequest reports no active session it calls
\* HandleStartAuthFlow, which tracks the new authentication request in a
\* cookie of the browser.  The continuity container naming the flow, the
\* request as correlation state and the staged traits is stored with it
\* (spec 4.2; that code is not under src/).
StartAuth(b, f, t) ==
    /\ session[b] = NoSession
    /\ Len(authnBy) < MaxAuthn
    /\ LET id == Len(authnBy) + 1 IN
         /\ authnBy' = Append(authnBy, b)
         /\ tracked' = [tracked EXCEPT ![b] = @ \cup {id}]
         /\ continuity' = [continuity EXCEPT
                             ![b] = [authn |-> id, flow |-> f, traits |-> t]]
    /\ UNCHANGED <<flows, session, issued, configOk, req, completions>>

\* The identity provider answers a started request once, for the subject
\* that signed in there, or sends one unsolicited (IdP-initiated) response
\* with the empty request id.
IdpRespond(id, s) ==
    /\ id \in {0} \cup 1..Len(authnBy)
    /\ \A resp \in issued : resp.to # id
    /\ issued' = issued \cup {[to |-> id, subject |-> s]}
    /\ UNCHANGED <<flows, session, continuity, tracked, authnBy, configOk,
                   req, completions>>

(***************************************************************************)
(* handleCallback.  A POST brings the browser it comes from, a response    *)
(* (any the IdP issued, also one issued for another browser: a replay, or  *)
(* a form auto-submitted into the browser by another site; or a forged    *)
(* one) and possibly an error query parameter.  Attribute extraction,      *)
(* provider and claims only read the request and the configuration, so    *)
(* they are one step with the POST's arrival.                              *)
(***************************************************************************)

\* Mutant: IdP-initiated responses accepted.
AllowIDPInitiatedMutant == TRUE

\* instantiateMiddleware passes no AllowIDPInitiated option to samlsp.New.
AllowIDPInitiated == FALSE

\* possibleRequestIDs: the empty id when IdP-initiated responses are
\* allowed, then the ids of the requests tracked in the browser's cookies.
PossibleRequestIDs(b) ==
    (IF AllowIDPInitiated THEN {0} ELSE {}) \cup tracked[b]

\* ParseResponse: the signature verifies and the response answers one of
\* the possible request ids.
ParseResponseOk(b, resp) ==
    resp # Forged /\ resp.to \in PossibleRequestIDs(b)

\* Request r ends in pc after writing the responses ws; what it no longer
\* needs is cleared.
Finish(r, pc, ws) ==
    req' = [req EXCEPT ![r].pc = pc, ![r].b = Nil, ![r].resp = Nil,
                       ![r].errParam = FALSE, ![r].out = @ \o ws]

\* The login error handler's WriteFlowError with a nil flow.
NoFlowError == [by |-> "login", flow |-> NoFlow]

\* ParseResponse fails: getAttributesFromAssertion reports the error through
\* the engine's OnError and returns it, and handleCallback forwards it again.
AcsParseFail(r, b, resp) ==
    /\ req[r].pc = "idle"
    /\ ~ParseResponseOk(b, resp)
    /\ Finish(r, "done", <<[by |-> "engine", flow |-> NoFlow], NoFlowError>>)
    /\ UNCHANGED <<flows, session, continuity, tracked, authnBy, issued,
                   configOk, completions>>

\* provider: Config cannot decode the strategy configuration.
AcsProviderFail(r, b, resp) ==
    /\ req[r].pc = "idle"
    /\ ParseResponseOk(b, resp)
    /\ ~configOk
    /\ Finish(r, "done", <<NoFlowError>>)
    /\ UNCHANGED <<flows, session, continuity, tracked, authnBy, issued,
                   configOk, completions>>

\* provider.Claims cannot map the attributes of the assertion.
AcsClaimsFail(r, b, resp) ==
    /\ req[r].pc = "idle"
    /\ ParseResponseOk(b, resp)
    /\ configOk
    /\ resp.subject = NoSubject
    /\ Finish(r, "done", <<NoFlowError>>)
    /\ UNCHANGED <<flows, session, continuity, tracked, authnBy, issued,
                   configOk, completions>>

\* Mutant: the error of provider.Claims is not checked.
AcsClaimsOkMutant(r, b, resp, e) ==
    /\ req[r].pc = "idle"
    /\ ParseResponseOk(b, resp)
    /\ configOk
    /\ req' = [req EXCEPT ![r].pc = "continue", ![r].b = b, ![r].resp = resp,
                          ![r].errParam = e]
    /\ UNCHANGED <<flows, session, continuity, tracked, authnBy, issued,
                   configOk, completions>>

\* Attributes extracted and claims mapped: on to processLoginOrRegister.
AcsClaimsOk(r, b, resp, e) ==
    /\ req[r].pc = "idle"
    /\ ParseResponseOk(b, resp)
    /\ configOk
    /\ resp.subject \in Identities
    /\ req' = [req EXCEPT ![r].pc = "continue", ![r].b = b, ![r].resp = resp,
                          ![r].errParam = e]
    /\ UNCHANGED <<flows, session, continuity, tracked, authnBy, issued,
                   configOk, completions>>

\* validateCallback: the continuity manager finds no container, so the
\* error comes back without a flow, and handleCallback dereferences that
\* nil flow (line 228): the request panics.
AcsContinueFail(r) ==
    /\ req[r].pc = "continue"
    /\ continuity[req[r].b] = NoToken
    /\ Finish(r, "panic", <<>>)
    /\ UNCHANGED <<flows, session, continuity, tracked, authnBy, issued,
                   configOk, completions>>

\* validateFlow: the registration, login and settings persisters are probed
\* for the id; the flow found must be a browser flow, a settings flow needs
\* an active session, and Valid rejects an expired flow and, for settings,
\* a session of another identity.
FlowUsable(b, f) ==
    LET fl == flows[f] IN
    /\ fl.type = "browser"
    /\ fl.kind = "settings" => session[b] # NoSession
    /\ ~fl.expired
    /\ fl.kind = "settings" => session[b] = fl.owner

\* validateCallback: Continue hands over the container and invalidates it,
\* validateFlow accepts the flow it names, then the error query parameter
\* is looked at; its error comes back with the flow.
AcsContinue(r) ==
    /\ req[r].pc = "continue"
    /\ continuity[req[r].b] # NoToken
    /\ FlowUsable(req[r].b, continuity[req[r].b].flow)
    /\ LET tok == continuity[req[r].b] IN
         /\ req' = [req EXCEPT ![r].pc = "complete", ![r].token = tok,
                               ![r].flow = tok.flow]
         /\ continuity' = [continuity EXCEPT ![req[r].b] = NoToken]
    /\ UNCHANGED <<flows, session, tracked, authnBy, issued, configOk,
                   completions>>

\* validateCallback: Continue hands over the container and invalidates it,
\* but validateFlow rejects its flow; the error comes back without the flow
\* (line 342), so no flow reaches handleCallback and line 228 dereferences
\* nil: the request panics.
AcsFlowRejected(r) ==
    /\ req[r].pc = "continue"
    /\ continuity[req[r].b] # NoToken
    /\ ~FlowUsable(req[r].b, continuity[req[r].b].flow)
    /\ continuity' = [continuity EXCEPT ![req[r].b] = NoToken]
    /\ req' = [req EXCEPT ![r].pc = "panic", ![r].b = Nil, ![r].resp = Nil,
                          ![r].errParam = FALSE,
                          ![r].token = continuity[req[r].b]]
    /\ UNCHANGED <<flows, session, tracked, authnBy, issued, configOk,
                   completions>>

\* processLoginOrRegister completes the flow (spec 4.5): a login or a
\* registration issues a session for the subject to the browser, a settings
\* flow updates the identity; the browser is redirected.
AcsComplete(r) ==
    /\ req[r].pc = "complete"
    /\ ~req[r].errParam
    /\ LET b == req[r].b
           f == req[r].flow
           s == req[r].resp.subject IN
         /\ session' = IF flows[f].kind = "settings" THEN session
                       ELSE [session EXCEPT ![b] = s]
         /\ completions' = completions \cup
              {[flow |-> f, browser |-> b, authn |-> req[r].resp.to,
                state |-> req[r].token.authn, subject |-> s]}
         /\ Finish(r, "done", <<[by |-> "redirect", flow |-> f]>>)
    /\ UNCHANGED <<flows, continuity, tracked, authnBy, issued, configOk>>

\* Mutant: the registration nodes are not reset before "continue" is added.
HandleErrorMutant(fl, traits, schemaOk) ==
    IF fl.kind = "registration"
    THEN [fl EXCEPT !.nodes = @ \o <<"continue">> \o
                              (IF traits /\ schemaOk THEN <<"trait">> ELSE <<>>)]
    ELSE fl

\* handleError: a registration flow loses its nodes, gets the CSRF token and
\* one "continue" node; when traits were staged the trait nodes of the
\* identity schema are appended, unless NodesFromJSONSchema fails.  Login
\* and settings flows are returned as they are.
HandleError(fl, traits, schemaOk) ==
    IF fl.kind = "registration"
    THEN [fl EXCEPT !.nodes = <<"continue">> \o
                              (IF traits /\ schemaOk THEN <<"trait">> ELSE <<>>)]
    ELSE fl

\* forwardError: the login and the registration error handlers render the
\* error on their flow; any other flow goes to the login handler as nil.
ForwardError(fl, f) ==
    CASE fl.kind = "login"        -> [by |-> "login", flow |-> f]
      [] fl.kind = "registration" -> [by |-> "registration", flow |-> f]
      [] OTHER                    -> NoFlowError

\* The IdP reported an error, or completing the flow fails:
\* processLoginOrRegister returns the error of handleError with the flow,
\* handleCallback forwards it (lines 223-226), and the error handler stores
\* the flow's new nodes.
AcsFlowError(r) ==
    /\ req[r].pc = "complete"
    /\ \E schemaOk \in BOOLEAN :
         LET f == req[r].flow
             fl == HandleError(flows[f], req[r].token.traits, schemaOk) IN
         /\ flows' = [flows EXCEPT ![f] = fl]
         /\ Finish(r, "done", <<ForwardError(fl, f)>>)
    /\ UNCHANGED <<session, continuity, tracked, authnBy, issued, configOk,
                   completions>>

(***************************************************************************)
(* The rest of the system: flows expire, sessions end or are created by    *)
(* another method.                                                          *)
(***************************************************************************)
ExpireFlow(f) ==
    /\ ~flows[f].expired
    /\ flows' = [flows EXCEPT ![f].expired = TRUE]
    /\ UNCHANGED <<session, continuity, tracked, authnBy, issued, configOk,
                   req, completions>>

SessionEnds(b) ==
    /\ session[b] # NoSession
    /\ session' = [session EXCEPT ![b] = NoSession]
    /\ UNCHANGED <<flows, continuity, tracked, authnBy, issued, configOk,
                   req, completions>>

OtherLogin(b, i) ==
    /\ session[b] = NoSession
    /\ session' = [session EXCEPT ![b] = i]
    /\ UNCHANGED <<flows, continuity, tracked, authnBy, issued, configOk,
                   req, completions>>

Next ==
    \/ \E b \in Browsers, f \in FlowIds, t \in BOOLEAN : StartAuth(b, f, t)
    \/ \E id \in {0} \cup AuthnIds, s \in Identities \cup {NoSubject} :
         IdpRespond(id, s)
    \/ \E r \in Requests :
         \/ \E b \in Browsers, resp \in issued \cup {Forged} :
              \/ AcsParseFail(r, b, resp)
              \/ AcsProviderFail(r, b, resp)
              \/ AcsClaimsFail(r, b, resp)
              \/ \E e \in BOOLEAN : AcsClaimsOk(r, b, resp, e)
         \/ AcsContinueFail(r) \/ AcsContinue(r) \/ AcsFlowRejected(r)
         \/ AcsComplete(r) \/ AcsFlowError(r)
    \/ \E f \in FlowIds : ExpireFlow(f)
    \/ \E b \in Browsers : SessionEnds(b)
    \/ \E b \in Browsers, i \in Identities : OtherLogin(b, i)

Spec == Init /\ [][Next]_vars

(***************************************************************************)
(* Properties.                                                             *)
(***************************************************************************)

\* Sessions are bound to the browser that asked for them: every flow a
\* callback completes for browser b was completed with an assertion that
\* answers an authentication request b itself started.  A response posted
\* into b from elsewhere (login CSRF) must fail ParseResponse against b's
\* tracked requests.
SessionBinding ==
    \A c \in completions :
        c.authn \in 1..Len(authnBy) /\ authnBy[c.authn] = c.browser

\* The number of nodes of kind k in the sequence s.
CountOf(s, k) == Cardinality({i \in 1..Len(s) : s[i] = k})

\* handleError leaves a registration flow with exactly one "continue" node
\* and none of the nodes it showed before, however many callbacks failed.
RegistrationUIReset ==
    \A f \in FlowIds :
        flows[f].kind = "registration" /\ CountOf(flows[f].nodes, "continue") > 0
          => /\ CountOf(flows[f].nodes, "continue") = 1
             /\ CountOf(flows[f].nodes, "form") = 0

\* Who is logged in with what, as spec 3 and 4.3 promise it: the browser
\* that started each authentication, and per browser the authentications
\* its completed flows answer.
BB == INSTANCE BrowserBinding
        WITH startedBy <- authnBy,
             bound <- [b \in Browsers |->
                         {c.authn : c \in {d \in completions : d.browser = b}}]

\* handleCallback completes a flow for a browser only with an assertion
\* that answers an authentication this browser started (checked against
\* its tracked request ids), and StartAuth only ever appends to the record
\* of who started what.
BindingRefined == BB!Spec

\* Spec 7: every error reaches the user through the error responder; no
\* callback ends in a panic.
NoPanic == \A r \in Requests : req[r].pc # "panic"

\* Spec 3 and 8: the continuity container correlates the callback with the
\* authentication request it started, so the flow a callback completes is
\* the one the assertion's authentication request was started for.
AssertionMatchesFlow == \A c \in completions : c.authn = c.state

\* Spec 4.5 and 7: once the flow is resolved, an error is rendered on that
\* flow by its own type's error handler.
ErrorOnOwnFlow ==
    \A r \in Requests :
        req[r].pc = "done" /\ req[r].flow # NoFlow =>
            \E i \in DOMAIN req[r].out : req[r].out[i].flow = req[r].flow
=============================================================================
