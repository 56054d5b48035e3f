---------------------------- MODULE SamlHandler ----------------------------
(***************************************************************************)
(* The eager SAML flow handler of selfservice/flow/saml/handler.go.        *)
(* NewHandler builds the samlsp middleware once, when the process starts,  *)
(* and panics if that fails; the three routes then call the middleware     *)
(* directly: metadata, loginWithIdp (GET browser) and serveAcs (POST acs). *)
(*                                                                         *)
(* The handler keeps no mutable state of its own.  What requests share is  *)
(* the browser: HandleStartAuthFlow tracks a request id in a cookie, and   *)
(* CreateSessionFromAssertion stops tracking it and sets the session       *)
(* cookie.  A request carries the cookies its browser held when it was    *)
(* sent, and the cookies it sets reach the browser with its response, so   *)
(* a request is an arrival (the snapshot) and one handler step.            *)
(*                                                                         *)
(* samlsp (ParseResponse, CreateSessionFromAssertion, OnError) is not in   *)
(* this repository; it is the engine of spec 3: a response parses when    *)
(* its InResponseTo is one of the possible request ids, OnError writes     *)
(* 403 Forbidden, and a session is created from the assertion.             *)
(***************************************************************************)
EXTENDS Naturals, Sequences, FiniteSets

CONSTANTS
    Browsers,     \* the user agents
    Threads,      \* the HTTP requests, each handled once by a goroutine
    MaxAuthn,     \* bound on authentications started
    MaxRestarts,  \* bound on process restarts
    Nil           \* an unset field

ASSUME ConstantsAssumption ==
    MaxAuthn \in Nat /\ MaxRestarts \in Nat /\ Nil \notin Browsers

\* Authentications are numbered in the order they start.  InResponseTo 0
\* is an unsolicited response: IdP-initiated, or one carried from elsewhere.
Authn == 1..MaxAuthn
InResponseTo == 0..MaxAuthn

Kinds == {"metadata", "login", "acs"}

\* What FetchFromRequest reports to loginWithIdp.
SessionStates == {"none", "error", "active"}

\* What a request writes: the metadata document, the redirect to the IdP,
\* the redirect to the return URL, OnError's 403, the redirect that carries
\* the new samlsp session cookie.
Outputs == {"metadata", "startauth", "redirect", "error", "session"}

\* "panic": a nil dereference; "killed": lost in a restart.
Pc == {"idle", "serve", "done", "panic", "killed"}

Thr == [kind : Kinds \cup {Nil}, pc : Pc, b : Browsers \cup {Nil},
        sess : SessionStates \cup {Nil}, to : InResponseTo,
        cookies : SUBSET Authn, out : Seq(Outputs)]

IdleThr == [kind |-> Nil, pc |-> "idle", b |-> Nil, sess |-> Nil, to |-> 0,
            cookies |-> {}, out |-> <<>>]

VARIABLES
    phase,    \* "boot": NewHandler runs; "up": serving; "down": it panicked
    restarts, \* process restarts so far
    authnBy,  \* authnBy[a]: the browser that started authentication a
    tracked,  \* tracked[b]: the request ids in b's tracking cookies
    issued,   \* the InResponseTo values of the responses the IdP issued
    samlSess, \* samlSess[b]: the authentications whose assertion made a
              \* session cookie in b
    thr       \* thr[t]: the state of request t

vars == <<phase, restarts, authnBy, tracked, issued, samlSess, thr>>

TypeOK ==
    /\ phase \in {"boot", "up", "down"}
    /\ restarts \in 0..MaxRestarts
    /\ authnBy \in Seq(Browsers) /\ Len(authnBy) <= MaxAuthn
    /\ tracked \in [Browsers -> SUBSET Authn]
    /\ issued \in SUBSET InResponseTo
    /\ samlSess \in [Browsers -> SUBSET InResponseTo]
    /\ thr \in [Threads -> Thr]

Init ==
    /\ phase = "boot"
    /\ restarts = 0
    /\ authnBy = <<>>
    /\ tracked = [b \in Browsers |-> {}]
    /\ issued = {0}
    /\ samlSess = [b \in Browsers |-> {}]
    /\ thr = [t \in Threads |-> IdleThr]

\* Request t ends at pc having written os.
Finish(t, pc, os) == thr' = [thr EXCEPT ![t].pc = pc, ![t].out = os]

(***************************************************************************)
(* NewHandler.                                                             *)
(***************************************************************************)

\* instantiateMiddleware succeeds: the key pair loads, the IdP metadata is
\* fetched, samlsp.New builds the middleware and its ACS URL is set.
BootOk ==
    /\ phase = "boot"
    /\ phase' = "up"
    /\ UNCHANGED <<restarts, authnBy, tracked, issued, samlSess, thr>>

\* One of those steps fails: NewHandler panics and the process exits.
BootFail ==
    /\ phase = "boot"
    /\ phase' = "down"
    /\ UNCHANGED <<restarts, authnBy, tracked, issued, samlSess, thr>>

(***************************************************************************)
(* Requests.                                                               *)
(***************************************************************************)

\* A request reaches one of the routes RegisterPublicRoutes registers.  A
\* login request brings what FetchFromRequest will find, a POST to the ACS
\* an issued response, and both carry the browser's tracking cookies.
Arrive(t, k, b, s, to) ==
    /\ phase = "up"
    /\ thr[t].pc = "idle"
    /\ (k = "login") = (s # Nil)
    /\ to \in issued /\ (k = "acs" \/ to = 0)
    /\ thr' = [thr EXCEPT ![t] = [kind |-> k, pc |-> "serve", b |-> b,
                 sess |-> s, to |-> to, out |-> <<>>,
                 cookies |-> IF k = "acs" THEN tracked[b] ELSE {}]]
    /\ UNCHANGED <<phase, restarts, authnBy, tracked, issued, samlSess>>

\* The request t is being served as a kind k request.
Serving(t, k) == thr[t].pc = "serve" /\ thr[t].kind = k

\* submitMetadata: ServeMetadata.
SubmitMetadata(t) ==
    /\ phase = "up"
    /\ Serving(t, "metadata")
    /\ Finish(t, "done", <<"metadata">>)
    /\ UNCHANGED <<phase, restarts, authnBy, tracked, issued, samlSess>>

\* loginWithIdp, ErrNoActiveSessionFound: HandleStartAuthFlow redirects to
\* the IdP and tracks the new request id in the browser; then the
\* unconditional OnError writes 403 with that error.
LoginNoSession(t) ==
    /\ phase = "up"
    /\ Serving(t, "login")
    /\ thr[t].sess = "none"
    /\ Len(authnBy) < MaxAuthn
    /\ authnBy' = Append(authnBy, thr[t].b)
    /\ tracked' = [tracked EXCEPT ![thr[t].b] = @ \cup {Len(authnBy')}]
    /\ Finish(t, "done", <<"startauth", "error">>)
    /\ UNCHANGED <<phase, restarts, issued, samlSess>>

\* loginWithIdp, another error: only the OnError after the if.
LoginError(t) ==
    /\ phase = "up"
    /\ Serving(t, "login")
    /\ thr[t].sess = "error"
    /\ Finish(t, "done", <<"error">>)
    /\ UNCHANGED <<phase, restarts, authnBy, tracked, issued, samlSess>>

\* loginWithIdp, a session exists: redirect to the public URL, then OnError
\* with the nil error.
LoginActive(t) ==
    /\ phase = "up"
    /\ Serving(t, "login")
    /\ thr[t].sess = "active"
    /\ Finish(t, "done", <<"redirect", "error">>)
    /\ UNCHANGED <<phase, restarts, authnBy, tracked, issued, samlSess>>

\* instantiateMiddleware leaves samlsp.Options.AllowIDPInitiated unset.
AllowIDPInitiatedMutant == TRUE

AllowIDPInitiated == FALSE

\* serveAcs: the empty id if IdP-initiated login is allowed, then the
\* tracked request ids from the cookies.
PossibleRequestIDs(cookies) ==
    (IF AllowIDPInitiated THEN {0} ELSE {}) \cup cookies

\* ParseResponse accepts the response: CreateSessionFromAssertion stops
\* tracking the request id, sets the session cookie and redirects.
AcsOk(t) ==
    /\ phase = "up"
    /\ Serving(t, "acs")
    /\ thr[t].to \in PossibleRequestIDs(thr[t].cookies)
    /\ tracked' = [tracked EXCEPT ![thr[t].b] = @ \ {thr[t].to}]
    /\ samlSess' = [samlSess EXCEPT ![thr[t].b] = @ \cup {thr[t].to}]
    /\ Finish(t, "done", <<"session">>)
    /\ UNCHANGED <<phase, restarts, authnBy, issued>>

\* ParseResponse fails: OnError writes 403, and serveAcs goes on to call
\* CreateSessionFromAssertion with the nil assertion, whose session codec
\* dereferences it.
AcsFail(t) ==
    /\ phase = "up"
    /\ Serving(t, "acs")
    /\ thr[t].to \notin PossibleRequestIDs(thr[t].cookies)
    /\ Finish(t, "panic", <<"error">>)
    /\ UNCHANGED <<phase, restarts, authnBy, tracked, issued, samlSess>>

(***************************************************************************)
(* Environment.                                                            *)
(***************************************************************************)

\* The IdP answers a started authentication.
IdpRespond(a) ==
    /\ a \in 1..Len(authnBy)
    /\ issued' = issued \cup {a}
    /\ UNCHANGED <<phase, restarts, authnBy, tracked, samlSess, thr>>

\* The process restarts and runs NewHandler again; requests in flight are
\* lost, browsers keep their cookies.
Restart ==
    /\ phase = "up"
    /\ restarts < MaxRestarts
    /\ restarts' = restarts + 1
    /\ phase' = "boot"
    /\ thr' = [t \in Threads |->
                 IF thr[t].pc = "serve"
                 THEN [thr[t] EXCEPT !.pc = "killed"] ELSE thr[t]]
    /\ UNCHANGED <<authnBy, tracked, issued, samlSess>>

Next ==
    \/ BootOk \/ BootFail \/ Restart
    \/ \E a \in Authn : IdpRespond(a)
    \/ \E t \in Threads :
         \/ \E k \in Kinds, b \in Browsers, s \in SessionStates \cup {Nil},
               to \in InResponseTo : Arrive(t, k, b, s, to)
         \/ SubmitMetadata(t) \/ LoginNoSession(t) \/ LoginError(t)
         \/ LoginActive(t) \/ AcsOk(t) \/ AcsFail(t)

Spec == Init /\ [][Next]_vars

(***************************************************************************)
(* Properties.                                                             *)
(***************************************************************************)

\* A samlsp session cookie in browser b comes only from the response to an
\* authentication b itself started: a response carried into another
\* browser, or an unsolicited one, is refused by ParseResponse, also after
\* a restart and when two callbacks race on the same cookies.
SessionBinding ==
    \A b \in Browsers : \A a \in samlSess[b] :
        a \in 1..Len(authnBy) /\ authnBy[a] = b

\* Who is logged in with what: the browser that started each
\* authentication, and the samlsp session cookies of each browser.
BB == INSTANCE BrowserBinding WITH startedBy <- authnBy, bound <- samlSess

\* serveAcs sets a session cookie in a browser only for an authentication
\* that browser started, across restarts and concurrent POSTs, and
\* loginWithIdp only ever appends to the record of who started what.
BindingRefined == BB!Spec

\* Spec 7 and 9: each request is answered with one response.
OneResponsePerRequest ==
    \A t \in Threads : Len(thr[t].out) <= 1

\* Spec 4.1 and 7: a callback whose response does not verify fails closed
\* with a protocol error and does not crash the request.
AcsFailsClosed ==
    \A t \in Threads : thr[t].pc # "panic"
=============================================================================
