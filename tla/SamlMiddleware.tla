--------------------------- MODULE SamlMiddleware ---------------------------
(***************************************************************************)
(* The lifecycle of the package-level samlMiddleware of the SAML flow      *)
(* handler (the second part of selfservice/strategy/saml/strategy/         *)
(* strategy.go, package saml): submitMetadata and loginWithIdp build it    *)
(* lazily with instantiateMiddleware when they find it nil, without any    *)
(* lock; the ACS callback only fetches it with GetMiddleware.              *)
(*                                                                         *)
(* Every HTTP request runs in its own goroutine: a request is a thread     *)
(* with a program counter, split at its accesses of the shared variable:   *)
(* the nil check, the construction (key loading and the IdP metadata       *)
(* fetch, which may fail), the assignment, and the use.  The instance a    *)
(* construction makes is named by the request that made it.  A process     *)
(* restart loses the middleware, while the browsers keep their cookies.    *)
(***************************************************************************)
EXTENDS Naturals, Sequences, FiniteSets

CONSTANTS
    Threads,      \* the HTTP requests, each handled once by a goroutine
    MaxRestarts,  \* bound on process restarts
    Nil           \* a nil pointer, and an unset field

ASSUME ConstantsAssumption == MaxRestarts \in Nat /\ Nil \notin Threads

\* The endpoints: GET metadata, GET browser (login), POST acs.
Kinds == {"metadata", "login", "acs"}

\* What FetchFromRequest reports to loginWithIdp.
SessionStates == {"none", "error", "active"}

\* What a request writes: an error page, the metadata document, the
\* redirect to the IdP, a redirect to the default return URL, the callback.
Outputs == {"error", "metadata", "startauth", "redirect", "acs"}

\* "panic": a call through the nil samlMiddleware; "abort": a panic inside
\* instantiateMiddleware; "killed": lost in a restart.
Pc == {"idle", "check", "build", "publish", "serve", "session", "get",
       "done", "panic", "abort", "killed"}

Thr == [kind : Kinds \cup {Nil}, pc : Pc, local : Threads \cup {Nil},
        sess : SessionStates \cup {Nil}, failed : BOOLEAN,
        afterStart : BOOLEAN, pub : BOOLEAN, out : Seq(Outputs)]

IdleThr == [kind |-> Nil, pc |-> "idle", local |-> Nil, sess |-> Nil,
            failed |-> FALSE, afterStart |-> FALSE, pub |-> FALSE, out |-> <<>>]

VARIABLES
    samlMiddleware, \* the package variable
    published,      \* an instance has been assigned in this process lifetime
    restarts,       \* process restarts so far
    started,        \* some browser holds a started authentication
    thr             \* thr[t]: the state of request t

vars == <<samlMiddleware, published, restarts, started, thr>>

TypeOK ==
    /\ samlMiddleware \in Threads \cup {Nil}
    /\ published \in BOOLEAN
    /\ restarts \in 0..MaxRestarts
    /\ started \in BOOLEAN
    /\ thr \in [Threads -> Thr]

Init ==
    /\ samlMiddleware = Nil
    /\ published = FALSE
    /\ restarts = 0
    /\ started = FALSE
    /\ thr = [t \in Threads |-> IdleThr]

\* Request t moves to pc and writes the outputs os.
Step(t, pc, os) == thr' = [thr EXCEPT ![t].pc = pc, ![t].out = @ \o os]

(***************************************************************************)
(* Arrival: a metadata or a login request starts with the nil check, the   *)
(* callback with GetMiddleware.  A login request brings what               *)
(* FetchFromRequest will find.                                             *)
(***************************************************************************)
Arrive(t, k, s) ==
    /\ thr[t].pc = "idle"
    /\ (k = "login") = (s # Nil)
    /\ thr' = [thr EXCEPT ![t].kind = k, ![t].sess = s,
                          ![t].pc = IF k = "acs" THEN "get" ELSE "check",
                          ![t].afterStart = started]
    /\ UNCHANGED <<samlMiddleware, published, restarts, started>>

\* Where a metadata or login request goes once it has a middleware (or has
\* given up building one).
AfterInit(k) == IF k = "metadata" THEN "serve" ELSE "session"

\* submitMetadata and loginWithIdp: if samlMiddleware == nil.
CheckBuilt(t) ==
    /\ thr[t].pc = "check"
    /\ samlMiddleware # Nil
    /\ Step(t, AfterInit(thr[t].kind), <<>>)
    /\ UNCHANGED <<samlMiddleware, published, restarts, started>>

CheckNil(t) ==
    /\ thr[t].pc = "check"
    /\ samlMiddleware = Nil
    /\ Step(t, "build", <<>>)
    /\ UNCHANGED <<samlMiddleware, published, restarts, started>>

\* instantiateMiddleware up to the assignment: the configuration decodes,
\* the key pair loads, the IdP metadata is fetched (or simulated),
\* samlsp.New succeeds, and the ACS and metadata URLs and the entity id are
\* set on the new, still private, middleware.
BuildOk(t) ==
    /\ thr[t].pc = "build"
    /\ thr' = [thr EXCEPT ![t].pc = "publish", ![t].local = t]
    /\ UNCHANGED <<samlMiddleware, published, restarts, started>>

\* Mutant: the failed construction's nil result lands in the package
\* variable, as with samlMiddleware, err = samlsp.New(...).
BuildFailMutant(t) ==
    /\ thr[t].pc = "build"
    /\ samlMiddleware' = Nil
    /\ thr' = [thr EXCEPT ![t].pc = AfterInit(thr[t].kind), ![t].failed = TRUE,
                 ![t].out = IF thr[t].kind = "login" THEN @ \o <<"error">>
                                                     ELSE @]
    /\ UNCHANGED <<published, restarts, started>>

\* One of the steps of instantiateMiddleware returns an error.
\* submitMetadata ignores it; loginWithIdp forwards it to the error page
\* and carries on.
BuildFail(t) ==
    /\ thr[t].pc = "build"
    /\ thr' = [thr EXCEPT ![t].pc = AfterInit(thr[t].kind), ![t].failed = TRUE,
                 ![t].out = IF thr[t].kind = "login" THEN @ \o <<"error">>
                                                     ELSE @]
    /\ UNCHANGED <<samlMiddleware, published, restarts, started>>

\* Without an IdP metadata URL, mustParseCertificate panics on an IdP
\* certificate that does not parse: the request ends without a response.
BuildAbort(t) ==
    /\ thr[t].pc = "build"
    /\ Step(t, "abort", <<>>)
    /\ UNCHANGED <<samlMiddleware, published, restarts, started>>

\* samlMiddleware = samlMiddleWare.
Publish(t) ==
    /\ thr[t].pc = "publish"
    /\ samlMiddleware' = thr[t].local
    /\ published' = TRUE
    /\ Step(t, AfterInit(thr[t].kind), <<>>)
    /\ UNCHANGED <<restarts, started>>

(***************************************************************************)
(* Uses of the middleware.  Each reads the package variable again.         *)
(***************************************************************************)

\* The request is at a call through samlMiddleware: ServeMetadata,
\* HandleStartAuthFlow (no session), or GetMiddleware in handleCallback.
Derefs(t) ==
    \/ thr[t].pc \in {"serve", "get"}
    \/ thr[t].pc = "session" /\ thr[t].sess = "none"

\* Mutant: a request whose own construction failed calls through the nil
\* result of that construction instead of reading the package variable.
DerefNilMutant(t) ==
    /\ Derefs(t)
    /\ samlMiddleware = Nil \/ thr[t].failed
    /\ thr' = [thr EXCEPT ![t].pc = "panic", ![t].pub = published]
    /\ UNCHANGED <<samlMiddleware, published, restarts, started>>

\* The call goes through a nil pointer: the goroutine panics and net/http
\* closes the connection without a response.
DerefNil(t) ==
    /\ Derefs(t)
    /\ samlMiddleware = Nil
    /\ thr' = [thr EXCEPT ![t].pc = "panic", ![t].pub = published]
    /\ UNCHANGED <<samlMiddleware, published, restarts, started>>

\* submitMetadata: samlMiddleware.ServeMetadata.
ServeMetadata(t) ==
    /\ thr[t].pc = "serve"
    /\ samlMiddleware # Nil
    /\ Step(t, "done", <<"metadata">>)
    /\ UNCHANGED <<samlMiddleware, published, restarts, started>>

\* loginWithIdp, no session: HandleStartAuthFlow redirects to the IdP and
\* tracks the request in the browser.
StartAuthFlow(t) ==
    /\ thr[t].pc = "session"
    /\ thr[t].sess = "none"
    /\ samlMiddleware # Nil
    /\ Step(t, "done", <<"startauth">>)
    /\ started' = TRUE
    /\ UNCHANGED <<samlMiddleware, published, restarts>>

\* loginWithIdp, FetchFromRequest fails otherwise: redirect to the default
\* return URL.
RedirectHome(t) ==
    /\ thr[t].pc = "session"
    /\ thr[t].sess = "error"
    /\ Step(t, "done", <<"redirect">>)
    /\ UNCHANGED <<samlMiddleware, published, restarts, started>>

\* loginWithIdp, a session is active: Forward with the nil error.
ForwardNoError(t) ==
    /\ thr[t].pc = "session"
    /\ thr[t].sess = "active"
    /\ Step(t, "done", <<"error">>)
    /\ UNCHANGED <<samlMiddleware, published, restarts, started>>

\* handleCallback: GetMiddleware returns the middleware.
AcsGet(t) ==
    /\ thr[t].pc = "get"
    /\ samlMiddleware # Nil
    /\ Step(t, "done", <<"acs">>)
    /\ UNCHANGED <<samlMiddleware, published, restarts, started>>

\* The process restarts: the package variable is nil again and the
\* requests in flight are lost; browsers keep their cookies.
Restart ==
    /\ restarts < MaxRestarts
    /\ restarts' = restarts + 1
    /\ samlMiddleware' = Nil
    /\ published' = FALSE
    /\ thr' = [t \in Threads |->
                 IF thr[t].pc \in {"idle", "done", "panic", "abort"} THEN thr[t]
                 ELSE [thr[t] EXCEPT !.pc = "killed"]]
    /\ UNCHANGED started

\* The steps request t takes by itself once it has arrived.
ThreadStep(t) ==
    \/ CheckBuilt(t) \/ CheckNil(t)
    \/ BuildOk(t) \/ BuildFail(t) \/ BuildAbort(t) \/ Publish(t)
    \/ DerefNil(t)
    \/ ServeMetadata(t) \/ StartAuthFlow(t) \/ RedirectHome(t)
    \/ ForwardNoError(t) \/ AcsGet(t)

Next ==
    \/ \E t \in Threads :
         \/ \E k \in Kinds, s \in SessionStates \cup {Nil} : Arrive(t, k, s)
         \/ ThreadStep(t)
    \/ Restart

Spec == Init /\ [][Next]_vars

(***************************************************************************)
(* Properties.                                                             *)
(***************************************************************************)

\* Once assigned, the middleware is not lost again before the process
\* restarts: a construction that fails, also one racing a successful one,
\* never leaves the package variable nil.
MiddlewareNeverLost ==
    [][samlMiddleware # Nil => samlMiddleware' # Nil \/ restarts' # restarts]_vars

\* A request calls through a nil middleware only while no construction has
\* been assigned in this process lifetime: every use re-reads the package
\* variable, so a request whose own construction failed still uses the
\* middleware a concurrent request built.
PanicOnlyOnNil == \A t \in Threads : thr[t].pc = "panic" => ~thr[t].pub

\* Spec 4.1 and 5: at most one construction is in flight at a time; late
\* callers wait for it instead of repeating the key loading and the IdP
\* metadata fetch.
OneConstructionInFlight ==
    Cardinality({t \in Threads : thr[t].pc \in {"build", "publish"}}) <= 1

\* Spec 7: a configuration error is fatal for the request that met it: it
\* is answered with that error, once, and the request does not go on.
InitFailureAnsweredOnce ==
    \A t \in Threads :
        thr[t].failed /\ thr[t].pc \in {"done", "panic"} =>
            thr[t].pc = "done" /\ thr[t].out = <<"error">>

\* Spec 5: the middleware is built on the first request that needs it, so a
\* callback for an authentication some browser started always finds it.
AcsAfterStartFindsMiddleware ==
    \A t \in Threads :
        thr[t].kind = "acs" /\ thr[t].afterStart => thr[t].pc # "panic"
=============================================================================
