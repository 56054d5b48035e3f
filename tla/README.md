# TLA+ models of the SAML self-service strategy

This directory holds TLA+ models of the SAML login and registration code under
`src/`, the TLC configurations that check them, and TLAPS proofs of their main
invariants. `spec.md` describes the intended design. The models are written
from the Go source; where the two disagree, the runs below show it.

## The system

`src/selfservice/strategy/saml/strategy/strategy.go` holds two Go files one
after the other.

* **Lines 1-363, the strategy** (package `strategy`). The assertion consumer
  service (ACS), `handleCallback`, runs these steps in order:
  * `getAttributesFromAssertion`: `ParseResponse` against the request ids
    tracked in the browser's cookies, plus the empty id if IdP-initiated
    login is allowed;
  * `provider` and `Config`: strict decode of the configuration;
  * `provider.Claims`;
  * `processLoginOrRegister`, which is not under `src/`. It calls
    `validateCallback`: the continuity manager's `Continue` (a single-use
    container naming the flow, the correlation state and the staged traits),
    then `validateFlow` (the registration, login and settings persisters,
    browser-only, `Valid`, and for settings the session), then the `error`
    query parameter.

  Errors go through `handleError` (a registration flow's UI is reset to one
  "continue" node plus the trait nodes) and `forwardError` (one error
  handler per flow type, and the login handler with a nil flow otherwise).
* **Lines 364-680, the flow handler** (package `saml`). A package-level
  `samlMiddleware` (the samlsp service provider) is built lazily, without a
  lock, by `submitMetadata` (GET metadata) and `loginWithIdp` (GET browser)
  through `instantiateMiddleware`. The ACS only reads it through
  `GetMiddleware` (line 203). `loginWithIdp` also starts the authentication
  (`HandleStartAuthFlow`) when there is no session.
* `src/selfservice/flow/saml/handler.go` is an older handler. It builds its
  middleware eagerly in `NewHandler` and serves metadata, login and the ACS
  directly.

The two halves interact through the middleware and the browser. `loginWithIdp`
tracks a request id and stores a container in the browser. The identity
provider answers, and the browser POSTs the answer to the ACS. The ACS needs
the middleware to parse it and needs the container to find the flow.

## Modules

| Module | Models | Source |
|---|---|---|
| `SamlAcs` | the ACS callback, the browser starting authentications, the IdP answering, flows expiring, sessions starting and ending | strategy.go 119-350, 506-512, 614-620 |
| `SamlMiddleware` | the lazily built `samlMiddleware`: every request's nil check, construction (succeeds, fails, or panics in `mustParseCertificate`), assignment and use; process restarts | strategy.go 201-203, 455-680 |
| `SamlHandler` | the eager handler: `NewHandler`, `submitMetadata`, `loginWithIdp`, `serveAcs`, restarts | handler.go 50-212 |
| `SamlAttributes` | the attribute map of `getAttributesFromAssertion`, with a recursive reference (TLC only) | strategy.go 183-197 |
| `SamlAcs_proofs` | TLAPS proofs of `TypeOK` and `SessionBinding` of `SamlAcs` | |
| `BrowserBinding` | the abstract promise of both assertion consumers (spec 3, 4.1, 4.3): a browser is bound only to authentications it started | spec |
| `SamlAcs_refinement` | TLAPS proof that `SamlAcs` refines `BrowserBinding` | |
| `SamlAcs_nodes` | TLAPS proof of `RegistrationUIReset` | |
| `SamlMiddleware_proofs` | TLAPS proofs of `TypeOK`, `PanicOnlyOnNil` and `MiddlewareNeverLost` of `SamlMiddleware` | |
| `SamlHandler_proofs` | TLAPS proofs of `TypeOK`, `SessionBinding` and the `BrowserBinding` refinement of `SamlHandler` | |
| `MC_SamlAcs`, `MC_SamlMiddleware`, `MC_SamlHandler`, `MC_SamlAttributes` | TLC instances (symmetry sets) | |

PROJECT.json `map` names the lines each definition translates.

### SamlAcs

State:
* `flows`: the flow each persister holds, with its kind, type, expiry,
  owner and UI nodes.
* `session`: per browser.
* `continuity`: the container per browser.
* `tracked`: the request ids in the browser's cookies.
* `authnBy`: which browser started each authentication.
* `issued`: the IdP's responses.
* `configOk`: whether the strategy configuration decodes. It is fixed per
  run.
* `req`: one record per ACS POST, with its pc, browser, response, error
  parameter, token, flow and the responses written.
* `completions`: a history of completed flows.

A POST is taken from any issued response, so the model covers:
* a response replayed into the same browser;
* a response carried into another browser (login CSRF);
* a forged response.

The actions follow `handleCallback`'s control flow:
* `AcsParseFail`: the engine's `OnError`, then `forwardError(nil)`.
* `AcsProviderFail` and `AcsClaimsFail`.
* `AcsClaimsOk`.
* `AcsContinueFail`: no container, so a nil flow reaches line 228.
* `AcsFlowRejected`: the container is consumed, and `validateFlow`'s error
  returns without the flow (line 342), so again a nil flow reaches line 228.
* `AcsContinue`.
* `AcsFlowError`: `handleError` and `forwardError` on the flow.
* `AcsComplete`.

`AcsComplete` (`processLoginOrRegister`) and the continuity manager are not
under `src/` and are modelled from spec 4.2 and 4.5. `AcsContinue` reads a
browser's container and clears it in one step. That is the spec's promise,
not code of this repository: a cookie-based manager gives each concurrent
request its own copy of the cookie. So the project claims nothing that
rests on that atomicity alone, such as the single use of a container.

### SamlMiddleware

State:
* `samlMiddleware`: the package variable. An instance is named by the
  request that built it.
* `published`: an instance was assigned since the last restart.
* `restarts`.
* `started`: some browser holds a started authentication.
* `thr`: per request, its kind, pc, the instance it built, what
  `FetchFromRequest` returns, whether its construction failed, and its
  output.

Each access to the shared variable is its own step, because goroutines
interleave between them. These are the nil check, the construction (key
loading and the IdP metadata fetch), the assignment at line 658, and each
later dereference.

### SamlHandler

State:
* `phase`: the process is booting (`NewHandler`), up, or down after
  `NewHandler` panicked.
* `restarts`.
* `authnBy`: which browser started each authentication.
* `tracked`: the request ids in each browser's tracking cookies.
* `issued`: the IdP's responses (0 is an unsolicited one).
* `samlSess`: the authentications whose assertions became a samlsp session
  cookie in each browser.
* `thr`: per request, its route, pc, browser, what `FetchFromRequest`
  returns, the response it posts, the cookies it carries, and the responses
  it wrote.

The middleware is built once, so each handler runs as one step:
* `LoginNoSession`, `LoginError` and `LoginActive` are the three branches of
  `loginWithIdp`, each followed by the unconditional `OnError`.
* `AcsOk` and `AcsFail` are `serveAcs` with `ParseResponse` accepting or
  refusing. `AcsFail` goes on to `CreateSessionFromAssertion` with the nil
  assertion.
* A restart kills the requests in flight and runs `NewHandler` again.
  Browsers keep their cookies across it.

`BindingRefined` states that the handler implements `BrowserBinding`, under
the mapping `startedBy <- authnBy`, `bound <- samlSess`. `SamlAcs` has the
same property, under `bound <-` the authentications its completed flows
answer, per browser.

### SamlAttributes

The three nested `range` loops are a state machine over the indices `i`,
`j` and `k`. Every step is one loop test or one `append`. The initial
assertion is any of a bounded set: up to two attributes of up to two values,
cut into up to two statements, with names drawn from `{"", "uid", "mail"}`.
The reference `Reference` is written from spec 4.4 with recursion, so the
module is used only by TLC.

## Runs

| Run | Expect | Shows |
|---|---|---|
| `acs_safety` | pass | `SessionBinding`: a completed flow's assertion answers an authentication its own browser started. `RegistrationUIReset`: a failed registration shows exactly one "continue" node and no old nodes. `TypeOK`, which includes that a completion carries a mapped subject. |
| `acs_no_panic` | violation | A replayed POST, or a flow `validateFlow` rejects, reaches the nil dereference at line 228. |
| `acs_assertion_matches_flow` | violation | Two tabs in one browser: the response to the first authentication completes the flow of the second, because the container's state is never compared with InResponseTo. |
| `acs_error_on_own_flow` | violation | A settings flow's error is rendered by the login handler with a nil flow. |
| `middleware_lifecycle` | pass | `MiddlewareNeverLost` (an action property): an assigned middleware is cleared only by a restart. `PanicOnlyOnNil`: a request dereferences nil only while nothing is assigned, because every use re-reads the package variable. |
| `middleware_one_construction` | violation | Concurrent first requests build the middleware twice, against spec 4.1 and 5. |
| `middleware_init_failure` | violation | A failed construction is ignored or forwarded without a return, and the request then panics on nil. |
| `middleware_acs_after_start` | violation | After a restart, the callback of an earlier authentication finds no middleware, because the ACS never builds one. |
| `handler_safety` | pass | `SessionBinding` for the eager handler: a session cookie only for the browser's own authentication, across replays, cross-browser POSTs and a restart. |
| `handler_one_response` | violation | `loginWithIdp` in handler.go writes a second response through the unconditional `OnError` (line 142). |
| `handler_acs_fails_closed` | violation | `serveAcs` in handler.go goes on after `OnError` and uses the nil assertion (line 164). |
| `attributes_extract` | pass | `ExtractMatchesSpec`: the loops build exactly the map of spec 4.4, for every bounded assertion. |

Each property of a passing run has a mutant in PROJECT.json, and TLC finds
the property violated once the mutant is substituted:
* `AllowIDPInitiatedMutant` accepts unsolicited responses, and breaks
  `SessionBinding`.
* `HandleErrorMutant` does not reset the nodes, and breaks
  `RegistrationUIReset`.
* `AcsClaimsOkMutant` ignores the Claims error, and a completion then
  carries an unmapped subject (`TypeOK`).
* `BuildFailMutant` assigns the failed result, and breaks
  `MiddlewareNeverLost`.
* `DerefNilMutant` uses the request's own failed result, and breaks
  `PanicOnlyOnNil`.
* `SamlHandler`'s `AllowIDPInitiatedMutant` breaks its `SessionBinding`.
* `ClaimNameMutant` always uses the raw Name, and breaks
  `ExtractMatchesSpec`.

### Bounds

`MC_SamlAcs.cfg` has:
* two browsers;
* one flow, whose kind, type and owner range over every initial value;
* one identity;
* two authentications;
* two POSTs.

That is enough for the cases that matter:
* a replay racing the original POST;
* two tabs in one browser;
* a response carried into the other browser;
* an expired or API flow;
* a settings flow with and without the owner's session.

Browsers, requests, flows and identities are symmetric: the model only
compares them for equality, and no CHOOSE picks one. With that symmetry
the instance has 287k distinct states. A second identity multiplies the
state space about fivefold and adds no case that the properties tell apart: the
settings owner check already fails with one identity when the session is
absent.

`MC_SamlMiddleware.cfg` has:
* three requests (two racing constructions plus a later user);
* one restart.

Every run uses the symmetry of the requests (49k distinct states for the
passing run).

`MC_SamlHandler.cfg` has two browsers, four requests, two authentications
and one restart (77k states). Four requests are enough for two
authentications, a replay of each in both browsers, and a request cut by
the restart. `MC_SamlAttributes.cfg` enumerates every assertion of up to
two attributes in up to two statements (88k states). That covers a key
shared across two statements, and a FriendlyName equal to another
attribute's Name.

Deadlock checking is off for the middleware and the eager handler, because
the server legitimately idles once every request is answered, or stops
after `NewHandler` panics. It is also off for the attribute loops, which
end once the map is built. It stays on for the ACS, where the
environment (flows expiring, sessions) can always move.

### Fairness

No run assumes fairness, and no liveness property is checked. The model of
the middleware has no loops, so "every request ends" would hold by the
shape of the model under weak fairness of each goroutine. Moreover that
fairness is not justified by the code: `instantiateMiddleware` fetches the
IdP metadata with `context.Background()` and `http.DefaultClient`, with no
timeout, so a construction may never return.

## Proofs

The proofs are in the `_proofs`, `_refinement` and `_nodes` modules. They
hold for
all values of the constants, under the named assumptions
`ConstantsAssumption`:
* `MaxAuthn \in Nat`;
* the sentinels are outside the sets they stand beside;
* `MaxRestarts \in Nat`;
* `Nil \notin Threads`.

* `SamlAcs_proofs!SessionBindingHolds`: `Spec => []SessionBinding`.
  `SessionBinding` is not inductive, so the proof strengthens it with three
  facts:
  * `TrackedStarted`: every id tracked in browser b was started by b.
  * `AcceptedTracked`: a request past `ParseResponse` holds a response to one
    of its browser's tracked ids. This survives because tracked ids are
    never dropped.
  * `ReqShape`: what an in-flight request holds at each pc.

  A completion then adds a record whose `authn` is tracked in its browser.
  The step lemma has one step per action. TLC checked the strengthened
  invariant `IInv` on the `acs_safety` instance before the proof was
  written.
* `SamlAcs_proofs!TypeCorrect`: `Spec => []TypeOK`, from the same `IInv`.
* `SamlHandler_proofs!SessionBindingHolds` and `!TypeCorrect` (the
  handler's type invariant is proved, but no run checks it). Its `IInv`
  adds that every tracked id, and every id in a request's cookies, was
  started by that browser. A restart keeps cookies, so the fact survives
  it.
* `SamlAcs_nodes!RegistrationUIResetHolds`: `Spec => []RegistrationUIReset`.
  The property is not inductive: it says nothing of a flow that still shows
  its form, so it cannot rule out a later `handleError` appending to it.
  The strengthening `NodesShape` says that every flow's node list is one of
  three: the form it was created with, or one of the two lists
  `handleError` builds (with or without the trait nodes). `handleError`
  replaces the list rather than extending it, and only it and `ExpireFlow`
  write flows (lemma `FlowWriters`), so the shape survives any number of
  failed callbacks. The counts then follow from the three lists. TLC checked
  `NodesShape` on the `acs_safety` instance first.
* `SamlHandler_proofs!BindingRefinedHolds`: `Spec => BindingRefined`, the
  refinement of `BrowserBinding`. No run checks it: beyond `SessionBinding`
  it only adds that the record of who started what is append-only and that
  sessions are never dropped. The
  step lemma `StepBinds` maps `LoginNoSession` to `Start` and `AcsOk` to
  `Bind`. Every other step, the restart included, is a stutter. The `Bind`
  guard comes from the handler's `IInv`: the accepted id is in the
  browser's cookies, and so was started by that browser.
* `SamlAcs_refinement!BindingRefinedHolds`: the same for `SamlAcs`, from
  `IInv`'s `AcceptedTracked` and `TrackedStarted`. Checking this refinement
  on the `acs_safety` instance was done once (no error), and the run does
  not keep it, for the same reason as for the handler.
* `SamlMiddleware_proofs!PanicOnlyOnNilHolds`, `!TypeCorrect` and
  `!MiddlewareNeverLostHolds`. The key invariant is `PublishedIsSet`
  (`published <=> samlMiddleware # Nil`). The variable is written only by
  the assignment of a request's own instance and by a restart, so a nil
  dereference happens only while nothing is assigned. The action property
  follows from the same invariant, by a case split on the steps that write
  the variable.

Only TLC checks the violated properties, because they do not hold. One
property is out of the prover's reach and is only model-checked:
* `ExtractMatchesSpec`. Its reference is a RECURSIVE operator, and the
  equality would need induction over the assertion's data, which the
  installed provers cannot instantiate.

## Not modelled

* No run checks the inverted session test of `loginWithIdp` (line 509).
  With an active session it calls `Forward(nil)`, and it redirects for any
  other `FetchFromRequest` error. The actions `RedirectHome` and
  `ForwardNoError` model this behaviour as written.
* The zero-UUID and flow-not-found branches of `validateFlow`, which would
  return a typed nil settings flow.
* The length of `SAMLProviders`: `[0]` and `[len-1]` panic on an empty list.
* Memory-model reordering of the unsynchronised publication at line 658.
  The model is sequentially consistent.
* The wording of errors and URLs, logging, and the XML and cryptography of
  samlsp. These are treated as the engine's black box: a response parses or
  it does not.

## Plan for later work

1. Compose the middleware and the ACS: the ACS's line 203 dereference and
   the middleware's lifecycle in one model, so that a restart between start
   and callback meets the ACS's own state.
2. A fault model for the ACS: lost and duplicated POSTs with browser
   retries.
3. More proofs: action properties of the ACS, such as a completed flow never
   being completed again.
4. Larger instances, run with more workers.
