------------------------ MODULE SamlMiddleware_proofs ------------------------
(***************************************************************************)
(* Proofs about the lazily built samlMiddleware, for every number of      *)
(* requests and restarts.                                                  *)
(*                                                                         *)
(* The argument: the package variable is written in two places only, the   *)
(* assignment at the end of instantiateMiddleware (a request's own, non-   *)
(* nil instance) and the restart (nil, together with clearing published).  *)
(* So "an instance was assigned in this lifetime" and "the variable is not *)
(* nil" are the same fact (PublishedIsSet); a nil dereference, which reads *)
(* nil, therefore happens only while nothing was assigned.                 *)
(***************************************************************************)
EXTENDS SamlMiddleware, TLAPS

\* The package variable is set exactly when an instance was assigned since
\* the last restart.
PublishedIsSet == published <=> samlMiddleware # Nil

\* A request about to assign holds the instance it built.
PublishHoldsInstance ==
    \A t \in Threads : thr[t].pc = "publish" => thr[t].local \in Threads

IInv == TypeOK /\ PublishedIsSet /\ PublishHoldsInstance /\ PanicOnlyOnNil

USE ConstantsAssumption

\* Init establishes the inductive invariant.
LEMMA InitIInv == Init => IInv
<1> SUFFICES ASSUME Init PROVE IInv
  OBVIOUS
<1>1. IdleThr \in Thr
  BY DEF IdleThr, Thr, Pc
<1>2. TypeOK
  <2>1. thr \in [Threads -> Thr]
    BY <1>1 DEF Init
  <2>2. restarts \in 0..MaxRestarts
    BY ConstantsAssumption DEF Init
  <2>3. QED
    BY <2>1, <2>2 DEF Init, TypeOK
<1>3. PublishedIsSet
  BY DEF Init, PublishedIsSet
<1>4. PublishHoldsInstance /\ PanicOnlyOnNil
  BY DEF Init, PublishHoldsInstance, PanicOnlyOnNil, IdleThr
<1>5. QED
  BY <1>2, <1>3, <1>4 DEF IInv

\* A request moving to any pc other than "publish" and "panic" keeps the
\* request table typed and the per-request conjuncts true.
LEMMA StepKeeps ==
    ASSUME TypeOK, PublishHoldsInstance, PanicOnlyOnNil,
           NEW t \in Threads, NEW pc \in Pc \ {"publish", "panic"},
           NEW os \in Seq(Outputs), Step(t, pc, os)
    PROVE  /\ thr' \in [Threads -> Thr]
           /\ PublishHoldsInstance' /\ PanicOnlyOnNil'
<1>1. thr[t].out \o os \in Seq(Outputs)
  BY DEF TypeOK, Thr
<1>2. thr'[t] \in Thr /\ thr'[t].pc = pc
  <2> DEFINE w == thr[t]
  <2>1. w \in Thr
    BY DEF TypeOK
  <2>2. thr'[t] = [w EXCEPT !.pc = pc, !.out = w.out \o os]
    BY DEF Step, TypeOK
  <2>3. thr'[t] = [kind |-> w.kind, pc |-> pc, local |-> w.local,
                   sess |-> w.sess, failed |-> w.failed,
                   afterStart |-> w.afterStart, pub |-> w.pub,
                   out |-> w.out \o os]
    BY <2>1, <2>2 DEF Thr
  <2>4. QED
    BY <1>1, <2>1, <2>3 DEF Thr
<1>3. \A u \in Threads \ {t} : thr'[u] = thr[u]
  BY DEF Step, TypeOK
<1>4. thr' \in [Threads -> Thr]
  BY <1>2, <1>3 DEF Step, TypeOK
<1>5. QED
  BY <1>2, <1>3, <1>4 DEF PublishHoldsInstance, PanicOnlyOnNil

\* Every step preserves the inductive invariant.
LEMMA NextIInv == IInv /\ [Next]_vars => IInv'
<1> SUFFICES ASSUME IInv, [Next]_vars PROVE IInv'
  OBVIOUS
<1>0. TypeOK /\ PublishedIsSet /\ PublishHoldsInstance /\ PanicOnlyOnNil
  BY DEF IInv
<1>1. ASSUME NEW t \in Threads, NEW k \in Kinds,
             NEW s \in SessionStates \cup {Nil}, Arrive(t, k, s)
      PROVE  IInv'
  <2>1. thr'[t] \in Thr /\ thr'[t].pc \in {"get", "check"}
    BY <1>0, <1>1 DEF Arrive, TypeOK, Thr, Pc
  <2>2. \A u \in Threads \ {t} : thr'[u] = thr[u]
    BY <1>0, <1>1 DEF Arrive, TypeOK
  <2>3. thr' \in [Threads -> Thr]
    BY <1>0, <1>1, <2>1, <2>2 DEF Arrive, TypeOK
  <2>4. QED
    BY <1>0, <1>1, <2>1, <2>2, <2>3 DEF Arrive, IInv, TypeOK,
       PublishedIsSet, PublishHoldsInstance, PanicOnlyOnNil
<1>2. ASSUME NEW t \in Threads,
             \/ CheckBuilt(t) \/ CheckNil(t) \/ BuildAbort(t)
             \/ ServeMetadata(t) \/ StartAuthFlow(t) \/ RedirectHome(t)
             \/ ForwardNoError(t) \/ AcsGet(t)
      PROVE  IInv'
  <2>1. /\ thr' \in [Threads -> Thr]
        /\ PublishHoldsInstance' /\ PanicOnlyOnNil'
    <3>1. \A k \in Kinds \cup {Nil} : AfterInit(k) \in Pc \ {"publish", "panic"}
      BY DEF AfterInit, Pc
    <3>2. /\ <<>> \in Seq(Outputs) /\ <<"metadata">> \in Seq(Outputs)
          /\ <<"startauth">> \in Seq(Outputs) /\ <<"redirect">> \in Seq(Outputs)
          /\ <<"error">> \in Seq(Outputs) /\ <<"acs">> \in Seq(Outputs)
      BY DEF Outputs
    <3>3. thr[t].kind \in Kinds \cup {Nil}
      BY <1>0 DEF TypeOK, Thr
    <3>4. QED
      BY <1>0, <1>2, <3>1, <3>2, <3>3, StepKeeps
         DEF CheckBuilt, CheckNil, BuildAbort, ServeMetadata, StartAuthFlow,
             RedirectHome, ForwardNoError, AcsGet, Pc
  <2>2. /\ UNCHANGED <<samlMiddleware, published, restarts>>
        /\ started' \in BOOLEAN
    BY <1>0, <1>2 DEF TypeOK, CheckBuilt, CheckNil, BuildAbort, ServeMetadata,
       StartAuthFlow, RedirectHome, ForwardNoError, AcsGet
  <2>3. QED
    BY <1>0, <2>1, <2>2 DEF IInv, TypeOK, PublishedIsSet
<1>3. ASSUME NEW t \in Threads, BuildOk(t)
      PROVE  IInv'
  <2>0. thr'[t] = [thr[t] EXCEPT !.pc = "publish", !.local = t]
    BY <1>0, <1>3 DEF BuildOk, TypeOK
  <2>1. thr'[t] \in Thr /\ thr'[t].pc = "publish" /\ thr'[t].local = t
    BY <1>0, <2>0 DEF TypeOK, Thr, Pc
  <2>2. \A u \in Threads \ {t} : thr'[u] = thr[u]
    BY <1>0, <1>3 DEF BuildOk, TypeOK
  <2>3. thr' \in [Threads -> Thr]
    BY <1>0, <1>3, <2>1, <2>2 DEF BuildOk, TypeOK
  <2>4. QED
    BY <1>0, <1>3, <2>1, <2>2, <2>3 DEF BuildOk, IInv, TypeOK,
       PublishedIsSet, PublishHoldsInstance, PanicOnlyOnNil
<1>4. ASSUME NEW t \in Threads, BuildFail(t)
      PROVE  IInv'
  <2> DEFINE q == thr[t]
  <2>1. q \in Thr /\ q.kind \in Kinds \cup {Nil}
    BY <1>0 DEF TypeOK, Thr
  <2>2. (IF q.kind = "login" THEN q.out \o <<"error">> ELSE q.out)
          \in Seq(Outputs)
    <3>1. q.out \in Seq(Outputs) /\ <<"error">> \in Seq(Outputs)
      BY <2>1 DEF Thr, Outputs
    <3>2. q.out \o <<"error">> \in Seq(Outputs)
      BY <3>1
    <3>3. QED
      BY <3>1, <3>2
  <2>3. thr'[t] \in Thr /\ thr'[t].pc = AfterInit(q.kind)
    BY <1>0, <1>4, <2>1, <2>2 DEF BuildFail, TypeOK, Thr, Pc, AfterInit
  <2>4. AfterInit(q.kind) \notin {"publish", "panic"}
    BY DEF AfterInit
  <2>5. \A u \in Threads \ {t} : thr'[u] = thr[u]
    BY <1>0, <1>4 DEF BuildFail, TypeOK
  <2>6. thr' \in [Threads -> Thr]
    BY <1>0, <1>4, <2>3, <2>5 DEF BuildFail, TypeOK
  <2>7. QED
    BY <1>0, <1>4, <2>3, <2>4, <2>5, <2>6 DEF BuildFail, IInv, TypeOK,
       PublishedIsSet, PublishHoldsInstance, PanicOnlyOnNil
<1>5. ASSUME NEW t \in Threads, Publish(t)
      PROVE  IInv'
  <2>1. thr[t].local \in Threads /\ thr[t].kind \in Kinds \cup {Nil}
    BY <1>0, <1>5 DEF Publish, PublishHoldsInstance, TypeOK, Thr
  <2>2. /\ samlMiddleware' \in Threads /\ samlMiddleware' # Nil
        /\ published' = TRUE
    BY <1>5, <2>1, ConstantsAssumption DEF Publish
  <2>3. /\ thr' \in [Threads -> Thr]
        /\ PublishHoldsInstance' /\ PanicOnlyOnNil'
    <3>1. AfterInit(thr[t].kind) \in Pc \ {"publish", "panic"}
      BY <2>1 DEF AfterInit, Pc
    <3>2. <<>> \in Seq(Outputs)
      OBVIOUS
    <3>3. QED
      BY <1>0, <1>5, <3>1, <3>2, StepKeeps DEF Publish
  <2>4. QED
    BY <1>0, <1>5, <2>2, <2>3 DEF Publish, IInv, TypeOK, PublishedIsSet
<1>6. ASSUME NEW t \in Threads, DerefNil(t)
      PROVE  IInv'
  <2>1. ~published
    BY <1>0, <1>6 DEF DerefNil, PublishedIsSet
  <2>0. thr'[t] = [kind |-> thr[t].kind, pc |-> "panic", local |-> thr[t].local,
                   sess |-> thr[t].sess, failed |-> thr[t].failed,
                   afterStart |-> thr[t].afterStart, pub |-> FALSE,
                   out |-> thr[t].out]
    BY <1>0, <1>6, <2>1 DEF DerefNil, TypeOK, Thr
  <2>2. thr'[t] \in Thr /\ thr'[t].pc = "panic"
    BY <1>0, <2>0 DEF TypeOK, Thr, Pc
  <2>6. thr'[t].pub = FALSE
    BY <2>0
  <2>3. \A u \in Threads \ {t} : thr'[u] = thr[u]
    BY <1>0, <1>6 DEF DerefNil, TypeOK
  <2>4. thr' \in [Threads -> Thr]
    BY <1>0, <1>6, <2>2, <2>3 DEF DerefNil, TypeOK
  <2>5. QED
    BY <1>0, <1>6, <2>2, <2>3, <2>4, <2>6 DEF DerefNil, IInv, TypeOK,
       PublishedIsSet, PublishHoldsInstance, PanicOnlyOnNil
<1>7. CASE Restart
  <2>1. ASSUME NEW t \in Threads
        PROVE  /\ thr'[t] \in Thr
               /\ thr'[t].pc # "publish"
               /\ thr'[t].pc = "panic" => thr'[t] = thr[t]
    <3>1. thr[t] \in Thr
      BY <1>0 DEF TypeOK
    <3>2. CASE thr[t].pc \in {"idle", "done", "panic", "abort"}
      BY <3>1, <3>2, <1>7 DEF Restart
    <3>3. CASE thr[t].pc \notin {"idle", "done", "panic", "abort"}
      <4>1. thr'[t] = [thr[t] EXCEPT !.pc = "killed"]
        BY <3>3, <1>7 DEF Restart
      <4>2. QED
        BY <3>1, <4>1 DEF Thr, Pc
    <3>4. QED
      BY <3>2, <3>3
  <2>2. thr' \in [Threads -> Thr]
    <3>1. DOMAIN thr' = Threads
      BY <1>7 DEF Restart
    <3>2. QED
      BY <2>1, <3>1, <1>7 DEF Restart
  <2>3. /\ samlMiddleware' = Nil /\ published' = FALSE
        /\ restarts' \in 0..MaxRestarts /\ started' = started
    BY <1>0, <1>7, ConstantsAssumption DEF Restart, TypeOK
  <2>4. PublishedIsSet'
    BY <2>3 DEF PublishedIsSet
  <2>5. PublishHoldsInstance' /\ PanicOnlyOnNil'
    BY <1>0, <2>1 DEF PublishHoldsInstance, PanicOnlyOnNil
  <2>6. QED
    BY <1>0, <2>2, <2>3, <2>4, <2>5 DEF IInv, TypeOK
<1>8. CASE UNCHANGED vars
  BY <1>0, <1>8 DEF vars, IInv, TypeOK, PublishedIsSet,
     PublishHoldsInstance, PanicOnlyOnNil
<1>9. QED
  BY <1>1, <1>2, <1>3, <1>4, <1>5, <1>6, <1>7, <1>8 DEF Next, ThreadStep

\* The package variable, once assigned, stays assigned until the process
\* restarts: instantiateMiddleware assigns only its own non-nil result, so
\* a failing or racing construction never clears it.
THEOREM MiddlewareNeverLostHolds == Spec => MiddlewareNeverLost
<1>1. IInv /\ [Next]_vars
        => [samlMiddleware # Nil => samlMiddleware' # Nil
                                    \/ restarts' # restarts]_vars
  <2> SUFFICES ASSUME IInv, [Next]_vars, samlMiddleware # Nil
               PROVE  samlMiddleware' # Nil \/ restarts' # restarts
    OBVIOUS
  <2>1. CASE Restart
    BY <2>1, ConstantsAssumption DEF Restart, IInv, TypeOK
  <2>2. ASSUME NEW t \in Threads, Publish(t)
        PROVE  samlMiddleware' # Nil
    BY <2>2, ConstantsAssumption DEF Publish, IInv, PublishHoldsInstance
  <2>3. ASSUME NEW t \in Threads,
               \/ \E k \in Kinds, s \in SessionStates \cup {Nil} : Arrive(t, k, s)
               \/ CheckBuilt(t) \/ CheckNil(t) \/ BuildOk(t) \/ BuildFail(t)
               \/ BuildAbort(t) \/ DerefNil(t) \/ ServeMetadata(t)
               \/ StartAuthFlow(t) \/ RedirectHome(t) \/ ForwardNoError(t)
               \/ AcsGet(t)
        PROVE  samlMiddleware' = samlMiddleware
    BY <2>3 DEF Arrive, CheckBuilt, CheckNil, BuildOk, BuildFail, BuildAbort,
       DerefNil, ServeMetadata, StartAuthFlow, RedirectHome, ForwardNoError,
       AcsGet
  <2>4. CASE UNCHANGED vars
    BY <2>4 DEF vars
  <2>5. QED
    BY <2>1, <2>2, <2>3, <2>4 DEF Next, ThreadStep
<1>2. QED
  BY <1>1, InitIInv, NextIInv, PTL DEF Spec, MiddlewareNeverLost

\* A request dereferences a nil samlMiddleware only while no instance was
\* assigned in this process lifetime.
THEOREM PanicOnlyOnNilHolds == Spec => []PanicOnlyOnNil
<1>1. IInv => PanicOnlyOnNil
  BY DEF IInv
<1>2. QED
  BY <1>1, InitIInv, NextIInv, PTL DEF Spec

\* The middleware model is well typed.
THEOREM TypeCorrect == Spec => []TypeOK
<1>1. IInv => TypeOK
  BY DEF IInv
<1>2. QED
  BY <1>1, InitIInv, NextIInv, PTL DEF Spec

=============================================================================
