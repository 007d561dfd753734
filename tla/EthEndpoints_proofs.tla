------------------------ MODULE EthEndpoints_proofs -------------------------
(* Theorems about EthEndpoints, for every number of endpoints and handlers. *)
EXTENDS EthEndpoints, WellFoundedInduction, TLAPS

\* The locals of getHealthyClient.
Local == [i : 0..N, candidates : SUBSET Endpoint, cur : Endpoint, offset : Nat]

\* The types of the variables the theorems depend on.
TypeOK ==
    /\ reachable \subseteq Endpoint
    /\ healthy \subseteq Endpoint
    /\ current \in Endpoint
    /\ pc \in [Caller -> {"idle", "collect", "select", "store", "fetch", "receipts", "done"}]
    /\ op \in [Caller -> {"block", "latest", "receipts"}]
    /\ local \in [Caller -> Local]
    /\ client \in [Caller -> Endpoint \cup {NoClient}]
    /\ txs \in [Caller -> Nat]
    /\ outcome \in [Caller -> {"none", "no_client", "error", "latest", "block"}]
    /\ steady \in [Caller -> SUBSET Endpoint]
    /\ seen \in [Caller -> SUBSET Endpoint]

\* What a handler relies on in and after getHealthyClient: the endpoints it has
\* collected were healthy during the call, and the ones healthy throughout are among
\* those it has passed; the one it is about to store was healthy when it looked.
CallInv(c) ==
    /\ steady[c] \subseteq healthy
    /\ InCall(c) => /\ client[c] = NoClient
                    /\ healthy \subseteq seen[c] /\ local[c].candidates \subseteq seen[c]
    /\ pc[c] \in {"collect", "select"} =>
          {e \in steady[c] : e < local[c].i} \subseteq local[c].candidates
    /\ pc[c] = "select" => local[c].candidates # {}
    /\ pc[c] = "store" => Index(c) \in seen[c]

EndpointsInv == TypeOK /\ \A c \in Caller : CallInv(c)

\* A non-empty set of endpoints has a first one, which Fallback chooses.
LEMMA FirstEndpoint ==
    ASSUME NEW S \in SUBSET Endpoint, S # {}
    PROVE  (CHOOSE e \in S : \A d \in S : e <= d) \in S
<1> DEFINE R == OpToRel(<, Nat)
<1>1. IsWellFoundedOn(R, Nat)
  BY NatLessThanWellFounded
<1>2. \A x, y \in Nat : <<x, y>> \in R <=> x < y
  BY DEF OpToRel
<1>3. S \subseteq Nat
  BY EndpointsAssumption DEF Endpoint
<1> HIDE DEF R
<1>4. PICK e \in S : \A d \in S : ~(<<d, e>> \in R)
  BY <1>1, <1>3, WFMin
<1>5. e \in Nat /\ \A d \in S : d \in Nat /\ ~(d < e)
  BY <1>2, <1>3, <1>4
<1>6. \A d \in S : e <= d
  BY <1>5
<1> QED BY <1>6

\* Round-robin indexes are endpoints.
LEMMA IndexType ==
    ASSUME TypeOK, NEW c \in Caller
    PROVE  Index(c) \in Endpoint
<1>1. local[c].cur + local[c].offset \in Nat
  BY EndpointsAssumption DEF TypeOK, Local, Endpoint
<1>2. \A n \in Nat : n % N \in 0..(N - 1)
  BY EndpointsAssumption
<1> QED BY <1>1, <1>2 DEF Index, Endpoint

\* One turn of the first loop: what it does to the locals.
LEMMA PassedType ==
    ASSUME NEW l \in Local, l.i < N, NEW S \in SUBSET Endpoint
    PROVE  /\ Passed(l, S) \in Local
           /\ Passed(l, S).i = l.i + 1
           /\ Passed(l, S).candidates = l.candidates \cup ({l.i} \cap S)
<1> DEFINE next == l.i + 1
           more == l.candidates \cup ({l.i} \cap S)
<1>1. next \in 0..N /\ more \in SUBSET Endpoint
  BY EndpointsAssumption DEF Local
<1> HIDE DEF next, more
<1>2. [l EXCEPT !.i = next, !.candidates = more] \in Local
  BY <1>1 DEF Local
<1>3. /\ [l EXCEPT !.i = next, !.candidates = more].i = next
      /\ [l EXCEPT !.i = next, !.candidates = more].candidates = more
  BY DEF Local
<1> QED BY <1>2, <1>3 DEF Passed, next, more

\* A step of another process that leaves handler d's variables and the health flags
\* alone changes nothing for d.
Untouched(d) ==
    /\ pc'[d] = pc[d] /\ local'[d] = local[d] /\ client'[d] = client[d]
    /\ txs'[d] = txs[d] /\ outcome'[d] = outcome[d]
    /\ steady'[d] = steady[d] /\ seen'[d] = seen[d]

\* So what d relies on still holds.
LEMMA UntouchedKeeps ==
    ASSUME NEW d \in Caller, CallInv(d), Untouched(d), healthy' = healthy
    PROVE  CallInv(d)'
BY DEF CallInv, Untouched, InCall, Index

\* The steps of one handler.
Step(c) == HandlerStep(c) \/ \E what \in Requests : Request(c, what)

\* They leave the health checks and the other handlers alone.
LEMMA StepFrame ==
    ASSUME TypeOK, NEW c \in Caller, Step(c)
    PROVE  UNCHANGED healthVars /\ \A d \in Caller : d # c => Untouched(d)
<1> USE DEF TypeOK, Untouched, callVars, healthVars
<1>1. CASE Collect(c) \/ LoadCurrent(c) \/ SelectNext(c) \/ SelectHealthy(c)
  BY <1>1 DEF Collect, LoadCurrent, SelectNext, SelectHealthy
<1>2. CASE NoCandidate(c) \/ FetchFails(c) \/ LatestOk(c)
  BY <1>2 DEF NoCandidate, FetchFails, LatestOk, Answer
<1>3. CASE StoreCurrent(c) \/ Fallback(c)
  BY <1>3 DEF StoreCurrent, Fallback, Leave
<1>4. ASSUME NEW n \in 0..1, BlockOk(c, n)
      PROVE  UNCHANGED healthVars /\ \A d \in Caller : d # c => Untouched(d)
  BY <1>4 DEF BlockOk, Enter
<1>5. ASSUME NEW n \in 0..1, Receipts(c, n)
      PROVE  UNCHANGED healthVars /\ \A d \in Caller : d # c => Untouched(d)
  BY <1>5 DEF Receipts, Answer
<1>6. ASSUME NEW what \in Requests, Request(c, what)
      PROVE  UNCHANGED healthVars /\ \A d \in Caller : d # c => Untouched(d)
  BY <1>6 DEF Request, Enter
<1> QED BY <1>1, <1>2, <1>3, <1>4, <1>5, <1>6 DEF Step, HandlerStep

\* The invariant's types are kept by every step.
LEMMA EndpointsTypeStep ==
    ASSUME EndpointsInv, [Next]_vars
    PROVE  TypeOK'
<1> USE DEF TypeOK, NoClient
<1>0. TypeOK /\ Fresh \in Local
  BY EndpointsAssumption DEF EndpointsInv, Fresh, Local, Endpoint
<1>1. CASE Environment \/ Tick
  BY <1>0, <1>1 DEF Environment, Tick, callVars
<1>2. ASSUME NEW e \in Endpoint, BackoffEnds(e) \/ Probe(e) PROVE TypeOK'
  BY <1>0, <1>2 DEF BackoffEnds, Probe, callVars
<1>3. ASSUME NEW e \in Endpoint, StoreUp(e) PROVE TypeOK'
  BY <1>0, <1>3 DEF StoreUp, callVars
<1>4. ASSUME NEW e \in Endpoint, StoreDown(e) PROVE TypeOK'
  BY <1>0, <1>4 DEF StoreDown, callVars
<1>5. ASSUME NEW c \in Caller, NEW what \in Requests, Request(c, what) PROVE TypeOK'
  <2>1. what \in {"block", "latest"}
    BY EndpointsAssumption
  <2> QED BY <1>0, <1>5, <2>1 DEF Request, Enter, healthVars
<1>6. ASSUME NEW c \in Caller, Collect(c) PROVE TypeOK'
  <2>1. local' = [local EXCEPT ![c] = Passed(local[c], healthy)]
    BY <1>6 DEF Collect
  <2>2. Passed(local[c], healthy) \in Local
    BY <1>0, <1>6, PassedType DEF Collect
  <2>3. local' \in [Caller -> Local]
    BY <1>0, <2>1, <2>2
  <2> QED BY <1>0, <1>6, <2>3 DEF Collect, healthVars
<1>7. ASSUME NEW c \in Caller, NEW r \in {"no_client", "error", "latest", "block"}, Answer(c, r),
             UNCHANGED <<healthVars, current, op, txs>>
      PROVE  TypeOK'
  BY <1>0, <1>7 DEF Answer, healthVars
<1>8. ASSUME NEW c \in Caller, NoCandidate(c) \/ FetchFails(c) \/ LatestOk(c) PROVE TypeOK'
  BY <1>0, <1>7, <1>8 DEF NoCandidate, FetchFails, LatestOk
<1>9. ASSUME NEW c \in Caller, LoadCurrent(c) \/ SelectNext(c) PROVE TypeOK'
  <2>1. local' \in [Caller -> Local]
    <3>1. local[c] \in Local /\ [local[c] EXCEPT !.cur = current] \in Local
          /\ [local[c] EXCEPT !.offset = @ + 1] \in Local
      BY <1>0 DEF Local
    <3>2. \/ local' = [local EXCEPT ![c] = [local[c] EXCEPT !.cur = current]]
          \/ local' = [local EXCEPT ![c] = [local[c] EXCEPT !.offset = @ + 1]]
      BY <1>0, <1>9 DEF LoadCurrent, SelectNext
    <3> QED BY <1>0, <3>1, <3>2
  <2> QED BY <1>0, <1>9, <2>1 DEF LoadCurrent, SelectNext, healthVars
<1>10. ASSUME NEW c \in Caller, SelectHealthy(c) PROVE TypeOK'
  BY <1>0, <1>10 DEF SelectHealthy, healthVars
<1>11. ASSUME NEW c \in Caller, NEW e \in Endpoint, Leave(c, e), current' \in Endpoint,
              UNCHANGED <<healthVars, op, txs, outcome>>
       PROVE  TypeOK'
  BY <1>0, <1>11 DEF Leave, healthVars
<1>12. ASSUME NEW c \in Caller, StoreCurrent(c) PROVE TypeOK'
  BY <1>0, <1>11, <1>12, IndexType DEF StoreCurrent
<1>13. ASSUME NEW c \in Caller, Fallback(c) PROVE TypeOK'
  <2>1. local[c].candidates \in SUBSET Endpoint /\ local[c].candidates # {}
    BY <1>0, <1>13 DEF Fallback, EndpointsInv, CallInv, Local
  <2> QED BY <1>0, <1>11, <1>13, <2>1, FirstEndpoint DEF Fallback
<1>14. ASSUME NEW c \in Caller, NEW n \in 0..1, BlockOk(c, n) PROVE TypeOK'
  BY <1>0, <1>14 DEF BlockOk, Enter, healthVars
<1>15. ASSUME NEW c \in Caller, NEW n \in 0..1, Receipts(c, n) PROVE TypeOK'
  <2>1. Answer(c, "block") \/ Answer(c, "error")
    BY <1>15 DEF Receipts
  <2> QED BY <1>7, <1>15, <2>1 DEF Receipts
<1>16. CASE UNCHANGED vars
  BY <1>0, <1>16 DEF vars, healthVars, callVars
<1> QED
  BY <1>1, <1>2, <1>3, <1>4, <1>5, <1>6, <1>8, <1>9, <1>10, <1>12, <1>13, <1>14, <1>15, <1>16
  DEF Next, HealthStep, HandlerStep

\* A step of handler c keeps what it relies on.
LEMMA StepKeeps ==
    ASSUME EndpointsInv, NEW c \in Caller, Step(c)
    PROVE  CallInv(c)'
<1> USE DEF InCall
<1>0. TypeOK /\ CallInv(c) /\ healthy' = healthy /\ healthy \subseteq Endpoint
  BY StepFrame DEF EndpointsInv, TypeOK, healthVars
<1>1. ASSUME Enter(c), pc'[c] = "collect"
      PROVE  CallInv(c)'
  <2>1. /\ local'[c].i = 0 /\ local'[c].candidates = {} /\ client'[c] = NoClient
        /\ steady'[c] = healthy /\ seen'[c] = healthy
    BY <1>0, <1>1 DEF Enter, TypeOK, Fresh
  <2>2. \A e \in healthy : ~(e < 0)
    BY <1>0, EndpointsAssumption DEF Endpoint
  <2> QED BY <1>0, <1>1, <2>1, <2>2 DEF CallInv
<1>2. ASSUME NEW r, Answer(c, r) PROVE CallInv(c)'
  <2>1. pc'[c] = "done" /\ steady'[c] = {}
    BY <1>0, <1>2 DEF Answer, TypeOK
  <2> QED BY <1>2, <2>1 DEF CallInv
<1>3. ASSUME NEW what \in Requests, Request(c, what) PROVE CallInv(c)'
  BY <1>0, <1>1, <1>3 DEF Request, TypeOK
<1>4. ASSUME NEW n \in 0..1, BlockOk(c, n) PROVE CallInv(c)'
  BY <1>0, <1>1, <1>4 DEF BlockOk, TypeOK
<1>5. CASE NoCandidate(c) \/ FetchFails(c) \/ LatestOk(c)
  BY <1>2, <1>5 DEF NoCandidate, FetchFails, LatestOk
<1>6. ASSUME NEW n \in 0..1, Receipts(c, n) PROVE CallInv(c)'
  BY <1>2, <1>6 DEF Receipts
<1>7. ASSUME NEW e, Leave(c, e) PROVE CallInv(c)'
  <2>1. pc'[c] \in {"receipts", "fetch"} /\ steady'[c] = {}
    BY <1>0, <1>7 DEF Leave, TypeOK
  <2> QED BY <1>0, <1>7, <2>1 DEF CallInv
<1>8. CASE StoreCurrent(c) \/ Fallback(c)
  BY <1>7, <1>8 DEF StoreCurrent, Fallback
<1>9. CASE Collect(c)
  <2>1. /\ pc[c] = "collect" /\ local[c] \in Local /\ local[c].i < N
        /\ UNCHANGED <<pc, client, outcome, steady, seen>>
        /\ local'[c] = Passed(local[c], healthy)
    BY <1>0, <1>9 DEF Collect, TypeOK
  <2>2. /\ local'[c].i = local[c].i + 1
        /\ local'[c].candidates = local[c].candidates \cup ({local[c].i} \cap healthy)
    BY <1>0, <2>1, PassedType
  <2>3. ASSUME NEW e \in steady[c], e < local[c].i + 1 PROVE e \in local'[c].candidates
    <3>0. e \in healthy /\ e \in Endpoint
      BY <1>0 DEF CallInv
    <3>1. e \in healthy /\ e \in Nat /\ local[c].i \in Nat
      BY <2>1, <3>0, EndpointsAssumption DEF Local, Endpoint
    <3>2. e < local[c].i \/ e = local[c].i
      BY <2>3, <3>1
    <3> QED BY <1>0, <2>1, <2>2, <3>1, <3>2 DEF CallInv
  <2> QED BY <1>0, <2>1, <2>2, <2>3 DEF CallInv
<1>10. CASE LoadCurrent(c) \/ SelectNext(c)
  <2>1. /\ pc[c] \in {"collect", "select"} /\ pc'[c] = "select" /\ local[c].candidates # {}
        /\ UNCHANGED <<client, outcome, steady, seen>>
        /\ local'[c].i = local[c].i /\ local'[c].candidates = local[c].candidates
    BY <1>0, <1>10 DEF LoadCurrent, SelectNext, MoreTurns, TypeOK, Local, CallInv
  <2> QED BY <1>0, <2>1 DEF CallInv
<1>11. CASE SelectHealthy(c)
  <2>1. /\ pc[c] = "select" /\ pc'[c] = "store" /\ Index(c) \in healthy
        /\ UNCHANGED <<local, client, outcome, steady, seen>>
    BY <1>0, <1>11 DEF SelectHealthy, MoreTurns, TypeOK
  <2>2. Index(c)' = Index(c)
    BY <2>1 DEF Index
  <2> QED BY <1>0, <2>1, <2>2 DEF CallInv
<1> QED BY <1>3, <1>4, <1>5, <1>6, <1>8, <1>9, <1>10, <1>11 DEF Step, HandlerStep

\* EndpointsInv is inductive.
LEMMA EndpointsInductive ==
    ASSUME EndpointsInv, [Next]_vars
    PROVE  EndpointsInv'
<1>1. ASSUME NEW c \in Caller, Step(c) PROVE \A d \in Caller : CallInv(d)'
  BY <1>1, StepFrame, StepKeeps, UntouchedKeeps DEF EndpointsInv, healthVars
<1>2. CASE \/ Environment \/ Tick \/ UNCHANGED vars
           \/ \E e \in Endpoint : BackoffEnds(e) \/ Probe(e)
  <2>1. healthy' = healthy /\ \A d \in Caller : Untouched(d)
    BY <1>2 DEF Environment, Tick, BackoffEnds, Probe, vars, healthVars, callVars, Untouched
  <2>2. \A d \in Caller : CallInv(d)'
    BY <2>1, UntouchedKeeps DEF EndpointsInv
  <2> QED BY <2>2, EndpointsTypeStep DEF EndpointsInv
<1>3. ASSUME NEW e \in Endpoint, StoreUp(e), NEW d \in Caller PROVE CallInv(d)'
  <2>1. /\ healthy' = healthy \cup {e} /\ UNCHANGED <<pc, local, client, txs, outcome, steady>>
        /\ seen'[d] = IF InCall(d) THEN seen[d] \cup {e} ELSE seen[d]
    BY <1>3 DEF StoreUp, callVars
  <2>2. Index(d)' = Index(d) /\ InCall(d)' = InCall(d)
    BY <2>1 DEF Index, InCall
  <2> QED BY <2>1, <2>2 DEF EndpointsInv, CallInv
<1>4. ASSUME NEW e \in Endpoint, StoreDown(e), NEW d \in Caller PROVE CallInv(d)'
  <2>1. /\ healthy' = healthy \ {e} /\ UNCHANGED <<pc, local, client, txs, outcome, seen>>
        /\ steady'[d] = steady[d] \ {e}
    BY <1>4 DEF StoreDown, callVars
  <2>2. Index(d)' = Index(d) /\ InCall(d)' = InCall(d)
    BY <2>1 DEF Index, InCall
  <2> QED BY <2>1, <2>2 DEF EndpointsInv, CallInv
<1>5. TypeOK'
  BY EndpointsTypeStep
<1> QED BY <1>1, <1>2, <1>3, <1>4, <1>5 DEF Next, HealthStep, Step, EndpointsInv

\* EndpointsInv holds in every reachable state.
LEMMA EndpointsInvariant == Spec => []EndpointsInv
<1>1. Init => EndpointsInv
  <2> SUFFICES ASSUME Init PROVE EndpointsInv
    OBVIOUS
  <2>1. Fresh \in Local /\ 0 \in Endpoint
    BY EndpointsAssumption DEF Fresh, Local, Endpoint
  <2>2. TypeOK
    BY <2>1 DEF Init, TypeOK, NoClient
  <2>3. \A c \in Caller : CallInv(c)
    BY DEF Init, CallInv, InCall
  <2> QED BY <2>2, <2>3 DEF EndpointsInv
<1>2. EndpointsInv /\ [Next]_vars => EndpointsInv'
  BY EndpointsInductive
<1> QED BY <1>1, <1>2, PTL DEF Spec

\* Theorem: the first loop of getHealthyClient never misses an endpoint that is healthy
\* all through the call, however health checks interleave with it.
THEOREM SteadyEndpointsCollected == Spec => []SteadyEndpointIsFound
<1>1. EndpointsInv => SteadyEndpointIsFound
  BY DEF EndpointsInv, CallInv, SteadyEndpointIsFound
<1> QED BY <1>1, EndpointsInvariant, PTL

\* "no healthy clients available" is an answer only if no endpoint was healthy from
\* the beginning of the call to its end.
NoClientOnlyIfNoneSteady == [][\A c \in Caller : NoCandidate(c) => steady[c] = {}]_vars

\* Theorem: the error of getHealthyClient is justified.
THEOREM ErrorJustified == Spec => NoClientOnlyIfNoneSteady
<1>1. EndpointsInv => \A c \in Caller : NoCandidate(c) => steady[c] = {}
  <2> SUFFICES ASSUME EndpointsInv, NEW c \in Caller, NoCandidate(c), NEW e \in steady[c] PROVE FALSE
    OBVIOUS
  <2>1. e \in Endpoint /\ pc[c] = "collect" /\ local[c].i = N /\ local[c].candidates = {}
    BY DEF EndpointsInv, TypeOK, NoCandidate
  <2>2. e < local[c].i
    BY <2>1, EndpointsAssumption DEF Endpoint
  <2> QED BY <2>1, <2>2 DEF EndpointsInv, CallInv
<1> QED BY <1>1, EndpointsInvariant, PTL DEF NoClientOnlyIfNoneSteady

\* Theorem: getHealthyClient returns only endpoints that were healthy during the call.
THEOREM ReturnedClientWasHealthy == Spec => ClientWasHealthy
<1>1. EndpointsInv /\ [Next]_vars =>
        [\A c \in Caller : InCall(c) /\ client'[c] # NoClient => client'[c] \in seen[c]]_vars
  <2> SUFFICES ASSUME EndpointsInv, Next, NEW c \in Caller, InCall(c), client'[c] # NoClient
               PROVE  client'[c] \in seen[c]
    OBVIOUS
  <2>0. TypeOK /\ CallInv(c) /\ client[c] = NoClient
    BY DEF EndpointsInv, CallInv
  <2>1. ASSUME NEW d \in Caller, Step(d), d # c PROVE FALSE
    BY <2>0, <2>1, StepFrame DEF Untouched
  <2>2. CASE Environment \/ HealthStep
    BY <2>0, <2>2 DEF Environment, HealthStep, Tick, BackoffEnds, Probe, StoreUp, StoreDown, callVars
  <2>3. CASE StoreCurrent(c)
    BY <2>0, <2>3 DEF StoreCurrent, Leave, CallInv, TypeOK
  <2>4. CASE Fallback(c)
    <3>1. pc[c] = "select" /\ local[c].candidates \in SUBSET Endpoint /\ local[c].candidates # {}
      BY <2>0, <2>4 DEF Fallback, CallInv, TypeOK, Local
    <3>2. client'[c] \in local[c].candidates
      BY <2>0, <2>4, <3>1, FirstEndpoint DEF Fallback, Leave, TypeOK
    <3> QED BY <2>0, <3>2 DEF CallInv
  <2>5. CASE Collect(c) \/ LoadCurrent(c) \/ SelectNext(c) \/ SelectHealthy(c) \/ NoCandidate(c)
    BY <2>0, <2>5 DEF Collect, LoadCurrent, SelectNext, SelectHealthy, NoCandidate, Answer, TypeOK
  <2>6. CASE \/ FetchFails(c) \/ LatestOk(c) \/ \E n \in 0..1 : BlockOk(c, n)
             \/ \E n \in 0..1 : Receipts(c, n)
             \/ \E what \in Requests : Request(c, what)
    BY <2>6 DEF FetchFails, LatestOk, BlockOk, Receipts, Request, InCall
  <2> QED BY <2>1, <2>2, <2>3, <2>4, <2>5, <2>6 DEF Next, Step, HandlerStep
<1> QED BY <1>1, EndpointsInvariant, PTL DEF Spec, ClientWasHealthy
=============================================================================
