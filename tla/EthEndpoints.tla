---------------------------- MODULE EthEndpoints ----------------------------
(***************************************************************************)
(* The HTTP endpoints of chains/ethereum: rpc.Client with its periodic     *)
(* health checks, and the gRPC handlers that ask it for a healthy client   *)
(* (getHealthyClient), once for the block or the header and, for a block,  *)
(* a second time for its receipts.  Every read and write of an endpoint's  *)
(* isHealthy and of the shared current index is a step of its own; nothing *)
(* locks them.                                                             *)
(***************************************************************************)
EXTENDS Integers, FiniteSets

CONSTANTS
    N,           \* number of HTTP endpoints
    Caller,      \* concurrent gRPC handlers
    Requests,    \* what they may be asked for: "block", "latest"
    MaxFailures  \* bound: failureCount saturates here

ASSUME EndpointsAssumption ==
    /\ N \in Nat \ {0} /\ MaxFailures \in Nat \ {0}
    /\ Requests \subseteq {"block", "latest"}

VARIABLES
    reachable,  \* the endpoints that answer
    healthy,    \* the endpoints whose isHealthy is true
    failures,   \* failureCount per endpoint
    check,      \* the health check's goroutine per endpoint
    current,    \* the shared index c.current
    pc,         \* where each handler is
    op,         \* what it fetches: "block" or "latest"
    local,      \* its locals in getHealthyClient
    client,     \* the endpoint getHealthyClient returned
    txs,        \* number of transactions of the block it has
    outcome,    \* what it answered
    steady,     \* history: endpoints healthy since getHealthyClient was called
    seen        \* history: endpoints healthy at some time since then

healthVars == <<reachable, healthy, failures, check>>
callVars   == <<pc, op, local, client, txs, outcome>>
vars       == <<healthVars, current, callVars, steady, seen>>

Endpoint == 0..(N - 1)
NoClient == -1
Fresh    == [i |-> 0, candidates |-> {}, cur |-> 0, offset |-> 0]

\* The server has started: initializeClients has checked every endpoint once and
\* found a healthy one.
Init ==
    /\ reachable \in SUBSET Endpoint
    /\ healthy \in SUBSET Endpoint \ {{}}
    /\ failures = [e \in Endpoint |-> IF e \in healthy THEN 0 ELSE 1]
    /\ check = [e \in Endpoint |-> "idle"]
    /\ current = 0
    /\ pc = [c \in Caller |-> "idle"]
    /\ op = [c \in Caller |-> "block"]
    /\ local = [c \in Caller |-> Fresh]
    /\ client = [c \in Caller |-> NoClient]
    /\ txs = [c \in Caller |-> 0]
    /\ outcome = [c \in Caller |-> "none"]
    /\ steady = [c \in Caller |-> {}]
    /\ seen = [c \in Caller |-> {}]

\* An endpoint goes away or comes back.
Environment ==
    /\ \E e \in Endpoint :
          reachable' = IF e \in reachable THEN reachable \ {e} ELSE reachable \cup {e}
    /\ UNCHANGED <<healthy, failures, check, current, callVars, steady, seen>>

-----------------------------------------------------------------------------
(* Health checks.                                                          *)

\* A tick of startHealthChecks: a goroutine per endpoint, which first sleeps if
\* the endpoint has failed before.  The next round waits for all of them.
Tick ==
    /\ \A e \in Endpoint : check[e] = "idle"
    /\ check' = [e \in Endpoint |-> IF failures[e] > 0 THEN "sleep" ELSE "probe"]
    /\ UNCHANGED <<reachable, healthy, failures, current, callVars, steady, seen>>

BackoffEnds(e) ==
    /\ check[e] = "sleep"
    /\ check' = [check EXCEPT ![e] = "probe"]
    /\ UNCHANGED <<reachable, healthy, failures, current, callVars, steady, seen>>

\* hc.client.ChainID answers or fails ...
Probe(e) ==
    /\ check[e] = "probe"
    /\ check' = [check EXCEPT ![e] = IF e \in reachable THEN "up" ELSE "down"]
    /\ UNCHANGED <<reachable, healthy, failures, current, callVars, steady, seen>>

\* The handler is in getHealthyClient.
InCall(c) == pc[c] \in {"collect", "select", "store"}

\* Mutant of StoreUp: only the failure count is stored.
StoreUpForgotten(e) ==
    /\ check[e] = "up"
    /\ failures' = [failures EXCEPT ![e] = 0]
    /\ check' = [check EXCEPT ![e] = "idle"]
    /\ UNCHANGED <<reachable, healthy, current, callVars, steady, seen>>

\* ... and what it said is stored later.
StoreUp(e) ==
    /\ check[e] = "up"
    /\ healthy' = healthy \cup {e}
    /\ failures' = [failures EXCEPT ![e] = 0]
    /\ check' = [check EXCEPT ![e] = "idle"]
    /\ seen' = [c \in Caller |-> IF InCall(c) THEN seen[c] \cup {e} ELSE seen[c]]
    /\ UNCHANGED <<reachable, current, callVars, steady>>

StoreDown(e) ==
    /\ check[e] = "down"
    /\ healthy' = healthy \ {e}
    /\ failures' = [failures EXCEPT ![e] = IF @ < MaxFailures THEN @ + 1 ELSE @]
    /\ check' = [check EXCEPT ![e] = "idle"]
    /\ steady' = [c \in Caller |-> steady[c] \ {e}]
    /\ UNCHANGED <<reachable, current, callVars, seen>>

-----------------------------------------------------------------------------
(* getHealthyClient.                                                       *)

\* CurrentClient() is called: the history restarts.
Enter(c) ==
    /\ local' = [local EXCEPT ![c] = Fresh]
    /\ client' = [client EXCEPT ![c] = NoClient]
    /\ steady' = [steady EXCEPT ![c] = healthy]
    /\ seen' = [seen EXCEPT ![c] = healthy]

\* It returns: to the request for the block, or to the one for the receipts.
Leave(c, e) ==
    /\ local' = [local EXCEPT ![c] = Fresh]
    /\ steady' = [steady EXCEPT ![c] = {}]
    /\ seen' = [seen EXCEPT ![c] = {}]
    /\ client' = [client EXCEPT ![c] = e]
    /\ pc' = [pc EXCEPT ![c] = IF op[c] = "receipts" THEN "receipts" ELSE "fetch"]

\* The handler answers its request; its frames are gone.
Answer(c, result) ==
    /\ pc' = [pc EXCEPT ![c] = "done"]
    /\ outcome' = [outcome EXCEPT ![c] = result]
    /\ local' = [local EXCEPT ![c] = Fresh]
    /\ client' = [client EXCEPT ![c] = NoClient]
    /\ steady' = [steady EXCEPT ![c] = {}]
    /\ seen' = [seen EXCEPT ![c] = {}]

\* The locals after a turn of the first loop: endpoint i is a candidate if in S.
Passed(l, S) == [l EXCEPT !.i = l.i + 1, !.candidates = l.candidates \cup ({l.i} \cap S)]

\* Mutant of Collect: the loop starts at the second endpoint.
CollectFromSecond(c) ==
    /\ pc[c] = "collect"
    /\ local[c].i < N
    /\ local' = [local EXCEPT ![c] = Passed(@, healthy \ {0})]
    /\ UNCHANGED <<healthVars, current, pc, op, client, txs, outcome, steady, seen>>

\* One turn of the first loop.
Collect(c) ==
    /\ pc[c] = "collect"
    /\ local[c].i < N
    /\ local' = [local EXCEPT ![c] = Passed(@, healthy)]
    /\ UNCHANGED <<healthVars, current, pc, op, client, txs, outcome, steady, seen>>

\* No candidate: an error, which every handler passes on.
NoCandidate(c) ==
    /\ pc[c] = "collect"
    /\ local[c].i = N
    /\ local[c].candidates = {}
    /\ Answer(c, "no_client")
    /\ UNCHANGED <<healthVars, current, op, txs>>

\* cur := int(current.Add(0))
LoadCurrent(c) ==
    /\ pc[c] = "collect"
    /\ local[c].i = N
    /\ local[c].candidates # {}
    /\ pc' = [pc EXCEPT ![c] = "select"]
    /\ local' = [local EXCEPT ![c].cur = current]
    /\ UNCHANGED <<healthVars, current, op, client, txs, outcome, steady, seen>>

Index(c) == (local[c].cur + local[c].offset) % N

\* The second loop makes as many turns as there are candidates.
MoreTurns(c) ==
    pc[c] = "select" /\ local[c].offset < Cardinality(local[c].candidates)

SelectNext(c) ==
    /\ MoreTurns(c)
    /\ Index(c) \notin healthy
    /\ local' = [local EXCEPT ![c].offset = @ + 1]
    /\ UNCHANGED <<healthVars, current, pc, op, client, txs, outcome, steady, seen>>

SelectHealthy(c) ==
    /\ MoreTurns(c)
    /\ Index(c) \in healthy
    /\ pc' = [pc EXCEPT ![c] = "store"]
    /\ UNCHANGED <<healthVars, current, op, local, client, txs, outcome, steady, seen>>

StoreCurrent(c) ==
    /\ pc[c] = "store"
    /\ current' = Index(c)
    /\ Leave(c, Index(c))
    /\ UNCHANGED <<healthVars, op, txs, outcome>>

\* Mutant of Fallback: the first endpoint instead of the first candidate.
FallbackToFirst(c) ==
    /\ pc[c] = "select"
    /\ ~MoreTurns(c)
    /\ Leave(c, 0)
    /\ UNCHANGED <<healthVars, current, op, txs, outcome>>

\* No turn met a healthy endpoint: the first candidate, with current unchanged.
Fallback(c) ==
    /\ pc[c] = "select"
    /\ ~MoreTurns(c)
    /\ Leave(c, CHOOSE e \in local[c].candidates : \A d \in local[c].candidates : e <= d)
    /\ UNCHANGED <<healthVars, current, op, txs, outcome>>

-----------------------------------------------------------------------------
(* fetchBlockData and fetchLatestBlock.                                    *)

Request(c, what) ==
    /\ pc[c] = "idle"
    /\ pc' = [pc EXCEPT ![c] = "collect"]
    /\ op' = [op EXCEPT ![c] = what]
    /\ Enter(c)
    /\ UNCHANGED <<healthVars, current, txs, outcome>>

FetchFails(c) ==
    /\ pc[c] = "fetch"
    /\ Answer(c, "error")
    /\ UNCHANGED <<healthVars, current, op, txs>>

LatestOk(c) ==
    /\ pc[c] = "fetch"
    /\ op[c] = "latest"
    /\ client[c] \in reachable
    /\ Answer(c, "latest")
    /\ UNCHANGED <<healthVars, current, op, txs>>

\* BlockByNumber answers; getBlockReceipts asks for a client again.
BlockOk(c, n) ==
    /\ pc[c] = "fetch"
    /\ op[c] = "block"
    /\ client[c] \in reachable
    /\ txs' = [txs EXCEPT ![c] = n]
    /\ op' = [op EXCEPT ![c] = "receipts"]
    /\ pc' = [pc EXCEPT ![c] = "collect"]
    /\ Enter(c)
    /\ UNCHANGED <<healthVars, current, outcome>>

\* eth_getBlockReceipts by block hash leaves n receipts.  Its error is not looked at:
\* a call that fails, or reaches an endpoint without that block, leaves none, and the
\* handler compares the number with that of the transactions.
Receipts(c, n) ==
    /\ pc[c] = "receipts"
    /\ n > 0 => n = txs[c] /\ client[c] \in reachable
    /\ Answer(c, IF n = txs[c] THEN "block" ELSE "error")
    /\ UNCHANGED <<healthVars, current, op, txs>>

-----------------------------------------------------------------------------
HealthStep == Tick \/ \E e \in Endpoint : BackoffEnds(e) \/ Probe(e) \/ StoreUp(e) \/ StoreDown(e)

HandlerStep(c) ==
    \/ Collect(c) \/ NoCandidate(c) \/ LoadCurrent(c)
    \/ SelectNext(c) \/ SelectHealthy(c) \/ StoreCurrent(c) \/ Fallback(c)
    \/ FetchFails(c) \/ LatestOk(c) \/ (\E n \in 0..1 : BlockOk(c, n))
    \/ \E n \in 0..1 : Receipts(c, n)

Next ==
    \/ Environment
    \/ HealthStep
    \/ \E c \in Caller : HandlerStep(c) \/ \E what \in Requests : Request(c, what)

Spec == Init /\ [][Next]_vars

\* The ticker ticks, sleeps end, probes end within their timeout, goroutines run.
Fairness ==
    /\ WF_vars(Tick)
    /\ \A e \in Endpoint : WF_vars(BackoffEnds(e) \/ Probe(e) \/ StoreUp(e) \/ StoreDown(e))
    /\ \A c \in Caller : WF_vars(HandlerStep(c))

FairSpec == Spec /\ Fairness

-----------------------------------------------------------------------------
(* Properties.                                                             *)

\* getHealthyClient only returns an endpoint that was healthy at some time during
\* the call, although the second loop may miss all candidates and health may
\* change between the two loops.
ClientWasHealthy ==
    [][\A c \in Caller : InCall(c) /\ client'[c] # NoClient => client'[c] \in seen[c]]_vars

\* "no healthy clients available" is never the answer while some endpoint has been
\* healthy all through the call.
SteadyEndpointIsFound ==
    \A c \in Caller : pc[c] \in {"collect", "select"} =>
        {e \in steady[c] : e < local[c].i} \subseteq local[c].candidates

\* Health follows reachability: an endpoint that answers from some time on is
\* marked healthy for good, and one that is gone for good is marked unhealthy,
\* whatever the other endpoints of its round do.
HealthConverges ==
    \A e \in Endpoint :
        /\ (<>[](e \in reachable)) => <>[](e \in healthy)
        /\ (<>[](e \notin reachable)) => <>[](e \notin healthy)
=============================================================================
