--------------------------- MODULE SolanaFailover ---------------------------
(***************************************************************************)
(* The Solana RPC client of chains/solana: MultiClient, which fails over   *)
(* between endpoints with an index that all concurrent calls share, and    *)
(* the calls of SolanaRpcClient made through it.  get_latest_slot and      *)
(* get_blocks are one request; get_block is two, the block and then its    *)
(* time, each with a failover of its own.                                  *)
(***************************************************************************)
EXTENDS Naturals, FiniteSets

CONSTANTS
    N,        \* number of RPC endpoints
    Caller    \* concurrent calls

ASSUME FailoverAssumption == N \in Nat \ {0}

Endpoints == 0..(N - 1)

VARIABLES
    current,    \* the index shared by all calls
    pc,         \* "idle", "choose", "request" (awaiting an answer) or a result
    request,    \* "plain" (get_slot, get_blocks), "block" or "time"
    attempts,   \* attempts of the current request
    client,     \* the endpoint the current attempt goes to
    tried,      \* history: endpoints that failed the current request
    taken       \* history: endpoints other calls moved the index to during the request

vars == <<current, pc, request, attempts, client, tried, taken>>

Init ==
    /\ current = 0
    /\ pc = [c \in Caller |-> "idle"]
    /\ request = [c \in Caller |-> "plain"]
    /\ attempts = [c \in Caller |-> 0]
    /\ client = [c \in Caller |-> 0]
    /\ tried = [c \in Caller |-> {}]
    /\ taken = [c \in Caller |-> {}]

\* execute_with_failover begins.
Begin(c, r) ==
    /\ pc' = [pc EXCEPT ![c] = "choose"]
    /\ request' = [request EXCEPT ![c] = r]
    /\ attempts' = [attempts EXCEPT ![c] = 0]
    /\ tried' = [tried EXCEPT ![c] = {}]
    /\ taken' = [taken EXCEPT ![c] = {}]

Call(c) ==
    /\ pc[c] \in {"idle", "ok", "error", "invalid"}
    /\ \E r \in {"plain", "block"} : Begin(c, r)
    /\ UNCHANGED <<current, client>>

\* The first attempt goes to the endpoint that answered last.
CurrentClient(c) ==
    /\ pc[c] = "choose"
    /\ attempts[c] = 0
    /\ client' = [client EXCEPT ![c] = current]
    /\ pc' = [pc EXCEPT ![c] = "request"]
    /\ UNCHANGED <<current, request, attempts, tried, taken>>

\* A call between the choice of its first endpoint and its result.
UsesIndex(c) == pc[c] = "request" \/ (pc[c] = "choose" /\ attempts[c] > 0)

Following(i) == (i + 1) % N

\* The calls that use the index lose the endpoint it moves to, to c.
TakenBy(c) ==
    taken' = [d \in Caller |-> IF d # c /\ UsesIndex(d) THEN taken[d] \cup {Following(current)}
                                                      ELSE taken[d]]

\* Mutant of NextClient: the endpoint is looked up before the index is moved.
NextClientStale(c) ==
    /\ pc[c] = "choose"
    /\ attempts[c] > 0
    /\ current' = Following(current)
    /\ client' = [client EXCEPT ![c] = current]
    /\ pc' = [pc EXCEPT ![c] = "request"]
    /\ TakenBy(c)
    /\ UNCHANGED <<request, attempts, tried>>

\* The others move the shared index on, under its write lock, and take the
\* endpoint it then names.
NextClient(c) ==
    /\ pc[c] = "choose"
    /\ attempts[c] > 0
    /\ current' = Following(current)
    /\ client' = [client EXCEPT ![c] = Following(current)]
    /\ pc' = [pc EXCEPT ![c] = "request"]
    /\ TakenBy(c)
    /\ UNCHANGED <<request, attempts, tried>>

\* The block is there: get_block goes on to ask for its time.
BlockAnswered(c) ==
    /\ pc[c] = "request"
    /\ request[c] = "block"
    /\ Begin(c, "time")
    /\ UNCHANGED <<current, client>>

\* The last answer of a call.  get_block then converts the transactions, which
\* is an error for one that does not decode; no other endpoint is asked.
LastAnswered(c) ==
    /\ pc[c] = "request"
    /\ request[c] # "block"
    /\ \E result \in {"ok", "invalid"} :
          /\ result = "invalid" => request[c] = "time"
          /\ pc' = [pc EXCEPT ![c] = result]
    /\ UNCHANGED <<current, request, attempts, client, tried, taken>>

Exhausted(n) == n >= N

\* Mutant of Fails: the attempt is not counted.
FailsUncounted(c) ==
    /\ pc[c] = "request"
    /\ tried' = [tried EXCEPT ![c] = @ \cup {client[c]}]
    /\ pc' = [pc EXCEPT ![c] = "choose"]
    /\ UNCHANGED <<current, request, attempts, client, taken>>

\* The endpoint fails or the request times out: the last error is returned
\* after as many attempts as there are endpoints.
Fails(c) ==
    /\ pc[c] = "request"
    /\ tried' = [tried EXCEPT ![c] = @ \cup {client[c]}]
    /\ attempts' = [attempts EXCEPT ![c] = @ + 1]
    /\ pc' = [pc EXCEPT ![c] = IF Exhausted(attempts[c] + 1) THEN "error" ELSE "choose"]
    /\ UNCHANGED <<current, request, client, taken>>

Progress(c) ==
    CurrentClient(c) \/ NextClient(c) \/ BlockAnswered(c) \/ LastAnswered(c) \/ Fails(c)

Next == \E c \in Caller : Call(c) \/ Progress(c)

Spec == Init /\ [][Next]_vars

\* The tokio scheduler polls every task, and every request ends within the
\* timeout the RPC clients are built with.
FairSpec == Spec /\ \A c \in Caller : WF_vars(Progress(c))

-----------------------------------------------------------------------------
(* Properties.                                                             *)

Active(c) == pc[c] \in {"choose", "request"}

\* Every variable holds a value of the kind the code gives it; the shared index
\* is one of the endpoints, whatever the interleaving of the calls that move it.
TypeOK ==
    /\ current \in Endpoints
    /\ pc \in [Caller -> {"idle", "choose", "request", "ok", "error", "invalid"}]
    /\ request \in [Caller -> {"plain", "block", "time"}]
    /\ attempts \in [Caller -> 0..N]
    /\ client \in [Caller -> Endpoints]
    /\ tried \in [Caller -> SUBSET Endpoints]
    /\ taken \in [Caller -> SUBSET Endpoints]

\* A request that fails has been refused by every endpoint, except those that another
\* call moved the shared index to meanwhile: execute_with_failover counts attempts,
\* not endpoints, so concurrent calls can take endpoints from each other, but none is
\* overlooked otherwise, and a call that is alone has asked them all.
NoEndpointOverlooked ==
    \A c \in Caller : pc[c] = "error" => tried[c] \cup taken[c] = Endpoints

\* Every call returns: the attempts of a request are bounded although other
\* calls move the index under it for ever.
CallsReturn == \A c \in Caller : Active(c) ~> ~Active(c)
=============================================================================
