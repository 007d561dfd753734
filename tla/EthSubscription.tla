-------------------------- MODULE EthSubscription --------------------------
(***************************************************************************)
(* SubscribeNewBlocks of the Ethereum service: the handler's loop over the *)
(* heads that a node announces on a websocket, each fetched by its number  *)
(* from an HTTP endpoint that may be another node, while the chain grows   *)
(* and is reorganised, the subscription breaks and the client leaves.      *)
(***************************************************************************)
EXTENDS Naturals, Sequences, SequencesExt

CONSTANTS
    Node,       \* the HTTP endpoints
    QueueCap,   \* heads the websocket library holds for a slow handler
    MaxHeight,  \* bound: the length of the chain
    MaxForks    \* bound: changes of the chain

ASSUME SubscriptionAssumption ==
    /\ Node # {} /\ QueueCap \in Nat
    /\ MaxHeight \in Nat \ {0} /\ MaxForks \in Nat

VARIABLES
    chain,      \* the canonical chain of the announcing node, genesis first
    forks,      \* changes of the chain so far
    views,      \* the chain as each HTTP endpoint knows it
    wsHealthy,  \* some websocket endpoint's isHealthy is true
    sub,        \* the subscription: "none", "live" or "failed"
    queue,      \* heads announced and not yet taken from the headers channel
    cancelled,  \* the stream's context is done
    pc,         \* where the handler is
    held,       \* the head it works on, as a sequence
    fetched,    \* the block it has fetched for it, as a sequence
    announced,  \* history: the heads announced to the subscription
    delivered   \* history: the blocks sent

chainVars == <<chain, forks, views>>
vars == <<chainVars, wsHealthy, sub, queue, cancelled, pc, held, fetched, announced, delivered>>

\* A block, with the change of the chain that brought it and whether it has
\* transactions.
Block(n, f, full) == [number |-> n, fork |-> f, full |-> full]

\* The health check has not yet looked at the websocket endpoints:
\* initializeClients checks the HTTP endpoints only.
Init ==
    /\ chain = <<Block(1, 0, FALSE)>>
    /\ forks = 0
    /\ views = [e \in Node |-> chain]
    /\ wsHealthy = FALSE
    /\ sub = "none"
    /\ queue = <<>>
    /\ cancelled = FALSE
    /\ pc = "start"
    /\ held = <<>>
    /\ fetched = <<>>
    /\ announced = <<>>
    /\ delivered = <<>>

-----------------------------------------------------------------------------
(* The nodes, the websocket library and the client.                        *)

\* The library hands heads on in order and gives up when too many wait.
Announce(heads) ==
    IF sub # "live" THEN UNCHANGED <<sub, queue, announced>>
    ELSE IF Len(queue) + Len(heads) > QueueCap
      THEN /\ sub' = "failed"
           /\ queue' = <<>>
           /\ UNCHANGED announced
      ELSE /\ queue' = queue \o heads
           /\ announced' = announced \o heads
           /\ UNCHANGED sub

\* A new branch replaces what followed a block; the node announces every block
\* of it or only the last.
NewBranch ==
    /\ forks < MaxForks
    /\ forks' = forks + 1
    /\ \E keep \in 1..Len(chain), n \in 1..MaxHeight, full \in BOOLEAN :
          /\ keep + n <= MaxHeight
          /\ LET branch == [i \in 1..n |-> Block(keep + i, forks', full)]
             IN  /\ chain' = SubSeq(chain, 1, keep) \o branch
                 /\ Announce(branch) \/ Announce(<<Last(branch)>>)
    /\ UNCHANGED <<views, wsHealthy, cancelled, pc, held, fetched, delivered>>

CatchUp(e) ==
    /\ views' = [views EXCEPT ![e] = chain]
    /\ UNCHANGED <<chain, forks, wsHealthy, sub, queue, cancelled, pc, held, fetched,
                   announced, delivered>>

\* A round of health checks; nothing asks for their result once the handler has
\* its websocket client.
CheckHealth ==
    /\ pc = "start"
    /\ wsHealthy' \in BOOLEAN
    /\ UNCHANGED <<chainVars, sub, queue, cancelled, pc, held, fetched, announced, delivered>>

\* The websocket connection is lost; what the library held is gone.
Disconnect ==
    /\ sub = "live"
    /\ sub' = "failed"
    /\ queue' = <<>>
    /\ UNCHANGED <<chainVars, wsHealthy, cancelled, pc, held, fetched, announced, delivered>>

ClientLeaves ==
    /\ cancelled' = TRUE
    /\ UNCHANGED <<chainVars, wsHealthy, sub, queue, pc, held, fetched, announced, delivered>>

-----------------------------------------------------------------------------
(* The handler.                                                            *)

\* return with an error; the deferred Unsubscribe ends the subscription.
Return ==
    /\ pc' = "returned"
    /\ sub' = "none"
    /\ queue' = <<>>
    /\ held' = <<>>
    /\ fetched' = <<>>
    /\ UNCHANGED <<chainVars, wsHealthy, cancelled, announced, delivered>>

\* s.client.WSClient()
WSClient ==
    /\ pc = "start"
    /\ wsHealthy
    /\ pc' = "subscribe"
    /\ UNCHANGED <<chainVars, wsHealthy, sub, queue, cancelled, held, fetched, announced, delivered>>

NoWSClient == pc = "start" /\ ~wsHealthy /\ Return

SubscribeNewHead ==
    /\ pc = "subscribe"
    /\ ~cancelled
    /\ sub' = "live"
    /\ pc' = "select"
    /\ UNCHANGED <<chainVars, wsHealthy, queue, cancelled, held, fetched, announced, delivered>>

SubscribeFails == pc = "subscribe" /\ Return

\* The three cases of the select.
SubscriptionError == pc = "select" /\ sub = "failed" /\ Return

TakeHeader ==
    /\ pc = "select"
    /\ queue # <<>>
    /\ held' = <<Head(queue)>>
    /\ queue' = Tail(queue)
    /\ pc' = "block"
    /\ UNCHANGED <<chainVars, wsHealthy, sub, cancelled, fetched, announced, delivered>>

\* Mutant of ContextDone: the select has no such case.
NoContextDone == FALSE

ContextDone == pc = "select" /\ cancelled /\ Return

\* What BlockByNumber finds at an endpoint, and whether the endpoint is behind.
Found(e, n) == [block |-> views[e][n], behind |-> views[e] # chain]

\* Mutant of FetchBlock: a cache of blocks by number.
FetchBlockCached ==
    /\ pc = "block"
    /\ ~cancelled
    /\ \E e \in Node :
          /\ held[1].number <= Len(views[e])
          /\ LET Same(d) == d.block.number = held[1].number
             IN  fetched' = IF SelectSeq(delivered, Same) # <<>>
                            THEN <<Head(SelectSeq(delivered, Same))>>
                            ELSE <<Found(e, held[1].number)>>
    /\ pc' = "receipts"
    /\ UNCHANGED <<chainVars, wsHealthy, sub, queue, cancelled, held, announced, delivered>>

\* fetchBlockData: BlockByNumber at the endpoint CurrentClient picks (module
\* EthEndpoints); the head's hash is not looked at.
FetchBlock ==
    /\ pc = "block"
    /\ ~cancelled
    /\ \E e \in Node :
          /\ held[1].number <= Len(views[e])
          /\ fetched' = <<Found(e, held[1].number)>>
    /\ pc' = "receipts"
    /\ UNCHANGED <<chainVars, wsHealthy, sub, queue, cancelled, held, announced, delivered>>

\* Mutant of FetchFails: continue instead of return.
FetchFailsContinues ==
    /\ pc = "block"
    /\ held' = <<>>
    /\ pc' = "select"
    /\ UNCHANGED <<chainVars, wsHealthy, sub, queue, cancelled, fetched, announced, delivered>>

\* No healthy endpoint, a request that fails, or a number the endpoint does not
\* know (yet, or any more).
FetchFails == pc = "block" /\ Return

\* getBlockReceipts: an endpoint that does not know the block, or a call that
\* fails, leaves no receipts, which are as many as an empty block has.
FetchReceipts ==
    /\ pc = "receipts"
    /\ \/ ~fetched[1].block.full
       \/ ~cancelled /\ \E e \in Node : fetched[1].block \in ToSet(views[e])
    /\ pc' = "send"
    /\ UNCHANGED <<chainVars, wsHealthy, sub, queue, cancelled, held, fetched, announced, delivered>>

ReceiptsFail == pc = "receipts" /\ Return

\* stream.Send, which waits while the client does not read.
Send ==
    /\ pc = "send"
    /\ ~cancelled
    /\ delivered' = Append(delivered, fetched[1])
    /\ held' = <<>>
    /\ fetched' = <<>>
    /\ pc' = "select"
    /\ UNCHANGED <<chainVars, wsHealthy, sub, queue, cancelled, announced>>

SendFails == pc = "send" /\ cancelled /\ Return

HandlerStep ==
    \/ WSClient \/ NoWSClient \/ SubscribeNewHead \/ SubscribeFails
    \/ SubscriptionError \/ TakeHeader \/ ContextDone
    \/ FetchBlock \/ FetchFails \/ FetchReceipts \/ ReceiptsFail \/ SendFails

Next ==
    \/ HandlerStep \/ Send
    \/ NewBranch \/ (\E e \in Node : CatchUp(e)) \/ CheckHealth \/ Disconnect \/ ClientLeaves

Spec == Init /\ [][Next]_vars

\* The handler's goroutine runs and its requests end; a Send ends only if the
\* client reads or leaves.
FairSpec == Spec /\ WF_vars(HandlerStep)

-----------------------------------------------------------------------------
(* Properties.                                                             *)

Numbers(blocks) == [i \in 1..Len(blocks) |-> blocks[i].number]
Sent == [i \in 1..Len(delivered) |-> delivered[i].block]

\* While the subscription lives, every head that was announced has had the block
\* of its number sent, in order, or is on its way, across reorganisations,
\* endpoints that are behind and a client that reads slowly: a failure or an
\* overflow ends the stream and never leaves a head out.
NoHeadSkipped ==
    sub = "live" => Numbers(announced) = Numbers(Sent \o held \o queue)

\* When the handler has nothing left to do, the last block it sent is the head of
\* the chain now, although it was fetched by number after the chain may have
\* changed; the exception is an answer from an endpoint that was behind.
LastSentIsHead ==
    sub = "live" /\ pc = "select" /\ queue = <<>> /\ delivered # <<>> =>
        Last(delivered).block = Last(chain) \/ Last(delivered).behind

\* Once the client has left, the handler returns, wherever it is, and leaves no
\* subscription behind.
LeftHandlerReturns == cancelled ~> (pc = "returned" /\ sub = "none")
=============================================================================
