---------------------------- MODULE BlockStream -----------------------------
(***************************************************************************)
(* EthereumService.GetBlockRange of chains/ethereum: the handler spawns a  *)
(* goroutine per block, at most Slots at a time, each of which fetches its *)
(* block and sends it on the stream; errors go into a channel of capacity  *)
(* one; the handler waits for all goroutines and returns the error, if any.*)
(***************************************************************************)
EXTENDS Integers, FiniteSets

CONSTANTS
    StartBlock, EndBlock,  \* the request
    Slots                  \* capacity of the sem channel

ASSUME StreamAssumption ==
    /\ StartBlock \in Int /\ EndBlock \in Int
    /\ Slots \in Nat \ {0}

VARIABLES
    handler,   \* where the handler is: "loop", "add", "wait", "return", "done"
    blockNum,  \* its loop variable
    go,        \* where each block's goroutine is
    sem,       \* elements in the sem channel
    wg,        \* the wait group's counter
    errCh,     \* the error in the channel, or NoError
    sent,      \* how often each block was sent to the client
    failures,  \* history: blocks whose fetch or send failed
    result,    \* what the handler returned
    client     \* "here", or "gone": disconnected, which cancels stream.Context()

vars == <<handler, blockNum, go, sem, wg, errCh, sent, failures, result, client>>

Blocks  == StartBlock..EndBlock
NoError == "none"
Errors  == {"fetch", "send"}

Init ==
    /\ handler = "loop"
    /\ blockNum = StartBlock
    /\ go = [b \in Blocks |-> "unborn"]
    /\ sem = 0
    /\ wg = 0
    /\ errCh = NoError
    /\ sent = [b \in Blocks |-> 0]
    /\ failures = {}
    /\ result = "open"
    /\ client = "here"

-----------------------------------------------------------------------------
(* The handler.                                                            *)

\* sem <- struct{}{}: waits while the channel is full.
AcquireSlot ==
    /\ handler = "loop"
    /\ blockNum <= EndBlock
    /\ sem < Slots
    /\ sem' = sem + 1
    /\ handler' = "add"
    /\ UNCHANGED <<blockNum, go, wg, errCh, sent, failures, result, client>>

\* wg.Add(1), the go statement and the loop's increment.
Spawn ==
    /\ handler = "add"
    /\ wg' = wg + 1
    /\ go' = [go EXCEPT ![blockNum] = "fetch"]
    /\ blockNum' = blockNum + 1
    /\ handler' = "loop"
    /\ UNCHANGED <<sem, errCh, sent, failures, result, client>>

LoopDone ==
    /\ handler = "loop"
    /\ blockNum > EndBlock
    /\ handler' = "wait"
    /\ UNCHANGED <<blockNum, go, sem, wg, errCh, sent, failures, result, client>>

\* Mutant of WaitDone: without the wait.
NoWait ==
    /\ handler = "wait"
    /\ handler' = "return"
    /\ UNCHANGED <<blockNum, go, sem, wg, errCh, sent, failures, result, client>>

\* wg.Wait() returns when the counter is zero; close(sem).
WaitDone ==
    /\ handler = "wait"
    /\ wg = 0
    /\ handler' = "return"
    /\ UNCHANGED <<blockNum, go, sem, wg, errCh, sent, failures, result, client>>

\* Mutant of Return: nil whatever is in the channel.
ReturnNil ==
    /\ handler = "return"
    /\ handler' = "done"
    /\ result' = "ok"
    /\ UNCHANGED <<blockNum, go, sem, wg, errCh, sent, failures, client>>

\* The select with a default: the error in the channel, or nil.
Return ==
    /\ handler = "return"
    /\ handler' = "done"
    /\ result' = IF errCh = NoError THEN "ok" ELSE "error"
    /\ errCh' = NoError
    /\ UNCHANGED <<blockNum, go, sem, wg, sent, failures, client>>

-----------------------------------------------------------------------------
(* The goroutines.                                                         *)

FetchOk(b) ==
    /\ go[b] = "fetch"
    /\ go' = [go EXCEPT ![b] = "send"]
    /\ UNCHANGED <<handler, blockNum, sem, wg, errCh, sent, failures, result, client>>

\* Mutant of ReportError: an unbuffered channel, on which the select always
\* takes its default.
UnbufferedErrCh(b, e) ==
    /\ failures' = failures \cup {b}
    /\ UNCHANGED errCh

\* The non-blocking send on errCh: dropped when an error is there already.
ReportError(b, e) ==
    /\ errCh' = IF errCh = NoError THEN e ELSE errCh
    /\ failures' = failures \cup {b}

\* Mutant of FetchFails: the early return skips the release of the slot.
FetchFailsLeaking(b) ==
    /\ go[b] = "fetch"
    /\ go' = [go EXCEPT ![b] = "exit"]
    /\ ReportError(b, "fetch")
    /\ UNCHANGED <<handler, blockNum, sem, wg, sent, result, client>>

FetchFails(b) ==
    /\ go[b] = "fetch"
    /\ go' = [go EXCEPT ![b] = "release"]
    /\ ReportError(b, "fetch")
    /\ UNCHANGED <<handler, blockNum, sem, wg, sent, result, client>>

\* stream.Send; the goroutines do not serialise it.  Messages are taken to
\* arrive whole, which the library does not promise for concurrent sends.
SendOk(b) ==
    /\ go[b] = "send"
    /\ go' = [go EXCEPT ![b] = "release"]
    /\ sent' = [sent EXCEPT ![b] = @ + 1]
    /\ UNCHANGED <<handler, blockNum, sem, wg, errCh, failures, result, client>>

SendFails(b) ==
    /\ go[b] = "send"
    /\ go' = [go EXCEPT ![b] = "release"]
    /\ ReportError(b, "send")
    /\ UNCHANGED <<handler, blockNum, sem, wg, sent, result, client>>

\* Mutant of ReleaseSlot: no receive from sem.
ReleaseForgotten(b) ==
    /\ go[b] = "release"
    /\ go' = [go EXCEPT ![b] = "exit"]
    /\ UNCHANGED <<handler, blockNum, sem, wg, errCh, sent, failures, result, client>>

\* The deferred function: <-sem ...
ReleaseSlot(b) ==
    /\ go[b] = "release"
    /\ go' = [go EXCEPT ![b] = "exit"]
    /\ sem' = sem - 1
    /\ UNCHANGED <<handler, blockNum, wg, errCh, sent, failures, result, client>>

\* ... and then wg.Done().
Done(b) ==
    /\ go[b] = "exit"
    /\ go' = [go EXCEPT ![b] = "dead"]
    /\ wg' = wg - 1
    /\ UNCHANGED <<handler, blockNum, sem, errCh, sent, failures, result, client>>

-----------------------------------------------------------------------------
\* The client disconnects or its deadline passes.
ClientLeaves ==
    /\ client = "here"
    /\ client' = "gone"
    /\ UNCHANGED <<handler, blockNum, go, sem, wg, errCh, sent, failures, result>>

\* A fetch or a send that fails because the context was cancelled.
Aborted(b) == client = "gone" /\ (FetchFails(b) \/ SendFails(b))

HandlerStep == AcquireSlot \/ Spawn \/ LoopDone \/ WaitDone \/ Return

GoStep(b) ==
    \/ FetchOk(b) \/ FetchFails(b)
    \/ SendOk(b) \/ SendFails(b)
    \/ ReleaseSlot(b) \/ Done(b)

Terminated == handler = "done" /\ UNCHANGED vars

Next == HandlerStep \/ (\E b \in Blocks : GoStep(b)) \/ ClientLeaves \/ Terminated

Spec == Init /\ [][Next]_vars

\* The Go scheduler runs every goroutine that can run, and a cancelled context ends
\* the fetches and sends that use it.  While the client is there none of them need
\* end: the fetches have no timeout, and Send waits for a client that does not read.
Fairness ==
    /\ WF_vars(HandlerStep)
    /\ \A b \in Blocks : WF_vars(ReleaseSlot(b) \/ Done(b)) /\ WF_vars(Aborted(b))

FairSpec == Spec /\ Fairness

-----------------------------------------------------------------------------
(* Properties.                                                             *)

States  == {"unborn", "fetch", "send", "release", "exit", "dead"}
Holding == {b \in Blocks : go[b] \in {"fetch", "send", "release"}}
Running == Holding \cup {b \in Blocks : go[b] = "exit"}

\* Every variable holds a value of the kind the code gives it, and the loop
\* never passes the block after the last of the range.
TypeOK ==
    /\ handler \in {"loop", "add", "wait", "return", "done"}
    /\ blockNum \in Int /\ (blockNum # StartBlock => blockNum <= EndBlock + 1)
    /\ go \in [Blocks -> States]
    /\ sem \in Int
    /\ wg \in Int
    /\ errCh \in Errors \cup {NoError}
    /\ sent \in [Blocks -> Nat]
    /\ failures \subseteq Blocks
    /\ result \in {"open", "ok", "error"}
    /\ client \in {"here", "gone"}

\* At most Slots blocks are being fetched and sent at any time, the slot the
\* handler holds for the next goroutine included, and every slot is given back
\* when the handler returns.
SlotsRespected ==
    /\ Cardinality(Holding) + (IF handler = "add" THEN 1 ELSE 0) = sem
    /\ sem \in 0..Slots
    /\ handler = "done" => sem = 0

\* GetBlockRange returns nil only if every block of the range was sent once and
\* no fetch and no send failed: the channel of capacity one drops errors but never
\* the fact that there was one.
OkMeansComplete ==
    result = "ok" => sent = [b \in Blocks |-> 1] /\ failures = {}

\* When the handler has returned nothing uses the stream any more.
QuietAfterReturn == result # "open" => \A b \in Blocks : go[b] = "dead"

\* The handler returns, unless one fetch or send hangs for ever with the client still
\* connected: no slot is lost and no wait group count left over whichever goroutines
\* fail, a full sem channel drains, and a client that leaves frees them all.
HandlerReturns ==
    \/ <>(handler = "done")
    \/ \E b \in Blocks : <>[](client = "here" /\ go[b] \in {"fetch", "send"})

\* The goroutines implement the promise made to the client.
Promise == INSTANCE RangeStream WITH received <- sent, status <- result

ImplementsPromise == Promise!Spec
=============================================================================
