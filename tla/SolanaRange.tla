---------------------------- MODULE SolanaRange ----------------------------
(***************************************************************************)
(* get_block_range of the Solana service: the checks of the request, the   *)
(* task that lists the slots of the range and fetches them one after the   *)
(* other, the bounded response channel and the client of the stream.       *)
(***************************************************************************)
EXTENDS Integers, Sequences

CONSTANTS
    Half,      \* half of the numbers a slot can be (2^63 in the code)
    MaxRange,  \* MAX_RANGE
    Cap        \* capacity of the response channel (mpsc::channel(100))

ASSUME RangeAssumption ==
    /\ Half \in Nat \ {0} /\ Cap \in Nat \ {0}
    /\ MaxRange \in Nat /\ MaxRange < Half

Int64 == -Half..(Half - 1)

\* The values of as u64, and of a subtraction of i64 in a release build.
AsUnsigned(i) == i % (2 * Half)
Wrapped(i)    == ((i + Half) % (2 * Half)) - Half

VARIABLES
    req,       \* the request: start and end slot
    handler,   \* "check", "rejected" or "streaming"
    task,      \* "none", "list", "fetch", "send" or "ended"
    answered,  \* history: get_blocks has answered
    listed,    \* history: the slots it named
    todo,      \* its slots that the loop has not come to
    held,      \* the item about to be sent, as a sequence
    out,       \* the response channel
    stream,    \* for the client: "open", "ok", "error" or "left"
    received   \* history: the items the client got

request    == <<req, handler>>
answerVars == <<answered, listed>>
clientVars == <<out, stream, received>>
vars == <<request, task, answerVars, todo, held, clientVars>>

Block(s)     == [slot |-> s, ok |-> TRUE]
Failure(s)   == [slot |-> s, ok |-> FALSE]
ListFailure  == Failure(-1)

Init ==
    /\ req \in [start : Int64, end : Int64]
    /\ handler = "check"
    /\ task = "none"
    /\ answered = FALSE
    /\ listed = <<>>
    /\ todo = <<>>
    /\ held = <<>>
    /\ out = <<>>
    /\ stream = "open"
    /\ received = <<>>

\* Mutant of Accepted: without the second check.
AcceptedUnbounded == req.start <= req.end

Accepted == req.start <= req.end /\ Wrapped(req.end - req.start) <= MaxRange

\* The handler answers with a stream at once and leaves the work to a task.
Accept ==
    /\ handler = "check"
    /\ Accepted
    /\ handler' = "streaming"
    /\ task' = "list"
    /\ UNCHANGED <<req, answerVars, todo, held, clientVars>>

Reject ==
    /\ handler = "check"
    /\ ~Accepted
    /\ handler' = "rejected"
    /\ stream' = "error"
    /\ UNCHANGED <<req, task, answerVars, todo, held, out, received>>

\* Lists of slots of first..last in ascending order.
Ascending(first, last) ==
    UNION {{s \in [1..n -> first..last] : \A i \in 1..(n - 1) : s[i] < s[i + 1]} :
               n \in 0..(last - first + 1)}

\* get_blocks names slots of the range, in order; not every slot has a block, and a
\* range that ends before it starts has none.
List ==
    /\ task = "list"
    /\ listed' \in Ascending(AsUnsigned(req.start), AsUnsigned(req.end)) \cup {<<>>}
    /\ answered' = TRUE
    /\ todo' = listed'
    /\ task' = "fetch"
    /\ UNCHANGED <<request, held, clientVars>>

\* It fails at every endpoint.
ListFails ==
    /\ task = "list"
    /\ held' = <<ListFailure>>
    /\ task' = "send"
    /\ UNCHANGED <<request, answerVars, todo, clientVars>>

\* Mutant of Fetch: a slot whose block cannot be fetched is skipped.
FetchSkipsFailures ==
    /\ task = "fetch"
    /\ todo # <<>>
    /\ todo' = Tail(todo)
    /\ \/ held' = <<Block(Head(todo))>> /\ task' = "send"
       \/ UNCHANGED <<task, held>>
    /\ UNCHANGED <<request, answerVars, clientVars>>

\* One turn of the loop up to the send: get_block and convert_block_data, whose
\* errors are items like the blocks.
Fetch ==
    /\ task = "fetch"
    /\ todo # <<>>
    /\ held' \in {<<Block(Head(todo))>>, <<Failure(Head(todo))>>}
    /\ todo' = Tail(todo)
    /\ task' = "send"
    /\ UNCHANGED <<request, answerVars, clientVars>>

\* An index in convert_block_data or in the parser is out of range for a block
\* (module SolanaBlock).  Unwinding the task drops its clone of the client, whose
\* drop may not block on the runtime and panics too: the process aborts, and
\* the client sees the connection fail.
FetchPanics ==
    /\ task = "fetch"
    /\ todo # <<>>
    /\ task' = "ended"
    /\ out' = <<>>
    /\ stream' = IF stream = "open" THEN "error" ELSE stream
    /\ UNCHANGED <<request, answerVars, todo, held, received>>

LoopEnds ==
    /\ task = "fetch"
    /\ todo = <<>>
    /\ task' = "ended"
    /\ UNCHANGED <<request, answerVars, todo, held, clientVars>>

\* After the error of get_blocks there is no loop to go back to.
AfterSend == IF held = <<ListFailure>> THEN "ended" ELSE "fetch"

Room == Len(out) < Cap

Send ==
    /\ task = "send"
    /\ stream = "open"
    /\ Room
    /\ out' = out \o held
    /\ held' = <<>>
    /\ task' = AfterSend
    /\ UNCHANGED <<request, answerVars, todo, stream, received>>

\* Mutant of SendRefused: the item is kept for another try.
SendRetried ==
    /\ task = "send"
    /\ stream # "open"
    /\ UNCHANGED vars

\* The receiver is gone: break.
SendRefused ==
    /\ task = "send"
    /\ stream # "open"
    /\ held' = <<>>
    /\ task' = "ended"
    /\ UNCHANGED <<request, answerVars, todo, clientVars>>

\* The gRPC library: an Err item is the status that ends the stream, a closed
\* and empty channel ends it without an error.
Read ==
    /\ stream = "open"
    /\ out # <<>>
    /\ received' = Append(received, Head(out))
    /\ stream' = IF Head(out).ok THEN "open" ELSE "error"
    /\ out' = IF Head(out).ok THEN Tail(out) ELSE <<>>
    /\ UNCHANGED <<request, task, answerVars, todo, held>>

ReadEnd ==
    /\ stream = "open"
    /\ task = "ended"
    /\ out = <<>>
    /\ stream' = "ok"
    /\ UNCHANGED <<request, task, answerVars, todo, held, out, received>>

ClientLeaves ==
    /\ handler = "streaming"
    /\ stream = "open"
    /\ stream' = "left"
    /\ out' = <<>>
    /\ UNCHANGED <<request, task, answerVars, todo, held, received>>

TaskStep == List \/ ListFails \/ Fetch \/ LoopEnds \/ Send \/ SendRefused

Next == Accept \/ Reject \/ TaskStep \/ FetchPanics \/ Read \/ ReadEnd \/ ClientLeaves

Spec == Init /\ [][Next]_vars

\* tokio polls the task and its requests end; the client need not read.
FairSpec == Spec /\ WF_vars(TaskStep)

-----------------------------------------------------------------------------
(* Properties.                                                             *)

\* A stream that ends without an error has carried a block for every slot that
\* get_blocks named in its answer, in order, although the loop goes on after
\* errors, the client may be slower than the task, and a block may make the
\* task panic.
OkMeansAllListed ==
    stream = "ok" => answered /\ received = [i \in 1..Len(listed) |-> Block(listed[i])]

\* When the client has left, or has been sent an error, the task ends instead of
\* fetching for nobody or waiting for room in the channel.
ClosedStreamEndsTask ==
    (handler = "streaming" /\ stream # "open") ~> task = "ended"

\* The task never has more than MaxRange + 1 slots to fetch, although the check of
\* the range's length overflows for slots that are far apart: a request that wraps
\* around has a negative start, which as u64 lies after its end.
ListWithinLimit == Len(listed) <= MaxRange + 1
=============================================================================
