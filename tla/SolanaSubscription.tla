------------------------- MODULE SolanaSubscription -------------------------
(***************************************************************************)
(* subscribe_new_blocks of the Solana service, from a node's slot          *)
(* notifications to the client of the gRPC stream: the task of             *)
(* run_slot_subscription, the channel of updates it fills, the service's   *)
(* task that forwards them into the response channel, and the client.      *)
(***************************************************************************)
EXTENDS Naturals, Sequences

CONSTANTS
    Endpoints,  \* number of websocket endpoints
    Cap,        \* capacity of both channels (mpsc::channel(100))
    MaxDelay,   \* the longest reconnect delay in seconds
    StartSlot,  \* start_slot of the request
    MaxSlot,    \* bound: slots a node names
    MaxNotes    \* bound: slot notifications received

ASSUME SubscriptionAssumption ==
    /\ Endpoints \in Nat \ {0} /\ Cap \in Nat \ {0} /\ MaxDelay \in Nat \ {0}
    /\ StartSlot \in Nat /\ MaxSlot \in Nat /\ MaxNotes \in Nat

VARIABLES
    task,      \* where run_slot_subscription is
    endpoint,  \* current_endpoint
    delay,     \* reconnect_delay
    note,      \* the slot_info in its hands
    item,      \* the update it is about to send
    updates,   \* the channel of updates
    cancelled, \* the Subscription was dropped: cancel sent, its receiver closed
    active,    \* the id is in active_subscriptions
    service,   \* where the service's task is
    held,      \* the update it is about to forward, as a sequence
    out,       \* the response channel
    open,      \* the gRPC library still reads from it
    received,  \* history: what the client was sent
    made,      \* history: updates put in the channel that the client should get
    notes      \* notifications so far

connVars   == <<endpoint, delay>>
noteVars   == <<note, item, notes>>
chanVars   == <<updates, made>>
subVars    == <<cancelled, active>>
streamVars == <<service, held, out, open, received>>
vars == <<task, connVars, noteVars, chanVars, subVars, streamVars>>

Slots == 0..MaxSlot
Item  == [kind : {"slot", "block", "error"}, slot : Slots]
ErrorItem == [kind |-> "error", slot |-> 0]

\* What the service's loop forwards; it skips the rest.
Wanted(u) == u.kind = "error" \/ (u.kind = "block" /\ u.slot >= StartSlot)

Init ==
    /\ task = "none"
    /\ endpoint = 0
    /\ delay = 1
    /\ note = [slot |-> 0, root |-> FALSE]
    /\ item = ErrorItem
    /\ updates = <<>>
    /\ cancelled = FALSE
    /\ active = FALSE
    /\ service = "start"
    /\ held = <<>>
    /\ out = <<>>
    /\ open = TRUE
    /\ received = <<>>
    /\ made = <<>>
    /\ notes = 0

-----------------------------------------------------------------------------
(* run_slot_subscription.                                                  *)

\* Mutant of Send: try_send, which gives up on a full channel.
SendIfRoom(u) ==
    IF cancelled \/ Len(updates) >= Cap
      THEN /\ UNCHANGED updates
           /\ made' = IF ~cancelled /\ Wanted(u) THEN Append(made, u) ELSE made
      ELSE /\ updates' = Append(updates, u)
           /\ made' = IF Wanted(u) THEN Append(made, u) ELSE made

\* update_tx.send(u).await, which waits for room and fails once the receiver is
\* dropped.
Send(u) ==
    IF cancelled
      THEN UNCHANGED chanVars
      ELSE /\ Len(updates) < Cap
           /\ updates' = Append(updates, u)
           /\ made' = IF Wanted(u) THEN Append(made, u) ELSE made

NextDelay(d) == IF d * 2 > MaxDelay THEN MaxDelay ELSE d * 2

HandleReconnect ==
    /\ endpoint' = (endpoint + 1) % Endpoints
    /\ delay' = NextDelay(delay)
    /\ task' = "sleep"

\* PubsubClient::new and slot_subscribe, each of which may fail.
Connect ==
    /\ task = "connect"
    /\ task' \in {"subscribe", "report connect"}
    /\ UNCHANGED <<connVars, noteVars, chanVars, subVars, streamVars>>

SubscribeFails ==
    /\ task = "subscribe"
    /\ task' = "report subscribe"
    /\ UNCHANGED <<connVars, noteVars, chanVars, subVars, streamVars>>

SubscribeOk ==
    /\ task = "subscribe"
    /\ task' = "select"
    /\ delay' = 1
    /\ UNCHANGED <<endpoint, noteVars, chanVars, subVars, streamVars>>

\* The failure is an update like any other.
Report ==
    /\ task \in {"report connect", "report subscribe"}
    /\ ~cancelled
    /\ Send(ErrorItem)
    /\ HandleReconnect
    /\ UNCHANGED <<noteVars, subVars, streamVars>>

\* Mutant of ReportRefused: the result of the send is ignored, as it is for
\* the other updates.
RefusalIgnored ==
    /\ task \in {"report connect", "report subscribe"}
    /\ cancelled
    /\ HandleReconnect
    /\ UNCHANGED <<noteVars, chanVars, subVars, streamVars>>

\* Nobody is left to receive it: the task returns, and only the second of the
\* two places runs the cleanup that removes the id.
ReportRefused ==
    /\ task \in {"report connect", "report subscribe"}
    /\ cancelled
    /\ active' = (active /\ task = "report connect")
    /\ task' = "ended"
    /\ UNCHANGED <<connVars, noteVars, chanVars, cancelled, streamVars>>

\* The select!: shutdown, a notification, or the end of the node's stream.
SelectShutdown ==
    /\ task = "select"
    /\ cancelled
    /\ active' = FALSE
    /\ task' = "ended"
    /\ UNCHANGED <<connVars, noteVars, chanVars, cancelled, streamVars>>

SelectSlot ==
    /\ task = "select"
    /\ notes < MaxNotes
    /\ notes' = notes + 1
    /\ note' \in [slot : Slots, root : BOOLEAN]
    /\ task' = "announce"
    /\ UNCHANGED <<connVars, item, chanVars, subVars, streamVars>>

\* Mutant of SelectEnd: return instead of break.
SelectEndReturns ==
    /\ task = "select"
    /\ task' = "ended"
    /\ active' = FALSE
    /\ UNCHANGED <<connVars, noteVars, chanVars, cancelled, streamVars>>

SelectEnd ==
    /\ task = "select"
    /\ HandleReconnect
    /\ UNCHANGED <<noteVars, chanVars, subVars, streamVars>>

\* NewSlot is sent whatever comes of it; a slot that is its own root has its
\* block fetched next.
Announce ==
    /\ task = "announce"
    /\ Send([kind |-> "slot", slot |-> note.slot])
    /\ task' = IF note.root THEN "fetch" ELSE "select"
    /\ UNCHANGED <<connVars, noteVars, subVars, streamVars>>

Fetch ==
    /\ task = "fetch"
    /\ item' \in {[kind |-> "block", slot |-> note.slot], ErrorItem}
    /\ task' = "deliver"
    /\ UNCHANGED <<connVars, note, notes, chanVars, subVars, streamVars>>

Deliver ==
    /\ task = "deliver"
    /\ Send(item)
    /\ task' = "select"
    /\ UNCHANGED <<connVars, noteVars, subVars, streamVars>>

Wake ==
    /\ task = "sleep"
    /\ task' = "connect"
    /\ UNCHANGED <<connVars, noteVars, chanVars, subVars, streamVars>>

TaskStep ==
    \/ Connect \/ SubscribeOk \/ SubscribeFails \/ Report \/ ReportRefused
    \/ Announce \/ Fetch \/ Deliver \/ Wake

-----------------------------------------------------------------------------
(* The service's task.                                                     *)

\* subscribe_slots: the id is inserted before the task is spawned.
SubscribeSlots ==
    /\ service = "start"
    /\ service' = "recv"
    /\ active' = TRUE
    /\ task' = "connect"
    /\ UNCHANGED <<connVars, noteVars, chanVars, cancelled, held, out, open, received>>

Recv ==
    /\ service = "recv"
    /\ updates # <<>>
    /\ updates' = Tail(updates)
    /\ IF Wanted(Head(updates))
         THEN held' = <<Head(updates)>> /\ service' = "forward"
         ELSE UNCHANGED <<service, held>>
    /\ UNCHANGED <<task, connVars, noteVars, made, subVars, out, open, received>>

Forward ==
    /\ service = "forward"
    /\ open
    /\ Len(out) < Cap
    /\ out' = out \o held
    /\ held' = <<>>
    /\ service' = "recv"
    /\ UNCHANGED <<task, connVars, noteVars, chanVars, subVars, open, received>>

\* The task ends: the Subscription is dropped, which sends cancel and closes
\* the channel of updates.
ServiceEnds ==
    /\ service' = "ended"
    /\ held' = <<>>
    /\ cancelled' = TRUE
    /\ updates' = <<>>
    /\ UNCHANGED <<task, connVars, noteVars, made, active, out, open, received>>

\* The send fails because the response channel was closed: break.
ForwardRefused == service = "forward" /\ ~open /\ ServiceEnds

\* An index of convert_block_data or of the parser is out of range for a block
\* (module SolanaBlock).  Unwinding the task drops its clone of the client, whose
\* drop may not block on the runtime and panics too: the process aborts, with
\* every task, and the client sees the connection fail.
ConvertPanics ==
    /\ service = "forward"
    /\ held # <<>>
    /\ held[1].kind = "block"
    /\ service' = "ended"
    /\ task' = "ended"
    /\ held' = <<>>
    /\ updates' = <<>>
    /\ out' = <<>>
    /\ open' = FALSE
    /\ active' = FALSE
    /\ UNCHANGED <<connVars, noteVars, made, cancelled, received>>

ServiceStep == SubscribeSlots \/ Recv \/ Forward \/ ForwardRefused

-----------------------------------------------------------------------------
(* The gRPC library and the client.                                        *)

\* An Err item becomes the status that ends the stream.
Read ==
    /\ open
    /\ out # <<>>
    /\ received' = Append(received, Head(out))
    /\ open' = (Head(out).kind # "error")
    /\ out' = IF open' THEN Tail(out) ELSE <<>>
    /\ UNCHANGED <<task, connVars, noteVars, chanVars, subVars, service, held>>

ClientLeaves ==
    /\ open
    /\ open' = FALSE
    /\ out' = <<>>
    /\ UNCHANGED <<task, connVars, noteVars, chanVars, subVars, service, held, received>>

-----------------------------------------------------------------------------
Next ==
    \/ TaskStep \/ SelectShutdown \/ SelectSlot \/ SelectEnd
    \/ ServiceStep \/ ConvertPanics \/ Read \/ ClientLeaves

Spec == Init /\ [][Next]_vars

\* tokio polls every task, connecting and requests end, sleeps end, and select!
\* picks among its ready branches at random, so that shutdown is taken in the
\* end if the task comes back to the select! again and again.
FairSpec == Spec /\ WF_vars(TaskStep) /\ WF_vars(ServiceStep) /\ SF_vars(SelectShutdown)

-----------------------------------------------------------------------------
(* Properties.                                                             *)

\* The wanted ones of a sequence of updates, in order.
WantedOf(s) ==
    LET kept[n \in 0..Len(s)] ==
          IF n = 0 THEN <<>>
          ELSE IF Wanted(s[n]) THEN Append(kept[n - 1], s[n]) ELSE kept[n - 1]
    IN  kept[Len(s)]

\* Between the subscription and the client nothing that the client should get is
\* lost, repeated or overtaken, over two bounded channels and all reconnects:
\* what was made is what the client has, followed by what is on its way, for as
\* long as the client's stream is open.
PipelineComplete ==
    open => made = received \o out \o held \o WantedOf(updates)

\* The subscription does not end by itself: as long as the service's task
\* receives, somebody can still send, so a client's stream is not closed as
\* complete because a node closed its own.  Reconnects are never more than
\* MaxDelay apart, and after one that worked they begin at a second again.
SubscriptionPersists ==
    service \in {"recv", "forward"} =>
        /\ task # "ended"
        /\ delay <= MaxDelay
        /\ task \in {"select", "announce", "fetch", "deliver"} => delay = 1

\* Once the service's task is gone, its subscription task ends, wherever it is:
\* sending, fetching, asleep or in the middle of a reconnect.
CancelledTaskEnds == service = "ended" ~> task = "ended"
=============================================================================
