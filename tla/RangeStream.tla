----------------------------- MODULE RangeStream ----------------------------
(***************************************************************************)
(* What a client of the GetBlockRange call is promised: the blocks of the  *)
(* range arrive in some order, none of them twice, and the call ends       *)
(* without an error only if every one of them has arrived.                 *)
(***************************************************************************)
EXTENDS Integers

CONSTANTS StartBlock, EndBlock

VARIABLES
    received,  \* how often the client has received each block
    status     \* "open", "ok" or "error"

Blocks == StartBlock..EndBlock

Init == received = [b \in Blocks |-> 0] /\ status = "open"

Deliver(b) ==
    /\ status = "open"
    /\ received[b] = 0
    /\ received' = [received EXCEPT ![b] = 1]
    /\ UNCHANGED status

End ==
    /\ status = "open"
    /\ \/ (\A b \in Blocks : received[b] = 1) /\ status' = "ok"
       \/ status' = "error"
    /\ UNCHANGED received

Next == (\E b \in Blocks : Deliver(b)) \/ End

Spec == Init /\ [][Next]_<<received, status>>
=============================================================================
