--------------------------- MODULE GrpcConnection ---------------------------
(***************************************************************************)
(* The gRPC connection to a chain service: Core.GRPC.Client (a GenServer   *)
(* that connects, retries with a growing delay and finally gives up),      *)
(* Core.GRPC.ConnectionRegistry (which is told of every status by a cast), *)
(* Core.GRPC.Supervisor (rest_for_one, the registry before the client) and,*)
(* above it, Core.Supervisor, which ends the application when its children *)
(* end too often.                                                          *)
(***************************************************************************)
EXTENDS Naturals, Sequences

CONSTANTS
    MaxRetries,   \* the client's max_retries option
    BaseBackoff,  \* @default_backoff_ms
    MaxBackoff,   \* @max_backoff_ms
    MaxRestarts,  \* restarts a supervisor allows in its window (OTP: 3 in five seconds)
    MaxPending,   \* bound: casts waiting in the registry's mailbox
    MaxCrashes    \* bound: ends of the registry process

ASSUME ConnectionAssumption ==
    /\ MaxRetries \in Nat /\ MaxRestarts \in Nat /\ MaxPending \in Nat \ {0}
    /\ MaxCrashes \in Nat
    /\ BaseBackoff \in Nat \ {0} /\ MaxBackoff \in Nat
    /\ BaseBackoff <= MaxBackoff

VARIABLES
    client,    \* "down", "connect" (message waiting), "timer", or "quiet"
    status,    \* state.status
    retry,     \* state.retry_count
    backoff,   \* state.backoff_ms
    registry,  \* BOOLEAN: the ConnectionRegistry process is up
    entry,     \* its entry for the key, or NoEntry
    casts,     \* the update_status casts in its mailbox
    restarts,  \* restarts the supervisor has counted in the current window
    sup,       \* BOOLEAN: the GRPC supervisor is up
    crashes,   \* ends of the registry process so far
    escalations \* restarts Core.Supervisor has counted, of any of its children

grpcVars == <<client, status, retry, backoff, registry, entry, casts, restarts, sup, crashes,
              escalations>>
clientVars == <<client, status, retry, backoff>>

NoEntry  == [status |-> "none", attempts |-> 0]
NewEntry == [status |-> "disconnected", attempts |-> 0]

\* Core.Supervisor has given up: the application and all its processes are gone.
Ended == escalations > MaxRestarts

SmallerDelay(a, b) == IF a <= b THEN a ELSE b

GrpcInit ==
    /\ client = "down"
    /\ status = "disconnected"
    /\ retry = 0
    /\ backoff = BaseBackoff
    /\ registry = TRUE
    /\ entry = NoEntry
    /\ casts = <<>>
    /\ restarts = 0
    /\ sup = TRUE
    /\ crashes = 0
    /\ escalations = 0

-----------------------------------------------------------------------------
(* ConnectionRegistry.                                                     *)

\* What handle_cast({:update_status, key, new}) makes of an entry.
Updated(e, new) ==
    IF e = NoEntry THEN e
    ELSE [status |-> new,
          attempts |-> IF new = "connecting" THEN e.attempts + 1 ELSE 0]

HandleUpdateStatus ==
    /\ registry
    /\ casts # <<>>
    /\ entry' = Updated(entry, Head(casts))
    /\ casts' = Tail(casts)
    /\ UNCHANGED <<clientVars, registry, restarts, sup, crashes, escalations>>

\* A cast to a name nobody holds is dropped.
UpdateStatus(new) ==
    casts' = IF registry THEN Append(casts, new) ELSE casts

-----------------------------------------------------------------------------
(* Client.                                                                 *)

Room == Len(casts) < MaxPending

\* Mutant of ConnectSucceeds: the delay is not reset.
BackoffNotReset ==
    /\ client = "connect" /\ Room
    /\ client' = "quiet"
    /\ status' = "connected"
    /\ retry' = 0
    /\ UpdateStatus("connected")
    /\ UNCHANGED <<backoff, registry, entry, restarts, sup, crashes, escalations>>

\* handle_info(:connect), the endpoint answers.
ConnectSucceeds ==
    /\ client = "connect" /\ Room
    /\ client' = "quiet"
    /\ status' = "connected"
    /\ retry' = 0
    /\ backoff' = BaseBackoff
    /\ UpdateStatus("connected")
    /\ UNCHANGED <<registry, entry, restarts, sup, crashes, escalations>>

\* It does not, and there are retries left: a timer with the old delay.
ConnectFails ==
    /\ client = "connect" /\ Room
    /\ retry < MaxRetries
    /\ client' = "timer"
    /\ status' = "connecting"
    /\ retry' = retry + 1
    /\ backoff' = SmallerDelay(backoff * 2, MaxBackoff)
    /\ UpdateStatus("connecting")
    /\ UNCHANGED <<registry, entry, restarts, sup, crashes, escalations>>

\* Mutant of GiveUp: the registry is not told.
GiveUpSilently ==
    /\ client = "connect" /\ Room
    /\ retry >= MaxRetries
    /\ client' = "quiet"
    /\ status' = "disconnected"
    /\ UNCHANGED <<retry, backoff, registry, entry, casts, restarts, sup, crashes, escalations>>

\* It does not, and there are none: no timer, nothing sends :connect any more.
GiveUp ==
    /\ client = "connect" /\ Room
    /\ retry >= MaxRetries
    /\ client' = "quiet"
    /\ status' = "disconnected"
    /\ UpdateStatus("disconnected")
    /\ UNCHANGED <<retry, backoff, registry, entry, restarts, sup, crashes, escalations>>

\* The message of schedule_reconnect arrives.
TimerFires ==
    /\ client = "timer"
    /\ client' = "connect"
    /\ UNCHANGED <<status, retry, backoff, registry, entry, casts, restarts, sup, crashes, escalations>>

ClientGone ==
    /\ client' = "down"
    /\ status' = "disconnected"
    /\ retry' = 0
    /\ backoff' = BaseBackoff

-----------------------------------------------------------------------------
(* Supervision.                                                            *)

\* Mutant of CountRestart: the connections outlive the supervisor.
ConnectionsSurvive ==
    IF restarts < MaxRestarts
      THEN /\ restarts' = restarts + 1
           /\ UNCHANGED <<sup, registry, entry, casts, escalations>>
      ELSE /\ restarts' = 0
           /\ escalations' = escalations + 1
           /\ sup' = FALSE
           /\ registry' = FALSE
           /\ UNCHANGED <<entry, casts>>

\* The supervisor counts a restart; above its intensity it ends itself and
\* with it the registry and the client, which Core.Supervisor counts.
CountRestart ==
    IF restarts < MaxRestarts
      THEN /\ restarts' = restarts + 1
           /\ UNCHANGED <<sup, registry, entry, casts, escalations>>
      ELSE /\ restarts' = 0
           /\ escalations' = escalations + 1
           /\ sup' = FALSE
           /\ registry' = FALSE
           /\ entry' = NoEntry
           /\ casts' = <<>>

\* The client process ends: the transport sends its owner a message when the
\* connection is lost, and handle_info has a clause for :connect only.
ClientCrashes ==
    /\ client # "down"
    /\ ClientGone
    /\ CountRestart
    /\ UNCHANGED crashes

\* init/1 of a (re)started client: register/2 is a call, answered after the
\* casts before it; the answer must be :ok.
ClientStarts ==
    /\ sup /\ registry
    /\ client = "down"
    /\ casts = <<>>
    /\ entry = NoEntry
    /\ entry' = NewEntry
    /\ client' = "connect"
    /\ UNCHANGED <<status, retry, backoff, registry, casts, restarts, sup, crashes, escalations>>

\* {:error, :already_registered}: a MatchError, the start has failed.
StartRefused ==
    /\ sup /\ registry
    /\ client = "down"
    /\ casts = <<>>
    /\ entry # NoEntry
    /\ CountRestart
    /\ UNCHANGED <<clientVars, crashes>>

\* The registry process ends: rest_for_one ends the client, too, and both are
\* started again, the registry with no connections.
RegistryCrashes ==
    /\ sup /\ registry
    /\ crashes < MaxCrashes
    /\ crashes' = crashes + 1
    /\ ClientGone
    /\ entry' = NoEntry
    /\ casts' = <<>>
    /\ IF restarts < MaxRestarts
         THEN restarts' = restarts + 1 /\ UNCHANGED <<registry, sup, escalations>>
         ELSE restarts' = 0 /\ registry' = FALSE /\ sup' = FALSE /\ escalations' = escalations + 1

\* The oldest restart leaves the supervisor's window while the client is running;
\* starts that are refused follow each other at once.
WindowPasses ==
    /\ restarts > 0
    /\ client # "down"
    /\ restarts' = restarts - 1
    /\ UNCHANGED <<clientVars, registry, entry, casts, sup, crashes, escalations>>

\* Core.Supervisor starts the GRPC supervisor again, with a new registry.
SupervisorRestarts ==
    /\ ~sup
    /\ ~Ended
    /\ sup' = TRUE
    /\ registry' = TRUE
    /\ UNCHANGED <<clientVars, entry, casts, restarts, crashes, escalations>>

\* The oldest restart leaves Core.Supervisor's window.
CoreWindowPasses ==
    /\ escalations > 0
    /\ ~Ended
    /\ escalations' = escalations - 1
    /\ UNCHANGED <<clientVars, registry, entry, casts, restarts, sup, crashes>>

\* Another child of Core.Supervisor ends and is counted; one too many takes the
\* GRPC supervisor with it.
OtherChildEnds ==
    /\ ~Ended
    /\ escalations' = escalations + 1
    /\ IF Ended'
         THEN /\ ClientGone
              /\ restarts' = 0 /\ sup' = FALSE /\ registry' = FALSE
              /\ entry' = NoEntry /\ casts' = <<>>
         ELSE UNCHANGED <<clientVars, registry, entry, casts, restarts, sup>>
    /\ UNCHANGED crashes

Terminated == Ended /\ UNCHANGED grpcVars

-----------------------------------------------------------------------------
ClientStep == ConnectSucceeds \/ ConnectFails \/ GiveUp \/ TimerFires

SupervisorStep == ClientStarts \/ StartRefused \/ SupervisorRestarts

GrpcNext ==
    \/ ClientStep \/ HandleUpdateStatus \/ SupervisorStep
    \/ ClientCrashes \/ RegistryCrashes \/ WindowPasses
    \/ CoreWindowPasses \/ OtherChildEnds \/ Terminated

GrpcSpec == GrpcInit /\ [][GrpcNext]_grpcVars

\* Processes handle their messages, timers fire and supervisors within their limit
\* restart what ended.  Nothing is assumed about the endpoint, nor about crashes.
GrpcFairness ==
    /\ WF_grpcVars(ClientStep)
    /\ WF_grpcVars(HandleUpdateStatus)
    /\ WF_grpcVars(SupervisorStep)

GrpcFairSpec == GrpcSpec /\ GrpcFairness

-----------------------------------------------------------------------------
(* Properties.                                                             *)

\* An entry e once the casts s have been applied to it.
AfterCasts(e, s) ==
    LET after[n \in 0..Len(s)] == IF n = 0 THEN e ELSE Updated(after[n - 1], s[n])
    IN  after[Len(s)]

\* What the registry says of a running client is what the client is, as soon as
\* the casts on their way have arrived: the status, and for a client that is
\* reconnecting the number of attempts.
RegistryFollowsClient ==
    client # "down" =>
        AfterCasts(entry, casts) =
            [status |-> status, attempts |-> IF status = "connecting" THEN retry ELSE 0]

\* The delay after n failures, were there no maximum.
Doubled[n \in 0..MaxRetries] == IF n = 0 THEN BaseBackoff ELSE 2 * Doubled[n - 1]

\* The delay doubles from its base with every failure, up to its maximum; there
\* are at most max_retries of them, and a client that gave up has used them all.
BackoffFollowsRetries ==
    /\ retry <= MaxRetries
    /\ backoff = SmallerDelay(Doubled[retry], MaxBackoff)
    /\ client = "quiet" /\ status = "disconnected" => retry = MaxRetries

\* A client that ended comes back although the registry refuses to register its
\* key twice: the refusals exhaust the supervisor's restarts, and the registry
\* started with the next supervisor is empty.  Each such crash costs one of
\* Core.Supervisor's restarts, and only when those run out does it stay away.
ClientComesBack == client = "down" ~> (client # "down" \/ Ended)
=============================================================================
