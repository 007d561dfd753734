------------------------------- MODULE Syncer -------------------------------
(***************************************************************************)
(* Core.Chain.Syncer for Ethereum: the GenServer that loads or creates the *)
(* chain's row of chain_sync_status and then runs the historical sync loop *)
(* in a linked task, and the supervisors above it: Chain.Supervisor, which *)
(* restarts it, and Core.Supervisor, which restarts Chain.Supervisor.  Both*)
(* have the default limit on restarts, and beyond the second the           *)
(* application ends.  The realtime loop is never started: the code that    *)
(* would start it is commented out.                                        *)
(*                                                                         *)
(* The gRPC stream is modelled by its first element, which decides what    *)
(* process_block_range does: without elements it returns :ok, a first      *)
(* {:error, _} it returns, and for a first {:ok, block_data} it raises,    *)
(* since submit_blocks_batch reads a :number field BlockData does not have.*)
(***************************************************************************)
EXTENDS BlockRange, FiniteSets

CONSTANTS
    MaxHead,   \* bound: highest block number of the chain
    Parallel,  \* @parallel_ranges
    MaxRestarts \* restarts a supervisor allows within five seconds (OTP: 3)

ASSUME SyncerAssumption == MaxHead \in Nat /\ Parallel \in Nat \ {0} /\ MaxRestarts \in Nat

VARIABLES
    row,       \* the chain_sync_status row: earliest and safe block, or NoRow
    syncer,    \* what the GenServer has in its mailbox, or "down"
    state,     \* its earliest_block and safe_block, or NoRow
    loop,      \* where the historical task is, or "none"
    current,   \* historical_sync_loop's current_block
    target,    \* its target_block
    chunks,    \* ranges handed to Task.async_stream
    outcome,   \* per chunk: "todo", "active", "ok" or "error"
    delivered, \* results the reduction has consumed, in order
    covered,   \* history: blocks of chunks that returned :ok
    database,  \* whether the database answers
    restarts,  \* restarts Chain.Supervisor counts in its window
    escalations \* restarts Core.Supervisor counts, of any of its children

supervision == <<database, restarts, escalations>>
loopVars == <<loop, current, target, chunks, outcome, delivered>>
syncVars == <<row, syncer, state, loopVars, covered, supervision>>

NoRow == [earliest |-> -1, safe |-> -1]
Row   == [earliest : 0..MaxHead, safe : 0..MaxHead]

\* Core.Supervisor has given up: the application and all its processes are gone.
Ended == escalations > MaxRestarts

SyncInit ==
    /\ row = NoRow
    /\ syncer = "initialize"
    /\ state = NoRow
    /\ loop = "none"
    /\ current = 0
    /\ target = 0
    /\ chunks = <<>>
    /\ outcome = <<>>
    /\ delivered = 0
    /\ covered = {}
    /\ database \in BOOLEAN
    /\ restarts = 0
    /\ escalations = 0

-----------------------------------------------------------------------------
(* The GenServer.                                                          *)

\* Mutant of Initialize: the row is inserted without looking for one, which a
\* second time fails on its unique index.
InitializeAlwaysCreates ==
    /\ syncer = "initialize"
    /\ database
    /\ row = NoRow
    /\ \E head \in 0..MaxHead : row' = [earliest |-> head, safe |-> head]
    /\ state' = row'
    /\ syncer' = "start_sync"
    /\ UNCHANGED <<loopVars, covered, supervision>>

\* handle_info(:initialize): the row as it is, or a new one at the chain's
\* latest block; then {:start_sync, :historical} is in the mailbox.
Initialize ==
    /\ syncer = "initialize"
    /\ database
    /\ IF row # NoRow
         THEN UNCHANGED row
         ELSE \E head \in 0..MaxHead : row' = [earliest |-> head, safe |-> head]
    /\ state' = row'
    /\ syncer' = "start_sync"
    /\ UNCHANGED <<loopVars, covered, supervision>>

\* The service does not answer or the insert is refused: again in ten seconds.
InitializeFails ==
    /\ syncer = "initialize"
    /\ database
    /\ row = NoRow
    /\ syncer' = "retry_timer"
    /\ UNCHANGED <<row, state, loopVars, covered, supervision>>

RetryInitialize ==
    /\ syncer = "retry_timer"
    /\ syncer' = "initialize"
    /\ UNCHANGED <<row, state, loopVars, covered, supervision>>

\* handle_info({:start_sync, :historical}): the linked task starts below the
\* earliest block known.
StartHistoricalSync ==
    /\ syncer = "start_sync"
    /\ syncer' = "running"
    /\ loop' = "calculate"
    /\ current' = state.earliest - 1
    /\ target' = state.safe
    /\ UNCHANGED <<row, state, chunks, outcome, delivered, covered, supervision>>

\* The GenServer and everything linked to it are gone.
Gone ==
    /\ syncer' = "down"
    /\ state' = NoRow
    /\ loop' = "none"
    /\ current' = 0
    /\ target' = 0
    /\ chunks' = <<>>
    /\ outcome' = <<>>
    /\ delivered' = 0
    /\ UNCHANGED <<row, covered, database>>

\* The task is linked to the GenServer, which does not trap exits, and the
\* chunk tasks are linked to the task: if one of them raises all are gone.
\* Chain.Supervisor counts the restart it owes; above its limit it ends itself,
\* and Core.Supervisor counts one.
Crash ==
    /\ Gone
    /\ IF restarts < MaxRestarts
         THEN restarts' = restarts + 1 /\ UNCHANGED escalations
         ELSE restarts' = 0 /\ escalations' = escalations + 1

\* handle_info(:initialize) raises: Repo.get or Repo.insert without a database, or
\* Logger.error of a reason that is neither text nor a report.
InitializeRaises ==
    /\ syncer = "initialize"
    /\ ~database \/ row = NoRow
    /\ Crash

Restart ==
    /\ syncer = "down"
    /\ ~Ended
    /\ syncer' = "initialize"
    /\ UNCHANGED <<row, state, loopVars, covered, supervision>>

-----------------------------------------------------------------------------
(* Around it: the database, and the windows of the two supervisors.        *)

DatabaseChanges ==
    /\ database' = ~database
    /\ UNCHANGED <<row, syncer, state, loopVars, covered, restarts, escalations>>

\* The oldest restart counted is more than five seconds ago.
ChainWindowPasses ==
    /\ restarts > 0
    /\ restarts' = restarts - 1
    /\ UNCHANGED <<row, syncer, state, loopVars, covered, database, escalations>>

CoreWindowPasses ==
    /\ escalations > 0
    /\ ~Ended
    /\ escalations' = escalations - 1
    /\ UNCHANGED <<row, syncer, state, loopVars, covered, database, restarts>>

\* Another child of Core.Supervisor ends and is counted, and may be one too many.
OtherChildEnds ==
    /\ ~Ended
    /\ escalations' = escalations + 1
    /\ IF Ended'
         THEN Gone /\ UNCHANGED restarts
         ELSE UNCHANGED <<row, syncer, state, loopVars, covered, database, restarts>>

-----------------------------------------------------------------------------
(* historical_sync_loop/3                                                  *)

\* calculate_next_range, then split_range and the start of the stream.
CalculateRange ==
    /\ loop = "calculate"
    /\ current >= 0
    /\ LET range == NextRange(current, target)
       IN  IF range = NoNewBlocks
             THEN loop' = "sleep" /\ UNCHANGED <<chunks, outcome>>
             ELSE /\ loop' = "stream"
                  /\ chunks' = SplitRange(range, OptimalBatchSize)
                  /\ outcome' = [i \in 1..Len(chunks') |-> "todo"]
    /\ UNCHANGED <<row, syncer, state, current, target, delivered, covered, supervision>>

\* The loop's guard current_block >= 0 has no other clause.
BelowGenesis ==
    /\ loop = "calculate"
    /\ current < 0
    /\ Crash

\* Task.async_stream runs at most Parallel chunks ahead of the results consumed.
StartChunk(i) ==
    /\ loop = "stream"
    /\ outcome[i] = "todo"
    /\ i <= delivered + Parallel
    /\ \A k \in 1..(i - 1) : outcome[k] # "todo"
    /\ outcome' = [outcome EXCEPT ![i] = "active"]
    /\ UNCHANGED <<row, syncer, state, loop, current, target, chunks, delivered, covered, supervision>>

\* process_block_range returns: no channel, no stream or a first element that
\* is an error give {:error, _}; a stream without elements gives :ok.
ChunkReturns(i, result) ==
    /\ loop = "stream"
    /\ outcome[i] = "active"
    /\ outcome' = [outcome EXCEPT ![i] = result]
    /\ covered' = IF result = "ok" THEN covered \cup (chunks[i][1]..chunks[i][2]) ELSE covered
    /\ UNCHANGED <<row, syncer, state, loop, current, target, chunks, delivered, supervision>>

\* A block arrives and submit_blocks_batch raises, or the chunk takes longer
\* than async_stream's five seconds, which exits the task that consumes it.
ChunkRaises(i) ==
    /\ loop = "stream"
    /\ outcome[i] = "active"
    /\ Crash

EndStream == chunks' = <<>> /\ outcome' = <<>> /\ delivered' = 0

\* reduce_while over the ordered results: :ok goes on ...
DeliverOk ==
    /\ loop = "stream"
    /\ delivered < Len(chunks)
    /\ outcome[delivered + 1] = "ok"
    /\ delivered' = delivered + 1
    /\ UNCHANGED <<row, syncer, state, loop, current, target, chunks, outcome, covered, supervision>>

\* Mutant of DeliverError: the reduction goes on after an error.
SkipFailedChunk ==
    /\ loop = "stream"
    /\ delivered < Len(chunks)
    /\ outcome[delivered + 1] = "error"
    /\ delivered' = delivered + 1
    /\ UNCHANGED <<row, syncer, state, loop, current, target, chunks, outcome, covered, supervision>>

\* ... and an error halts, which stops the other chunks; the same current_block
\* is tried again after five seconds.
DeliverError ==
    /\ loop = "stream"
    /\ delivered < Len(chunks)
    /\ outcome[delivered + 1] = "error"
    /\ loop' = "sleep"
    /\ EndStream
    /\ UNCHANGED <<row, syncer, state, current, target, covered, supervision>>

\* All results are :ok: one block further down.
RangeDone ==
    /\ loop = "stream"
    /\ delivered = Len(chunks)
    /\ loop' = "calculate"
    /\ current' = chunks[1][1] - 1
    /\ EndStream
    /\ UNCHANGED <<row, syncer, state, target, covered, supervision>>

WakeUp ==
    /\ loop = "sleep"
    /\ loop' = "calculate"
    /\ UNCHANGED <<row, syncer, state, current, target, chunks, outcome, delivered, covered, supervision>>

-----------------------------------------------------------------------------
ChunkStep(i) ==
    \/ StartChunk(i)
    \/ \E result \in {"ok", "error"} : ChunkReturns(i, result)
    \/ ChunkRaises(i)

SyncNext ==
    \/ Initialize \/ InitializeFails \/ InitializeRaises \/ RetryInitialize
    \/ StartHistoricalSync \/ Restart
    \/ DatabaseChanges \/ ChainWindowPasses \/ CoreWindowPasses \/ OtherChildEnds
    \/ CalculateRange \/ BelowGenesis
    \/ \E i \in 1..Len(chunks) : ChunkStep(i)
    \/ DeliverOk \/ DeliverError \/ RangeDone \/ WakeUp

SyncSpec == SyncInit /\ [][SyncNext]_syncVars

\* A supervisor within its limit restarts its child, a process with a message
\* handles it, and a sleep ends.  Nothing is assumed about the service, the streams,
\* the database or the time between crashes.
SyncFairness == WF_syncVars(Restart) /\ WF_syncVars(Initialize) /\ WF_syncVars(RetryInitialize)
            /\ WF_syncVars(StartHistoricalSync) /\ WF_syncVars(CalculateRange) /\ WF_syncVars(WakeUp)

SyncFairSpec == SyncSpec /\ SyncFairness

-----------------------------------------------------------------------------
(* Properties.                                                             *)

\* The loop never moves below a block it has not had a successful answer for:
\* everything between its position and the earliest block it started from is
\* covered, across errors, retries, halted streams and restarts.
NoGap == loop # "none" => (current + 1)..(state.earliest - 1) \subseteq covered

\* Whatever is fetched lies between the loop's position and the safe block: no
\* range, chunk or restart asks for a block above the safe one or below block 0.
FetchesOnlySafeBlocks ==
    \A i \in 1..Len(chunks) :
        /\ chunks[i][1] >= current /\ chunks[i][1] >= 0 /\ chunks[i][2] <= row.safe
        /\ row.safe = target

\* A crash of the historical task takes the GenServer with it.  Once the database
\* stays up, the syncer that was down finds its row and asks for blocks again, unless
\* the restarts run out and the application ends.
ResumesAfterCrash ==
    <>[]database => ((syncer = "down" /\ row.earliest > 0) ~> (loop = "stream" \/ Ended))
=============================================================================
