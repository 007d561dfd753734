# Sylph: specifications, model checks and proofs

Sylph indexes blockchains. An Elixir application (`apps/core`) asks one gRPC
service per chain (`chains/ethereum` in Go, `chains/solana` in Rust) for blocks
and hands them to a pool of workers. This directory holds TLA+ models of the
parts of it that are concurrent or that compute block ranges, the TLC runs that
check them, and proofs that TLAPS checks for every value of the constants.

## 1. Inventory

| component | state | operations | interacts with |
|---|---|---|---|
| `DataProcessor.WorkerPool` | workers, queue, processing map | submit, start workers, worker exit, retry, terminate | callers (call), workers (send, link, monitor), supervisor |
| `DataProcessor.Worker` | current task, chain clients (always nil) | process task, stop | pool (send), `State` (cast), telemetry |
| `DataProcessor.State` | per chain: last block, processing and failed sets | mark processing/complete/failed | workers, `Monitor` |
| `DataProcessor.Monitor` | metrics, alerts | health check every 30 s, telemetry handler | pool and `State` (call), every process that emits an event |
| `Chain.BlockRange` | none | next range, split, validate | `Syncer` |
| `Chain.Syncer` | sync status, loop position (only in the task) | initialise, historical loop, parallel chunks | database, gRPC client, pool |
| `Chain.State` | latest and safe block per chain | update, reorg detection, marks | database; nobody calls it in this commit |
| `GRPC.Client` | channel, status, retry count, delay | connect, retry, give up | registry (call, cast), endpoint |
| `GRPC.ConnectionRegistry` | an entry per key | register, update status | clients |
| Ethereum service (`service.go`) | none between calls | `GetLatestBlock`, `GetBlock`, `GetBlockRange`, `SubscribeNewBlocks` | RPC client, gRPC stream |
| Ethereum RPC client (`client.go`) | health per endpoint, shared index | health checks, choice of an endpoint | Ethereum nodes |
| Solana RPC client (`rpc/client.rs`) | shared index, active subscriptions | failover, decoding of blocks, slot subscription | Solana nodes |
| Solana service and parser | none between calls | `get_block`, `get_block_range`, `subscribe_new_blocks`; instruction types, categories, token transfers | RPC client, gRPC stream |
| cache, telemetry, schemas, NATS | library state | wrappers | - |

What is hard in it: processes that crash while messages about them are still in
a mailbox; supervision that restarts one side of a protocol and not the other;
work that is retried; parallel chunks and goroutines whose results arrive in any
order; flags and indexes shared without a lock. `PROJECT.json` lists these as
hazards, each at its line, with the properties aimed at it.

Correctness, per component:

* pool: a task is not lost, duplicated, run too often or run again after it was
  announced; the pool's registry is right about who is alive; it recovers;
* syncer: no block without an `:ok` is stepped over, nothing above the safe block is
  fetched, and a crash does not end the sync unless the restarts run out;
* range arithmetic: ranges stay within the target, chunks partition them;
* `GetBlockRange`: success means the whole range, the handler returns when
  its fetches and sends do or its client leaves;
* `SubscribeNewBlocks`: no announced head is left out, the last block sent is the
  chain's head in the end, the handler returns when its client is gone;
* RPC client: a chosen endpoint was healthy, health converges;
* Solana client and service: a call that fails has overlooked no endpoint except those
  that other calls took meanwhile; between node and client nothing is lost or reordered; a stream that ends
  without an error is complete; tasks do not outlive their reader; a reply
  accounts for its whole block, and its lists agree with each other;
* gRPC client: the registry's view follows the client, the client comes back unless
  the restarts run out.

The Solana service is a library in this commit: its `main.rs` publishes a sample message
to NATS and starts no server, and `grpc/supervisor.ex` and `chain/supervisor.ex` have
the Solana children commented out. It is modelled as the handlers it exports.

## 2. Modules

| module | models |
|---|---|
| `WorkerPool` | `worker_pool.ex`, `worker.ex`, the telemetry handler of `monitor.ex`, the callers, the supervisor |
| `BlockRange` | `block_range.ex` (operators, no state) |
| `Syncer` (extends `BlockRange`) | `syncer.ex`: initialisation and the historical loop; the limits of `chain/supervisor.ex` and `application.ex` |
| `RangeStream` | abstract: what a client of `GetBlockRange` is promised |
| `BlockStream` | `GetBlockRange` of `service.go`; instantiates `RangeStream` |
| `EthEndpoints` | `client.go` and the handlers that fetch a block or the latest header |
| `EthSubscription` | `SubscribeNewBlocks` of `service.go`, the chain, the nodes and the websocket library |
| `GrpcConnection` | `grpc/client.ex`, `connection_registry.ex`, `grpc/supervisor.ex`, the limit of `application.ex` |
| `SolanaFailover` | `MultiClient` of `rpc/client.rs` and the calls made through it |
| `SolanaSubscription` | `run_slot_subscription` with `subscribe_new_blocks` of the service |
| `SolanaRange` | `get_block_range` of the Solana service |
| `SolanaBlock` | `get_block` of the Solana client and service, `convert_transactions`, `convert_block_data`, `parser.rs` |
| `WorkerPool_proofs`, `BlockRanges_proofs` (of `BlockRange`, `Syncer` and `BlockStream`), `ChainService_proofs` (of `GrpcConnection` and `SolanaBlock`), `EthEndpoints_proofs`, `EthSubscription_proofs`, `SolanaFailover_proofs`, `SolanaSubscription_proofs`, `SolanaRange_proofs` | theorems |
| `MC*` | instances for TLC |

`Syncer` and `GrpcConnection` share a module of proofs with another component, so their
specifications have names of their own (`SyncSpec`, `GrpcSpec`).

Definitions named "mutant" in a comment are never part of `Next`: they are wrong
versions of the definition after them, kept to show that the properties notice.

### How state and actions correspond to the code

**BEAM processes.** A GenServer is a variable for its state and a sequence for
its mailbox; one action per `handle_*` clause consumes the head of the mailbox
and does everything the handler does. A message to a dead process is dropped. A
linked process that ends puts an `EXIT` in the mailbox of a process that traps
exits. A message without a clause ends the process. Assumed of the runtime: the
exit signal of a link precedes the `:DOWN` of a monitor of the same process (so
`demonitor` with `:flush` always removes it), and a pid is not used again while
the pool can still see it.

**WorkerPool.** `pool` tells whether the process serves, is in `terminate/2` or
is gone; `workers`, `tasks` and `processing` are the fields of its state. A task
is its job and attempt number. A worker's handler is three steps, because the
task runs, the mark is cast and the pool is told at three different times and
the process can be killed between them. `task.data.number` raises for data
without that key, outside of the `try`: jobs in `NoNumber`. `orphans` are live
workers of a pool process that has died. `accepted`, `dropped`, `runs` and
`notified` are history for the properties. Starting a worker cannot fail, since
`Worker.init/1` cannot, so the error branches of `start_worker` are left out.
The Monitor's handler runs in the emitting process, which therefore gets a
message it has no clause for; once attached it is never detached.

**Syncer.** A chunk's stream is reduced to its first element, which decides what
`process_block_range` does in this commit: nothing gives `:ok`, an error is
returned, a block makes `submit_blocks_batch` raise, since it reads a field that
`BlockData` does not have. So in this commit an `:ok` comes from an empty stream only,
and `covered` means answered, not received. `row` is the only thing that survives a
crash. The loop's position is never written back, so it is not in `row`. `:initialize`
fails and is tried again after ten seconds (`InitializeFails`, `RetryInitialize`), or
raises (`InitializeRaises`): whenever the database is away, row or no row, and when the
reason of an error cannot be logged. `database` comes and goes at any time. Each crash
counts towards the limit of `Chain.Supervisor` (`restarts`, the default of 3 in 5 s);
beyond it that supervisor ends and counts towards `Core.Supervisor`'s (`escalations`),
as every other child of it may (`OtherChildEnds`); beyond that the application has
`Ended`. A counted restart leaves its window at any time, so that all spacings of
crashes occur. The other children of `Chain.Supervisor` (`Registry` and `Chain.State`,
which nobody calls) are taken not to crash. The realtime loop, `sync_progress` and
`record_failed_block` are not reachable.

**BlockStream.** Each statement that another goroutine can observe is a step:
the send on `sem`, `wg.Add` with the `go` statement, fetch, send, the two parts
of the deferred function, the wait, the final `select`. The client may leave at any
time, which cancels the stream's context. Messages on the stream are taken to arrive
whole.

**EthEndpoints.** Every load and store of `isHealthy` and of `current` is a
step. The failure count is stored together with the flag, as only the health
check itself reads it. Nodes come and go as they like. A receipts call is made
with the block's hash, so an answer is that block's receipts or none.

**GrpcConnection.** `client` says what will make the process run next: a
`:connect` in its mailbox, a timer, or nothing. Casts to the registry wait in
`casts`. A client may crash at any time while it is up (the transport sends its
owner messages that `handle_info/2` has no clause for). `restarts` counts towards
the supervisor's intensity; the refusals that follow a crash take milliseconds,
so a restart leaves the window only while the client is up. `escalations` counts the
ends of the supervisor, and of its siblings, towards `Core.Supervisor`'s own limit: each
crash of a client costs one, and the fourth within five seconds ends the application.

**SolanaFailover.** One step per use of the shared index and per answer. A call is
one request, or for `get_block` two, each with its own failover. `taken` records
which endpoints other calls moved the index to after a call's first choice of one.

**SolanaSubscription, SolanaRange.** A task is its place in the code, a channel a
sequence of at most `Cap` items; a send waits for room and fails once the receiver is
dropped. Taken from the library: an error item is the status that ends a gRPC
stream, so a client gets at most one and the next send is refused. Dropping the
`Subscription` sends the cancel signal and closes its channel in one step, as no
await lies between. Conversion of a block to protobuf either succeeds or panics; its
error branches cannot be reached. `SolanaRpcClient::drop` blocks on the runtime it
runs in, which panics. At the end of a task that is one caught panic after the work
is done, and changes nothing the models keep (it is also why `unsubscribe_all` never
runs). While a task unwinds from another panic it is the second one and aborts the
process: `FetchPanics` and `ConvertPanics` end everything, and the client sees the
connection fail. `SolanaRange` computes with
`2 * Half` slot numbers (2^64 in the code) as a release build does; a debug build
panics where it wraps.

**SolanaBlock.** The variables are the locals of the handler: the node's answer, the
transactions decoded so far, the header, and the three lists of the reply. An address
is a name, an `Option` a sequence of at most one element. Instruction data is its first
byte, whether the rest is complete, and the amount and decimals in it; decoding it
(`SystemInstruction`, `TokenInstruction`) belongs to other crates. The lists of program
addresses are written out in each function that has one, as in `parser.rs`. A category
is a pair of `TransactionCategory` and its type. The roles of accounts and the counts of
accounts read and written are left out: nothing depends on them. Each turn of a loop over transactions is a
step, since the loops can fail or panic in the middle. A "garbled" transaction is one
whose base64 or bincode does not decode. A version 0 transaction, which
the request admits, is deserialized as a legacy one: the bytes are refused or read as
one of the messages in `Misread`. In `get_block` a panic resets the call only, since
the handler owns no client handle that is dropped. Slot, hashes and timestamp are
passed through and left out. The totals are natural numbers: the fees and compute units
of a block are far below 2^63. `Block` and the types before it are those of the Solana
crates; an `Address` is a text that is not the decimal text of a `u8`, as base58 of 32
bytes never is. `Executable` is external, too: what the runtime demands of a message and
the token program of a transfer.

**EthSubscription.** A block is its number, the change of the chain that brought it,
and whether it has transactions. A change of the chain replaces what follows some
block by a new branch, possibly a shorter one; every block of the branch, or its last,
is announced. HTTP endpoints know the chain as of the last time they caught up. Which
endpoint serves a fetch, and a second one for the receipts, is `EthEndpoints`' matter
and is any of them here. Endpoints can be behind, but never on a branch the chain has
not had. `wsHealthy` stands for the websocket endpoints' flags.
`sub = "failed"` is an error waiting in `sub.Err()`. The test for a nil client after
`WSClient` cannot succeed and is part of `NoWSClient`.

## 3. Runs

| run | question | bounds | states |
|---|---|---|---|
| `worker_pool` | do registry, queue and processing map stay right under all crashes? | 4 pids, pool of 2, an ordinary job, one without a number, an invalid one, 2 attempts, 1 injected exit | 570 000 |
| `worker_pool_live` | does the pool recover, does every call end? | 3 pids, pool of 1, an ordinary and an invalid job, 1 injected exit | 17 000 |
| `worker_pool_notify` | does the pool take the workers' notifications? (violated) | 2 pids, 1 job | small |
| `syncer` | gaps, safe block, crash and the limits on restarts | chain of 13 blocks, batch 3, at most 5, 2 chunks in parallel, 3 restarts per supervisor | 144 000 |
| `block_stream` | promise, slots, return | 4 blocks, 2 slots | 18 000 |
| `eth_endpoints` | choice of an endpoint during health checks, convergence of health | 2 endpoints, a handler with two selections | 87 000 |
| `eth_subscription` | heads left out, convergence after reorganisations, return | 2 HTTP endpoints, chain of 3, 2 changes of it, 3 heads held | 91 000 |
| `grpc_connection` | registry, back-off, return of the client | the code's constants: 5 retries, 1 s to 30 s, 3 restarts per supervisor | 3 100 |
| `solana_failover` | which endpoints can a failing call miss, do calls return? | 3 endpoints, 2 calls | 204 000 |
| `solana_subscription` | is the pipeline complete, does a cancelled task end? | channels of 2, 3 notifications, 3 slots, 2 endpoints | 645 000 |
| `solana_range` | complete streams, end of the task | 3-bit slots (all 64 requests), ranges up to 3 slots, channel of 2 | 2 500 |
| `solana_block` | is a reply complete and consistent, which blocks fail? | all messages of up to 2 instructions out of 35, pairs of transactions | 50 000 |

Why the bounds are enough. *Pool*: a size of two is the smallest with an
exit that leaves other workers. There every exit starts a replacement before the next
one is handled, so the last-worker branch is taken only by a pool of one, which is
what `worker_pool_live` has. One more pid per worker lets a replacement start while a
dead one is still registered or an orphan still lives. Only a submission takes a task
from the queue, so few of the retries can be run within the bounds:
`AttemptsBounded` therefore also says that a queued task's attempt number counts its
runs, which fails as soon as a retry is not counted. *Syncer*: both limits on restarts, which are the code's, are exceeded, and ranges longer than
the maximum, ranges cut into chunks, a batch that would pass the target, and
block 0 all occur. *BlockStream*: more blocks than slots. *EthEndpoints*: with two
endpoints and one healthy, the second loop makes one turn and can miss it. Handlers
share nothing but the index, which a selection reads once; one handler that selects
twice meets every value of it. *GrpcConnection*: five retries reach the cap of the
delay. *SolanaFailover*: with three endpoints another call can move the index before any of a
call's attempts, and all the way round.
*SolanaSubscription*: three notifications give up to six updates, more than both
channels hold together; the delay's maximum is small enough to be reached.
*SolanaRange*: three bits are enough for a difference to wrap: such a request passes
the check, and `ListWithinLimit` shows that nothing is fetched for it.
*EthSubscription*: two changes of the chain announce up to four heads, one more than
are held, and the second can replace or remove a block whose head is still queued; two
endpoints can be behind by different amounts. *SolanaBlock*: two instructions are
enough for every pair of programs to compete for a transaction's category, and two
transactions for counts to be attributed wrongly; the transactions in pairs include
empty, failed, undecodable and version 0 ones. Instructions with missing accounts or
data occur only in transactions that failed, as the programs refuse them, or whose
status the node left out.

Deadlock checking is off for the pool, where the model stops once every job has been
submitted and nothing is left to do, and for the streams and `get_block`, which end.

**Fairness.** Weak fairness of a process that has something to do (the BEAM and Go
schedulers), of timers and sleeps, of supervisors restarting a child as long as their
limit allows, of probes that end within their timeout. Callers need not call, calls
need not time out, nothing need crash, nodes need not answer, restart windows need not
pass. In `EthSubscription` a `Send`, and in `BlockStream` a fetch or a `Send`, need not
end while its client stays: they have no timeout, and `Send` waits under flow control
for a client that does not read. Once the client has left, the cancelled context ends
them, and `HandlerReturns` says that such a hang is the only thing that can keep the
handler. In `SolanaSubscription` the shutdown
branch is strongly fair, since `select!` picks among its ready branches at random;
connecting and requests are assumed to end, which the code leaves to its libraries.
In `GrpcConnection` the registry ends at most `MaxCrashes` times, since a registry that crashes for ever keeps the client
down; the client may crash without bound.

### What the violated run shows

`worker_pool_notify`: the pool has no `handle_info` clause for
`{:task_complete, pid, result}`. The first worker that finishes crashes the pool.
This is why `NoRunAfterCompletion` holds today: a finished task stays in
`processing`, and only the crash keeps it from being retried. The mutant of that
property, a clause that merely ignores the message, makes a finished job run
again; a fix must also clear `processing`.

### What else the models say of the code

* After the range that starts at block 0 `historical_sync_loop` calls itself with -1,
  for which it has no clause (syncer.ex:268); the syncer crashes and starts again.
* Two failing calls that share `MultiClient`'s index can move it all the way round, so
  that one of them asks the endpoint that failed again; `NoEndpointOverlooked` says which
  endpoints such a call can have missed.
* No plain token `Transfer` is ever reported, although the arm for it ("SPL Token
  transfer", "Get token mint address", parser.rs:333 and 340) is written to: at
  parser.rs:405 `find_token_mint` compares the decimal text of a balance's position among
  the accounts with the base58 address of the source account (`NoMintFound` proves that
  it finds nothing). This is a bug. `CheckedTransfersReported` does not enshrine it: it
  allows any of the plain transfers (`Plain`) beside the checked ones. Asking for all of
  them, `data.token_transfers = TransfersOf(Plain)`, fails on a block of one plain
  transfer; with the lookup by position both hold on the instance of `solana_block`.
* `categorize_dex_instruction`, whose comments say that the kind of a DEX instruction is
  told from its data (parser.rs:214 and 226), and `is_dex_program` are called by nobody.
  `categorize_transaction` goes by the program: a Serum cancellation is reported as
  `SerumNewOrder`, added Raydium liquidity as `RaydiumSwap`. `DexCategoryOfListedProgram`
  is what remains true: the three lists of programs agree.
* `TransferChecked` is reported as a transfer, also for failed transactions, but listed
  with type `Unknown`, and it gives its transaction no token category.
* Every block that a stream delivers crashes the syncer, and every start without a
  database does: four crashes within five seconds end `Chain.Supervisor`, four such ends
  the application (`ResumesAfterCrash` has `Ended` as its other outcome). A crash of a
  gRPC client always ends its supervisor, so there four crashes are enough.
* `handle_reconnect` doubles the delay before it sleeps, so the first sleep after a
  subscription that worked is 2 s, not the initial 1 s.
* One transaction that does not decode, or that panics the parser, takes its whole
  block with it (`ReplyAccountsForBlock` and `PanicNeedsUnusualBlock` say when).
* `SubscribeNewBlocks` sends the block that has the announced number when it is
  fetched. It follows reorganisations as long as the endpoint that serves the block is
  not behind the one that announces it (`LastSentIsHead`). `start_block` is not read.
* `initializeClients` checks the HTTP endpoints only, so every subscription fails until
  the first round of health checks, 30 s after the start (`EthSubscription` begins
  there).
* A gRPC client that has used its retries never connects again by itself
  (`GrpcConnection`'s `quiet`); only a crash brings it back.
* A slot subscription that ends because nobody receives its failed connect leaves its
  id in `active_subscriptions`, which nothing reads; and the Solana service's task
  notices that its client is gone only when it next has something to send.

## 4. Proofs

| theorem | property | statement |
|---|---|---|
| `TypeCorrect` | | `WorkerPool`: type correctness |
| `ExitsMatchRegistry` | `ExitsAreOfRegisteredWorkers` | registered dead workers are exactly those with one exit in the mailbox |
| `PoolSizeRespected` | `WorkersBounded` | never more than `Size` workers |
| `TasksConserved` | `NoSilentLoss` | an accepted task is in the queue or the processing map, once |
| `JobsHaveOneRunner` | `OneRunner` | no two workers hold the same job |
| `RunsBounded` | `AttemptsBounded` | no job runs more often than its attempts allow |
| `CompletedNotRerun` | `NoRunAfterCompletion` | an announced job is not run again |
| `NextRangeWithinTarget`, `SplitRangePartitions` | | `BlockRange`: the next range is valid and within the target, chunks partition their range |
| `SyncLeavesNoGap` | `NoGap` | `Syncer` passes no block without an `:ok` |
| `SyncFetchesSafeBlocks` | `FetchesOnlySafeBlocks` | and asks for none above the safe block |
| `SlotsAlwaysRespected`, `OkAlwaysMeansComplete`, `AlwaysQuietAfterReturn` | `SlotsRespected`, `OkMeansComplete`, `QuietAfterReturn` | `BlockStream`: as checked |
| `Refinement` | `ImplementsPromise` | `BlockStream` implements `RangeStream` |
| `SteadyEndpointsCollected`, `ReturnedClientWasHealthy` | `SteadyEndpointIsFound`, `ClientWasHealthy` | `EthEndpoints`: the choice finds a steady endpoint and returns only healthy ones |
| `ErrorJustified` | | "no healthy clients available" only if none was healthy throughout |
| `NoHeadIsSkipped`, `IdleHandlerSentHead` | `NoHeadSkipped`, `LastSentIsHead` | `EthSubscription`: as checked |
| `FailoverTypeCorrect`, `EveryEndpointAccountedFor` | `NoEndpointOverlooked` | `SolanaFailover`: as checked, and its types |
| `NothingLostOnTheWay`, `SubscriptionNeverEndsAlone` | `PipelineComplete`, `SubscriptionPersists` | `SolanaSubscription`: as checked |
| `OkStreamIsComplete`, `ListAlwaysWithinLimit` | `OkMeansAllListed`, `ListWithinLimit` | `SolanaRange`: as checked |
| `ReplyComplete` | `ReplyAccountsForBlock` | `SolanaBlock`: a reply has every transaction of the block, under its first signature, and totals that add up |
| `InstructionsGivenBack` | `InstructionsAttributable` | the counts cut the flat list of instructions back into transactions |
| `DexListsAgree` | `DexCategoryOfListedProgram` | the parser's three lists of DEX programs agree on every transaction |
| `CheckedTransfersInOrder` | `CheckedTransfersReported` | every `TransferChecked` is reported, in order, with its accounts |
| `PanicsAreUnusual` | `PanicNeedsUnusualBlock` | only a version 0, failed or unknown transaction panics |
| `RegistryTellsTheTruth` | `RegistryFollowsClient` | `GrpcConnection`: the registry's entry, once its casts are handled, is the client's state |
| `DelayFollowsRetries` | `BackoffFollowsRetries` | the delay doubles per failure up to its maximum |

Each holds for every value of the constants that satisfies the module's assumption:
`ConstantsAssumption` (finitely many pids, a positive size and number of attempts),
`BatchAssumption` (positive batch sizes, the default not above the maximum),
`SyncerAssumption` (a natural number of restarts, at least one chunk in parallel),
`StreamAssumption` (integers, at least one slot), `EndpointsAssumption` and
`FailoverAssumption` (at least one endpoint, which the constructors check),
`SubscriptionAssumption` (positive capacities, delays and numbers of endpoints),
`RangeAssumption` (`MAX_RANGE` is below half of the slot numbers), `ConnectionAssumption`
(a positive base delay not above the maximum), `BlocksAssumption` (nodes answer with
values of the crates' types) and `RuntimeAssumption` (a legacy transaction that a node
says succeeded was executable; only `PanicsAreUnusual` uses it). TLC evaluates all of
them. The bounds of the models (`MaxNotes`, `MaxForks` and the like) are constants as
well, so the theorems hold for any of them.

### The arguments

*Registry.* `ExitsAreOfRegisteredWorkers` is not inductive: to know that an exit is
of a registered worker one must know that a live worker is registered or an orphan
and never both, and that `:start_workers` is only the first message of a pool
process without workers. `RegistryInv` adds these facts; each action preserves it.
`Cardinality` is handled through `FiniteSetTheorems`.

*Tasks.* What the queue and the processing map say of a task is only half of where it
is: the worker may have it in its hands, still have it in its mailbox, or belong to a
pool process that has died. `TaskInv` follows it: `HandsInv` (a worker handles one
task and has none waiting meanwhile), `RequestInv` (one request per call, and nobody
has seen a job whose request is not served), `PlaceInv` (a registered worker holds at
most what `processing` says it was assigned, an orphan only jobs its successor has not
accepted), `CountInv` (a task that waits has an attempt number above the runs of its
job), `DoneInv` (a finished job waits nowhere, and while it is still in `processing`
its `:task_complete` is in the mailbox ahead of the worker's exit). The last one is
what `NoRunAfterCompletion` rests on: the pool crashes on the message before it could
retry the task on the exit.

*Syncer.* `StreamInv` says that the chunks are those of the range the loop is at, that
the results consumed so far are all `:ok` and that an `:ok` chunk is covered;
`SplitRangePartitions` then says that a stream consumed to its end has covered
exactly the range. `SyncInv` adds that the GenServer's state is the row from
`:start_sync` on and that there is a task only while it runs, which is what survives
a crash.

*BlockRange.* Division with remainder and monotonicity of multiplication; the first
and last chunk meet the bounds of the range, neighbours meet each other.

*BlockStream.* `SpawnInv` says the loop variable splits the blocks into spawned and
unborn ones, `CountInv` that the semaphore and the wait group count goroutines, and
`OutcomeInv` that an error reported is in the channel or was returned. From the
three, a handler that returns has no goroutine left, and returns nil only when all
blocks were sent; this is also what the step that maps to `RangeStream!End` needs.

*EthEndpoints.* `CallInv` is about a loop half way: the endpoints below the loop
variable that have stayed healthy are candidates, candidates were seen healthy, and
a handler about to store the index has seen that endpoint healthy. `Fallback` takes
the least candidate; that a set of naturals has one comes from well-foundedness.

*EthSubscription.* `NoHeadSkipped` needs to know what is in hand at each place of the
handler (`HandsInv`) and that nothing is queued without a live subscription
(`QuietInv`). `LastSentIsHead` needs `HeadInv`: the last head on its way has the
number of the chain's head, and once it was fetched from an endpoint that is not
behind it is that block, since a change of the chain announces a new last head.

*SolanaFailover.* What a failed call has asked says nothing about a call under way.
`Covers` measures endpoints by their distance behind the index: those less than
`attempts` steps back were tried by the call or taken by another (`Passed`). A step of
`next_client` adds one to every distance (`DistanceGrows`), and the endpoint it comes to
is the caller's own or, for the other calls under way, one that was taken; a failure
counts one more attempt and adds the endpoint that failed; and after `N` attempts no
endpoint is left.

*SolanaSubscription.* `PipelineComplete` is close to inductive. `HandInv` adds that
the service holds an update only while it forwards it, `TaskInv` that the
subscription's task ends only after the service's. The work is in the sequences:
taking the first update from one channel and appending to another are rebracketings
of one concatenation, and `WantedOf`, a recursive function, is shown to be compatible
with both (`WantedAppend` and `WantedFront`).

*SolanaRange.* `Covers` says that the items received, queued and held are those of a
first part of the list, and that the rest is still to be fetched; the client has seen
only blocks as long as it reads. `ListWithinLimit` is arithmetic: a difference wraps
only if the start is negative and the end is not, and such a range is empty as
unsigned numbers (`AcceptedIsShort`).

*SolanaBlock.* `InstructionsAttributable` says nothing about a half-converted block's
other lists, and `ReplyAccountsForBlock` nothing before the reply. `BlockInv` follows all
three loops: the transactions decoded so far are readings of the node's first ones in
order (`Decodes`); the ones converted are conversions of the decoded ones (`Converted`);
their instructions start where the counts before them add up to (`Attributed`); the
transfers are the concatenation of what `parse_token_transfers` gives for each of them
(`TransfersReported`: what its `TransferChecked` instructions say); and `StageInv` says which of this is complete at which place.
One turn of the loop appends to each list, so the work is in what sums and
concatenations do with one more element (`SumAppend`, `FlattenAppend`). A plain
`Transfer` contributes nothing because no address is the decimal text of an index
(`NoMintFound`), so the witness of `CheckedTransfersInOrder` for the plain ones shown is
the empty set. `DexListsAgree` goes from the instructions that `Own` gives back to the
message, and there compares the lists by what each makes of it (`DexCategory`,
`DexKinds`). `PanicsAreUnusual` needs `Decodes` to lead from the
message that panicked to the transaction the node sent.

*GrpcConnection.* `RegistryFollowsClient` speaks of the entry after all casts; adding a
cast applies one more update to it (`AfterAppend`) and handling one changes nothing
(`AfterHead`). What it lacks is the rest of the life cycle, in `LifeInv`: a client runs only while
the registry does, so none of its casts is dropped; a registry that is down leaves no
entry and no casts behind; and a client that is down has the state it starts with.
`Doubled` is a recursive function, and one more doubling of a delay already cut is cut at
the same maximum.

*Recursive functions.* The library's induction theorems take an operator as parameter
and cannot be used with the installed backends. Induction for a *set* of numbers can be
derived from well-foundedness (`NatSet`) and is enough to show that `WantedOf`, `Doubled`,
the sums and the library's `FlattenSeq` satisfy their recursion equations (`Recursion`)
and what follows from these.

### Only model-checked

* Every liveness property: fairness and `ENABLED` are beyond the backends used here. All
  invariants and action properties of the passing runs, and the refinement, are proved.

The type invariants are parts of the inductive invariants of the modules with theorems
and are proved there, so no run checks them.

## 5. Not modelled

* Restart intensity of `DataProcessor.Supervisor`: `WorkerPool` restarts the pool every
  time. More than three pool crashes in five seconds would in fact end that supervisor,
  and more than three such ends the application; for `Syncer` and `GrpcConnection` they
  are among the ends that `OtherChildEnds` stands for.
* The counts of accounts read and written by a Solana transaction and the roles of an
  instruction's accounts.
* Data of Ethereum blocks: the conversion to protobuf copies fields; `token.go` reads
  the topics and data of one log. Metrics and logs.
* Code that nothing starts or calls: the realtime loop, `Chain.State`,
  `Schema.MissingBlock`, NATS, telemetry supervision, `convert_error` of the Solana
  service, `NextClient`, `Close` and `HealthStatus` of the Ethereum client.
* The sets of `DataProcessor.State` and the Monitor's health check: the check asks for
  statistics of Solana, whose entry lacks the fields that are read, and crashes both
  processes whenever it runs; nobody else reads the sets.
* The overflow of the health check's back-off (64-bit arithmetic).
