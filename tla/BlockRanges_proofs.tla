------------------------- MODULE BlockRanges_proofs -------------------------
(***************************************************************************)
(* Theorems about ranges of blocks, on both sides of the call: the syncer  *)
(* that computes, splits and asks for them (BlockRange and Syncer), and the*)
(* Ethereum service's GetBlockRange that streams one of them (BlockStream).*)
(***************************************************************************)
EXTENDS Syncer, BlockStream, FiniteSetTheorems, TLAPS

(***************************************************************************)
(* The range arithmetic, for every input and batch size.                   *)
(***************************************************************************)

\* Theorem: do_calculate_range/3 yields, for every current and target block, a
\* range that validate_range accepts and that stays at or below the target.
THEOREM NextRangeWithinTarget ==
    ASSUME NEW low \in Nat, NEW high \in Nat, low < high
    PROVE  WithinTarget(NextRange(low, high), low, high)
BY BatchAssumption DEF NextRange, WithinTarget, ValidRange, Smaller, OptimalBatchSize

\* Division with remainder, as split_range uses it.
LEMMA DivBounds ==
    ASSUME NEW n \in Nat, NEW c \in Nat \ {0}
    PROVE  /\ n \div c \in Nat
           /\ (n \div c) * c <= n
           /\ n < (n \div c) * c + c
OBVIOUS

\* Multiplication by a positive number is monotone.
LEMMA TimesMonotone ==
    ASSUME NEW a \in Nat, NEW b \in Nat, NEW c \in Nat \ {0}, a <= b
    PROVE  a * c <= b * c
OBVIOUS

\* Theorem: split_range/2 cuts every non-empty range into chunks that cover it
\* without a gap or an overlap.
THEOREM SplitRangePartitions ==
    ASSUME NEW first \in Nat, NEW last \in Nat, first <= last, NEW size \in Nat \ {0}
    PROVE  Partitions(SplitRange(<<first, last>>, size), <<first, last>>, size)
<1>1. CASE ~(last - first > size)
  <2>1. SplitRange(<<first, last>>, size) = <<<<first, last>>>>
    BY <1>1 DEF SplitRange
  <2> DEFINE range == <<first, last>>
             cuts == <<range>>
  <2>2. Len(cuts) = 1 /\ cuts[1] = range /\ range[1] = first /\ range[2] = last
    OBVIOUS
  <2> HIDE DEF range, cuts
  <2>3. Partitions(cuts, range, size)
    BY <1>1, <2>2 DEF Partitions
  <2> QED BY <2>1, <2>3 DEF range, cuts
<1>2. CASE last - first > size
  <2> DEFINE n == (last - first) \div size
             cuts == SplitRange(<<first, last>>, size)
  <2>1. n \in Nat /\ n * size <= last - first /\ last - first < n * size + size
    BY DivBounds
  <2>2. cuts = [i \in 1..(n + 1) |->
                    <<first + (i - 1) * size, Smaller(first + i * size - 1, last)>>]
    BY <1>2 DEF SplitRange
  <2>3. Len(cuts) = n + 1
    BY <2>1, <2>2
  <2> HIDE DEF n, cuts
  <2>4. ASSUME NEW i \in 1..(n + 1)
        PROVE  /\ cuts[i][1] = first + (i - 1) * size
               /\ cuts[i][2] = Smaller(first + i * size - 1, last)
               /\ i * size = (i - 1) * size + size
               /\ (i - 1) * size \in Nat
    BY <2>1, <2>2
  <2>5. ASSUME NEW i \in 1..n PROVE cuts[i][2] = first + i * size - 1
    <3>1. i * size <= n * size
      BY <2>1, TimesMonotone
    <3> QED BY <2>1, <2>4, <3>1 DEF Smaller
  <2>6. cuts[n + 1][2] = last
    BY <2>1, <2>4 DEF Smaller
  <2>7. ASSUME NEW i \in 1..(n + 1)
        PROVE  cuts[i][1] <= cuts[i][2] /\ cuts[i][2] - cuts[i][1] <= size
    <3>1. CASE i = n + 1
      BY <2>1, <2>4, <2>6, <3>1
    <3>2. CASE i # n + 1
      BY <2>1, <2>4, <2>5, <3>2
    <3> QED BY <3>1, <3>2
  <2>8. ASSUME NEW i \in 1..n PROVE cuts[i + 1][1] = cuts[i][2] + 1
    <3> DEFINE p == i * size
    <3>1. i + 1 \in 1..(n + 1) /\ i \in 1..(n + 1) /\ (i + 1) - 1 = i
      BY <2>1
    <3>2. cuts[i + 1][1] = first + p
      BY <2>4, <3>1
    <3>3. cuts[i][2] = first + p - 1
      BY <2>5
    <3>4. p \in Int
      BY <2>4, <3>1
    <3> HIDE DEF p
    <3> QED BY <3>2, <3>3, <3>4
  <2>9. cuts[1][1] = first
    <3>1. 1 \in 1..(n + 1) /\ 1 - 1 = 0 /\ 0 * size = 0
      BY <2>1
    <3>2. cuts[1][1] = first + (1 - 1) * size
      BY <2>4, <3>1
    <3> QED BY <3>1, <3>2
  <2>10. Partitions(cuts, <<first, last>>, size)
    BY <2>1, <2>3, <2>6, <2>7, <2>8, <2>9 DEF Partitions
  <2> QED BY <2>10 DEF cuts
<1> QED BY <1>1, <1>2

\* No chunk of a range reaches below its first or above its last block.
LEMMA ChunksWithinRange ==
    ASSUME NEW first \in Nat, NEW last \in Nat, first <= last, NEW size \in Nat \ {0}
    PROVE  LET c == SplitRange(<<first, last>>, size)
           IN  /\ c \in Seq(Nat \X Nat)
               /\ \A i \in 1..Len(c) : c[i][1] >= first /\ c[i][2] <= last
<1> DEFINE range == <<first, last>>
           c == SplitRange(range, size)
<1>1. range \in Nat \X Nat /\ range[1] = first /\ range[2] = last
  OBVIOUS
<1>2. CASE ~(last - first > size)
  <2>1. c = <<range>>
    BY <1>1, <1>2 DEF SplitRange
  <2> HIDE DEF range
  <2>2. <<range>> \in Seq(Nat \X Nat) /\ Len(<<range>>) = 1 /\ <<range>>[1] = range
    BY <1>1
  <2> QED BY <1>1, <2>1, <2>2 DEF range
<1>3. CASE last - first > size
  <2> DEFINE n == (last - first) \div size
             f(i) == <<first + (i - 1) * size, Smaller(first + i * size - 1, last)>>
  <2>1. n \in Nat
    BY DivBounds
  <2>2. c = [i \in 1..(n + 1) |-> f(i)]
    BY <1>1, <1>3 DEF SplitRange
  <2> HIDE DEF n, c
  <2>3. ASSUME NEW i \in 1..(n + 1)
        PROVE  /\ f(i) \in Nat \X Nat
               /\ f(i)[1] >= first /\ f(i)[2] <= last
    <3>1. (i - 1) * size \in Nat /\ i * size \in Nat /\ i * size = (i - 1) * size + size
      BY <2>1
    <3> QED BY <3>1 DEF Smaller
  <2> HIDE DEF f
  <2>4. Len(c) = n + 1 /\ c \in Seq(Nat \X Nat) /\ \A i \in 1..(n + 1) : c[i] = f(i)
    BY <2>1, <2>2, <2>3
  <2> QED BY <2>1, <2>3, <2>4 DEF c
<1> QED BY <1>2, <1>3

(***************************************************************************)
(* The historical loop.                                                    *)
(***************************************************************************)

\* The stream's results so far: each chunk has one, and those consumed are :ok.
StreamInv ==
    /\ 0 <= current /\ current < target
    /\ chunks = SplitRange(NextRange(current, target), OptimalBatchSize)
    /\ delivered \in 0..Len(chunks)
    /\ outcome \in [1..Len(chunks) -> {"todo", "active", "ok", "error"}]
    /\ \A i \in 1..delivered : outcome[i] = "ok"
    /\ \A i \in 1..Len(chunks) : outcome[i] = "ok" => chunks[i][1]..chunks[i][2] \subseteq covered

\* The inductive form of NoGap and FetchesOnlySafeBlocks.  The row is written once;
\* the GenServer's state is that row from :start_sync on; the task exists only while
\* the GenServer runs, and has chunks only while it consumes their stream.
SyncInv ==
    /\ row \in Row \cup {NoRow}
    /\ syncer \in {"initialize", "retry_timer", "start_sync", "running", "down"}
    /\ loop \in {"none", "calculate", "stream", "sleep"}
    /\ syncer \in {"start_sync", "running"} => row # NoRow /\ state = row
    /\ loop # "none" => /\ syncer = "running" /\ target = state.safe
                        /\ current \in Int /\ current >= -1
    /\ IF loop = "stream" THEN StreamInv
       ELSE chunks = <<>> /\ outcome = <<>> /\ delivered = 0
    /\ NoGap

\* The range the loop asks for when it is below the target, and its chunks.
LEMMA StreamChunks ==
    ASSUME NEW c \in Nat, NEW t \in Nat, c < t
    PROVE  LET s == SplitRange(NextRange(c, t), OptimalBatchSize)
           IN  /\ NextRange(c, t) # NoNewBlocks
               /\ s \in Seq(Nat \X Nat) /\ Len(s) >= 1 /\ Len(s) \in Nat
               /\ s[1][1] = c /\ s[1][1] <= s[1][2]
               /\ \A i \in 1..Len(s) : s[i][1] >= c /\ s[i][2] <= t
<1> DEFINE r == NextRange(c, t)
           s == SplitRange(r, OptimalBatchSize)
<1>1. OptimalBatchSize \in Nat \ {0}
  BY BatchAssumption DEF OptimalBatchSize
<1>2. WithinTarget(r, c, t)
  BY NextRangeWithinTarget
<1>3. r = <<r[1], r[2]>> /\ r[1] \in Nat /\ r[2] \in Nat
  BY BatchAssumption DEF NextRange, Smaller, OptimalBatchSize, NoNewBlocks
<1> HIDE DEF r
<1>4. r[1] = c /\ r[1] <= r[2] /\ r[2] <= t
  BY <1>2, <1>3 DEF WithinTarget, ValidRange
<1>5. r # NoNewBlocks
  BY <1>3, <1>4 DEF NoNewBlocks
<1>6. Partitions(s, r, OptimalBatchSize)
  BY <1>1, <1>3, <1>4, SplitRangePartitions
<1>7. s \in Seq(Nat \X Nat) /\ \A i \in 1..Len(s) : s[i][1] >= r[1] /\ s[i][2] <= r[2]
  BY <1>1, <1>3, <1>4, ChunksWithinRange
<1> HIDE DEF s
<1>8. Len(s) \in Nat /\ Len(s) >= 1 /\ s[1][1] = r[1] /\ s[1][1] <= s[1][2]
  BY <1>6, <1>7 DEF Partitions
<1>9. \A i \in 1..Len(s) : s[i] \in Nat \X Nat
  BY <1>7
<1>10. \A i \in 1..Len(s) : s[i][1] >= c /\ s[i][2] <= t
  BY <1>3, <1>4, <1>7, <1>9
<1> QED BY <1>4, <1>5, <1>7, <1>8, <1>10 DEF r, s

\* SyncInv is inductive: one step per operation of the syncer and its loop.
LEMMA SyncInductive ==
    ASSUME SyncInv, [SyncNext]_syncVars
    PROVE  SyncInv'
<1> USE SyncerAssumption
<1>1. CASE Initialize \/ InitializeFails \/ RetryInitialize
  <2>1. CASE Initialize
    <3>1. row' \in Row /\ row' # NoRow
      BY <2>1 DEF Initialize, SyncInv, Row, NoRow
    <3>2. loop = "none"
      BY <2>1 DEF Initialize, SyncInv
    <3> QED BY <2>1, <3>1, <3>2 DEF Initialize, SyncInv, loopVars, NoGap
  <2>2. CASE InitializeFails \/ RetryInitialize
    BY <2>2 DEF InitializeFails, RetryInitialize, SyncInv, loopVars, NoGap
  <2> QED BY <1>1, <2>1, <2>2
<1>2. CASE Restart
  BY <1>2 DEF Restart, SyncInv, loopVars, NoGap
<1>3. CASE StartHistoricalSync
  <2>1. row \in Row /\ state = row /\ loop # "stream"
    BY <1>3 DEF StartHistoricalSync, SyncInv
  <2>2. state.earliest \in Nat /\ current' = state.earliest - 1 /\ UNCHANGED <<row, state, covered>>
    BY <1>3, <2>1 DEF StartHistoricalSync, Row
  <2>3. NoGap'
    BY <2>2 DEF NoGap
  <2> QED BY <1>3, <2>1, <2>2, <2>3 DEF StartHistoricalSync, SyncInv
<1>4. CASE Gone
  BY <1>4 DEF Gone, SyncInv, NoGap
<1>5. CASE CalculateRange
  <2>1. /\ loop = "calculate" /\ current >= 0 /\ current \in Int
        /\ UNCHANGED <<row, syncer, state, current, target, delivered, covered>>
        /\ chunks = <<>> /\ outcome = <<>> /\ delivered = 0
        /\ syncer = "running" /\ row \in Row /\ state = row /\ target = state.safe
    BY <1>5 DEF CalculateRange, SyncInv
  <2>2. target \in Nat /\ current \in Nat
    BY <2>1 DEF Row
  <2>3. CASE NextRange(current, target) = NoNewBlocks
    BY <1>5, <2>1, <2>3 DEF CalculateRange, SyncInv, NoGap
  <2>4. CASE NextRange(current, target) # NoNewBlocks
    <3>1. /\ loop' = "stream"
          /\ chunks' = SplitRange(NextRange(current, target), OptimalBatchSize)
          /\ outcome' = [i \in 1..Len(chunks') |-> "todo"]
      BY <1>5, <2>4 DEF CalculateRange
    <3>2. current < target
      BY <2>2, <2>4 DEF NextRange
    <3>3. Len(chunks') \in Nat
      BY <2>2, <3>1, <3>2, StreamChunks
    <3>4. StreamInv'
      BY <2>1, <2>2, <3>1, <3>2, <3>3 DEF StreamInv, NextRange
    <3> QED BY <2>1, <3>1, <3>4 DEF SyncInv, NoGap
  <2> QED BY <2>3, <2>4
<1>6. ASSUME NEW i \in 1..Len(chunks),
             StartChunk(i) \/ \E r \in {"ok", "error"} : ChunkReturns(i, r)
      PROVE  SyncInv'
  <2>1. /\ loop = "stream" /\ StreamInv /\ outcome[i] \in {"todo", "active"}
        /\ UNCHANGED <<row, syncer, state, loop, current, target, chunks, delivered>>
        /\ covered \subseteq covered'
        /\ \E r \in {"active", "ok", "error"} :
              /\ outcome' = [outcome EXCEPT ![i] = r]
              /\ r = "ok" => chunks[i][1]..chunks[i][2] \subseteq covered'
    BY <1>6 DEF StartChunk, ChunkReturns, SyncInv
  <2>2. \A k \in 1..delivered : k # i
    BY <2>1 DEF StreamInv
  <2>3. PICK r \in {"active", "ok", "error"} :
          /\ outcome' = [outcome EXCEPT ![i] = r]
          /\ r = "ok" => chunks[i][1]..chunks[i][2] \subseteq covered'
    BY <2>1
  <2>4. \A k \in 1..Len(chunks) : k # i => outcome'[k] = outcome[k]
    BY <2>1, <2>3 DEF StreamInv
  <2>5. outcome' \in [1..Len(chunks) -> {"todo", "active", "ok", "error"}] /\ outcome'[i] = r
    BY <2>1, <2>3 DEF StreamInv
  <2>6. \A k \in 1..delivered : outcome'[k] = "ok"
    BY <2>1, <2>2, <2>4 DEF StreamInv
  <2>7. \A k \in 1..Len(chunks) : outcome'[k] = "ok" => chunks[k][1]..chunks[k][2] \subseteq covered'
    BY <2>1, <2>3, <2>4, <2>5 DEF StreamInv
  <2>8. StreamInv'
    BY <2>1, <2>5, <2>6, <2>7 DEF StreamInv
  <2> QED BY <2>1, <2>8 DEF SyncInv, NoGap
<1>7. CASE DeliverOk
  <2>1. /\ loop = "stream" /\ StreamInv /\ delivered < Len(chunks)
        /\ outcome[delivered + 1] = "ok" /\ delivered' = delivered + 1
        /\ UNCHANGED <<row, syncer, state, loop, current, target, chunks, outcome, covered>>
    BY <1>7 DEF DeliverOk, SyncInv
  <2>2. Len(chunks) \in Nat
    BY <1>7, StreamChunks DEF DeliverOk, SyncInv, StreamInv, Row
  <2>3. delivered' \in 0..Len(chunks) /\ \A i \in 1..delivered' : outcome[i] = "ok"
    BY <2>1, <2>2 DEF StreamInv
  <2>4. StreamInv'
    BY <2>1, <2>3 DEF StreamInv
  <2> QED BY <2>1, <2>4 DEF SyncInv, NoGap
<1>8. CASE DeliverError
  BY <1>8 DEF DeliverError, EndStream, SyncInv, NoGap
<1>9. CASE RangeDone
  <2>1. /\ loop = "stream" /\ StreamInv /\ delivered = Len(chunks)
        /\ loop' = "calculate" /\ current' = chunks[1][1] - 1
        /\ chunks' = <<>> /\ outcome' = <<>> /\ delivered' = 0
        /\ UNCHANGED <<row, syncer, state, target, covered>>
        /\ current \in Nat /\ target \in Nat /\ state.earliest \in Nat /\ syncer = "running"
        /\ (current + 1)..(state.earliest - 1) \subseteq covered
    BY <1>9 DEF RangeDone, EndStream, SyncInv, StreamInv, NoGap, Row
  <2>2. /\ Len(chunks) >= 1 /\ Len(chunks) \in Nat /\ chunks \in Seq(Nat \X Nat)
        /\ chunks[1][1] = current /\ chunks[1][1] <= chunks[1][2]
    BY <2>1, StreamChunks DEF StreamInv
  <2>3. chunks[1][1]..chunks[1][2] \subseteq covered /\ chunks[1][2] \in Nat
    BY <2>1, <2>2 DEF StreamInv
  <2>4. current \in covered
    BY <2>1, <2>2, <2>3
  <2>5. current' = current - 1
    BY <2>1, <2>2
  <2>6. NoGap'
    BY <2>1, <2>4, <2>5 DEF NoGap
  <2> QED BY <2>1, <2>5, <2>6 DEF SyncInv
<1>10. CASE WakeUp
  BY <1>10 DEF WakeUp, SyncInv, NoGap
<1>11. CASE UNCHANGED <<row, syncer, state, loopVars, covered>>
  <2>1. SyncInv' <=> SyncInv
    BY <1>11 DEF loopVars, SyncInv, StreamInv, NoGap
  <2> QED BY <2>1
<1>12. CASE DatabaseChanges \/ ChainWindowPasses \/ CoreWindowPasses \/ OtherChildEnds
  BY <1>4, <1>11, <1>12 DEF DatabaseChanges, ChainWindowPasses, CoreWindowPasses, OtherChildEnds
<1>13. CASE InitializeRaises \/ BelowGenesis \/ \E i \in 1..Len(chunks) : ChunkRaises(i)
  BY <1>4, <1>13 DEF InitializeRaises, BelowGenesis, ChunkRaises, Crash
<1>14. CASE UNCHANGED syncVars
  BY <1>11, <1>14 DEF syncVars
<1> QED
  BY <1>1, <1>2, <1>3, <1>5, <1>6, <1>7, <1>8, <1>9, <1>10, <1>12, <1>13, <1>14
  DEF SyncNext, ChunkStep

\* SyncInv holds in every reachable state.
LEMMA SyncInvariant == SyncSpec => []SyncInv
<1>1. SyncInit => SyncInv
  BY DEF SyncInit, SyncInv, NoGap
<1>2. SyncInv /\ [SyncNext]_syncVars => SyncInv'
  BY SyncInductive
<1> QED BY <1>1, <1>2, PTL DEF SyncSpec

\* Theorem: for every batch size, number of parallel chunks and order of answers,
\* errors and crashes, the loop never passes a block it has had no :ok for.
THEOREM SyncLeavesNoGap == SyncSpec => []NoGap
<1>1. SyncInv => NoGap
  BY DEF SyncInv
<1> QED BY <1>1, SyncInvariant, PTL

\* Theorem: every chunk fetched lies between the loop's position and the safe block of
\* the row in the database.
THEOREM SyncFetchesSafeBlocks == SyncSpec => []FetchesOnlySafeBlocks
<1>1. SyncInv => FetchesOnlySafeBlocks
  <2> SUFFICES ASSUME SyncInv, NEW i \in 1..Len(chunks)
               PROVE  /\ chunks[i][1] >= current /\ chunks[i][1] >= 0 /\ chunks[i][2] <= row.safe
                      /\ row.safe = target
    BY DEF FetchesOnlySafeBlocks
  <2>1. loop = "stream" /\ StreamInv
    BY DEF SyncInv
  <2>2. /\ row \in Row /\ state = row /\ row.safe = target /\ target \in Nat
        /\ current \in Nat /\ current < target
    BY <2>1, SyncerAssumption DEF SyncInv, StreamInv, Row
  <2>3. chunks \in Seq(Nat \X Nat) /\ chunks[i][1] >= current /\ chunks[i][2] <= target
    BY <2>1, <2>2, StreamChunks DEF StreamInv
  <2>4. chunks[i] \in Nat \X Nat
    BY <2>3
  <2> QED BY <2>2, <2>3, <2>4
<1> QED BY <1>1, SyncInvariant, PTL

(***************************************************************************)
(* GetBlockRange, for every range and every number of slots.               *)
(***************************************************************************)

\* Goroutines are spawned in the order of the blocks, and the handler is past
\* the loop only when all of them are.
SpawnInv ==
    /\ blockNum >= StartBlock
    /\ handler = "add" => blockNum <= EndBlock
    /\ handler \in {"wait", "return", "done"} => blockNum > EndBlock
    /\ \A b \in Blocks : go[b] = "unborn" <=> b >= blockNum

\* The semaphore and the wait group count goroutines; after wg.Wait none is left.
CountInv ==
    /\ sem = Cardinality(Holding) + (IF handler = "add" THEN 1 ELSE 0)
    /\ sem <= Slots
    /\ wg = Cardinality(Running)
    /\ handler \in {"return", "done"} => Running = {}

\* A block is sent at most once, by a goroutine that then has no error; an error
\* reported is still in the channel or has been returned.
OutcomeInv ==
    /\ \A b \in Blocks : go[b] \in {"unborn", "fetch", "send"} => sent[b] = 0
    /\ \A b \in Blocks : sent[b] \in {0, 1}
    /\ \A b \in Blocks : go[b] \in {"release", "exit", "dead"} => sent[b] = 1 \/ b \in failures
    /\ handler # "done" => result = "open"
    /\ handler = "done" => result # "open"
    /\ failures # {} => errCh # NoError \/ result = "error"
    /\ result = "ok" => failures = {}

Inv == TypeOK /\ SpawnInv /\ CountInv /\ OutcomeInv

\* Every variable keeps its type.
LEMMA TypeInductive ==
    ASSUME TypeOK, SpawnInv, [Next]_vars
    PROVE  TypeOK'
<1> USE StreamAssumption DEF TypeOK, States, Errors, NoError
<1>1. CASE AcquireSlot \/ LoopDone \/ WaitDone \/ Return
  BY <1>1 DEF AcquireSlot, LoopDone, WaitDone, Return
<1>2. CASE Spawn
  <2>1. blockNum' \in Int /\ (blockNum' # StartBlock => blockNum' <= EndBlock + 1) /\ wg' \in Int
    BY <1>2 DEF Spawn, SpawnInv
  <2>2. go' \in [Blocks -> States]
    BY <1>2 DEF Spawn
  <2> QED BY <1>2, <2>1, <2>2 DEF Spawn
<1>3. ASSUME NEW b \in Blocks, GoStep(b) PROVE TypeOK'
  BY <1>3 DEF GoStep, FetchOk, FetchFails, SendOk, SendFails, ReleaseSlot, Done, ReportError
<1>4. CASE ClientLeaves \/ UNCHANGED vars
  BY <1>4 DEF ClientLeaves, vars
<1> QED BY <1>1, <1>2, <1>3, <1>4 DEF Next, HandlerStep, Terminated

\* The loop variable splits the blocks into spawned and unborn.
LEMMA SpawnInductive ==
    ASSUME TypeOK, SpawnInv, [Next]_vars
    PROVE  SpawnInv'
<1> USE StreamAssumption DEF TypeOK, SpawnInv
<1>1. CASE AcquireSlot \/ LoopDone \/ WaitDone \/ Return
  BY <1>1 DEF AcquireSlot, LoopDone, WaitDone, Return
<1>2. CASE Spawn
  BY <1>2 DEF Spawn, Blocks
<1>3. ASSUME NEW b \in Blocks, GoStep(b) PROVE SpawnInv'
  BY <1>3 DEF GoStep, FetchOk, FetchFails, SendOk, SendFails, ReleaseSlot, Done
<1>4. CASE ClientLeaves \/ UNCHANGED vars
  BY <1>4 DEF ClientLeaves, vars
<1> QED BY <1>1, <1>2, <1>3, <1>4 DEF Next, HandlerStep, Terminated

\* Sets of goroutines are finite, so adding or removing one counts.
LEMMA Counting ==
    ASSUME NEW S \in SUBSET Blocks, NEW b \in Blocks
    PROVE  /\ Cardinality(S) \in Nat
           /\ b \notin S => Cardinality(S \cup {b}) = Cardinality(S) + 1
           /\ b \in S => Cardinality(S \ {b}) = Cardinality(S) - 1
           /\ Cardinality(S) = 0 => S = {}
<1>1. IsFiniteSet(S)
  BY StreamAssumption, FS_Interval, FS_Subset DEF Blocks
<1> QED BY <1>1, FS_CardinalityType, FS_AddElement, FS_RemoveElement, FS_EmptySet

\* An empty set of goroutines has nothing to count.
LEMMA NoneIsZero == Cardinality({}) = 0
BY FS_EmptySet

\* The counters agree with the goroutines.
LEMMA CountInductive ==
    ASSUME TypeOK, SpawnInv, CountInv, [Next]_vars
    PROVE  CountInv'
<1> USE StreamAssumption
<1>h. Holding \in SUBSET Blocks /\ Running \in SUBSET Blocks
  BY DEF Holding, Running
<1>1. CASE AcquireSlot \/ LoopDone \/ Return
  <2>1. Holding' = Holding /\ Running' = Running
    BY <1>1 DEF AcquireSlot, LoopDone, Return, Holding, Running
  <2>2. Cardinality(Holding) \in Nat
    BY <1>h, FS_Interval, FS_Subset, FS_CardinalityType DEF Blocks
  <2>3. CASE AcquireSlot
    BY <2>1, <2>2, <2>3 DEF AcquireSlot, CountInv, TypeOK
  <2>4. CASE LoopDone
    BY <2>1, <2>4 DEF LoopDone, CountInv
  <2>5. CASE Return
    BY <2>1, <2>5 DEF Return, CountInv
  <2> QED BY <1>1, <2>3, <2>4, <2>5
<1>2. CASE WaitDone
  <2>1. Holding' = Holding /\ Running' = Running
    BY <1>2 DEF WaitDone, Holding, Running
  <2>2. Running = {}
    <3>1. Cardinality(Running) = 0
      BY <1>2 DEF WaitDone, CountInv
    <3>2. CASE Blocks = {}
      BY <1>h, <3>2
    <3>3. CASE Blocks # {}
      BY <1>h, <3>1, <3>3, Counting
    <3> QED BY <3>2, <3>3
  <2> QED BY <1>2, <2>1, <2>2 DEF WaitDone, CountInv
<1>3. CASE Spawn
  <2>1. blockNum \in Blocks /\ go[blockNum] = "unborn"
    BY <1>3 DEF Spawn, SpawnInv, TypeOK, Blocks
  <2>2. /\ Holding' = Holding \cup {blockNum} /\ blockNum \notin Holding
        /\ Running' = Running \cup {blockNum} /\ blockNum \notin Running
    BY <1>3, <2>1 DEF Spawn, Holding, Running, TypeOK
  <2>3. /\ Cardinality(Holding') = Cardinality(Holding) + 1
        /\ Cardinality(Running') = Cardinality(Running) + 1
        /\ Cardinality(Holding) \in Nat /\ Cardinality(Running) \in Nat
    BY <1>h, <2>1, <2>2, Counting
  <2> QED BY <1>3, <2>3 DEF Spawn, CountInv
<1>4. ASSUME NEW b \in Blocks, FetchOk(b) \/ FetchFails(b) \/ SendOk(b) \/ SendFails(b)
      PROVE  CountInv'
  <2>1. Holding' = Holding /\ Running' = Running /\ UNCHANGED <<handler, sem, wg>>
    BY <1>4 DEF FetchOk, FetchFails, SendOk, SendFails, Holding, Running, TypeOK
  <2> QED BY <2>1 DEF CountInv
<1>5. ASSUME NEW b \in Blocks, ReleaseSlot(b) PROVE CountInv'
  <2>1. b \in Holding /\ Holding' = Holding \ {b} /\ Running' = Running
    BY <1>5 DEF ReleaseSlot, Holding, Running, TypeOK
  <2>2. Cardinality(Holding') = Cardinality(Holding) - 1 /\ Cardinality(Holding) \in Nat
    BY <1>h, <2>1, Counting
  <2> QED BY <1>5, <2>1, <2>2 DEF ReleaseSlot, CountInv
<1>6. ASSUME NEW b \in Blocks, Done(b) PROVE CountInv'
  <2>1. b \in Running /\ Running' = Running \ {b} /\ Holding' = Holding
    BY <1>6 DEF Done, Holding, Running, TypeOK
  <2>2. Cardinality(Running') = Cardinality(Running) - 1 /\ Cardinality(Running) \in Nat
    BY <1>h, <2>1, Counting
  <2> QED BY <1>6, <2>1, <2>2 DEF Done, CountInv
<1>7. CASE ClientLeaves \/ UNCHANGED vars
  BY <1>7 DEF ClientLeaves, vars, CountInv, Holding, Running
<1> QED BY <1>1, <1>2, <1>3, <1>4, <1>5, <1>6, <1>7 DEF Next, HandlerStep, GoStep, Terminated

\* What was sent and what failed add up.
LEMMA OutcomeInductive ==
    ASSUME TypeOK, SpawnInv, CountInv, OutcomeInv, [Next]_vars
    PROVE  OutcomeInv'
<1> USE StreamAssumption DEF TypeOK, OutcomeInv
<1>1. CASE AcquireSlot \/ LoopDone \/ WaitDone
  BY <1>1 DEF AcquireSlot, LoopDone, WaitDone
<1>2. CASE Return
  BY <1>2 DEF Return
<1>3. CASE Spawn
  BY <1>3 DEF Spawn, SpawnInv
<1>4. ASSUME NEW b \in Blocks, GoStep(b) PROVE OutcomeInv'
  <2>1. b \in Running /\ handler # "done" /\ result = "open"
    BY <1>4 DEF GoStep, FetchOk, FetchFails, SendOk, SendFails, ReleaseSlot, Done,
                Running, Holding, CountInv
  <2>2. CASE FetchOk(b) \/ ReleaseSlot(b) \/ Done(b)
    BY <2>1, <2>2 DEF FetchOk, ReleaseSlot, Done
  <2>3. CASE FetchFails(b) \/ SendFails(b)
    BY <2>1, <2>3 DEF FetchFails, SendFails, ReportError, NoError
  <2>4. CASE SendOk(b)
    BY <2>1, <2>4 DEF SendOk
  <2> QED BY <1>4, <2>2, <2>3, <2>4 DEF GoStep
<1>5. CASE ClientLeaves \/ UNCHANGED vars
  BY <1>5 DEF ClientLeaves, vars
<1> QED BY <1>1, <1>2, <1>3, <1>4, <1>5 DEF Next, HandlerStep, Terminated

\* Inv holds in every reachable state.
LEMMA Invariance == Spec => []Inv
<1>1. Init => Inv
  <2> SUFFICES ASSUME Init PROVE Inv
    OBVIOUS
  <2> USE StreamAssumption
  <2>1. TypeOK
    BY DEF Init, TypeOK, States, NoError
  <2>2. SpawnInv
    BY DEF Init, SpawnInv, Blocks
  <2>3. Holding = {} /\ Running = {}
    BY DEF Init, Holding, Running
  <2>4. CountInv
    BY <2>3, NoneIsZero DEF Init, CountInv
  <2>5. OutcomeInv
    BY DEF Init, OutcomeInv
  <2> QED BY <2>1, <2>2, <2>4, <2>5 DEF Inv
<1>2. Inv /\ [Next]_vars => Inv'
  BY TypeInductive, SpawnInductive, CountInductive, OutcomeInductive DEF Inv
<1> QED BY <1>1, <1>2, PTL DEF Spec

\* After the return every goroutine is dead.
LEMMA AllDead ==
    ASSUME Inv, handler \in {"return", "done"}
    PROVE  \A b \in Blocks : go[b] = "dead"
<1> SUFFICES ASSUME NEW b \in Blocks PROVE go[b] = "dead"
  OBVIOUS
<1>1. b < blockNum /\ b \in Int /\ blockNum \in Int
  BY StreamAssumption DEF Inv, TypeOK, SpawnInv, Blocks
<1>2. go[b] # "unborn"
  BY <1>1 DEF Inv, SpawnInv
<1>3. b \notin Running
  BY DEF Inv, CountInv
<1> QED BY <1>2, <1>3 DEF Inv, TypeOK, States, Running, Holding

\* Theorem: at most Slots blocks are in flight, and all slots come back.
THEOREM SlotsAlwaysRespected == Spec => []SlotsRespected
<1>1. Inv => SlotsRespected
  <2> SUFFICES ASSUME Inv PROVE SlotsRespected
    OBVIOUS
  <2>1. Cardinality(Holding) \in Nat
    BY StreamAssumption, FS_Interval, FS_Subset, FS_CardinalityType DEF Holding, Blocks
  <2>2. sem = Cardinality(Holding) + (IF handler = "add" THEN 1 ELSE 0) /\ sem <= Slots
    BY DEF Inv, CountInv
  <2>3. handler = "done" => Holding = {}
    BY DEF Inv, CountInv, Running
  <2> QED BY <2>1, <2>2, <2>3, NoneIsZero, StreamAssumption DEF SlotsRespected
<1> QED BY <1>1, Invariance, PTL

\* Theorem: a call that returns nil has sent every block of its range once.
THEOREM OkAlwaysMeansComplete == Spec => []OkMeansComplete
<1>1. Inv => OkMeansComplete
  <2> SUFFICES ASSUME Inv, result = "ok" PROVE sent = [b \in Blocks |-> 1] /\ failures = {}
    BY DEF OkMeansComplete
  <2>1. handler = "done" /\ failures = {}
    BY DEF Inv, OutcomeInv
  <2>2. \A b \in Blocks : sent[b] = 1
    BY <2>1, AllDead DEF Inv, OutcomeInv
  <2> QED BY <2>1, <2>2 DEF Inv, TypeOK
<1> QED BY <1>1, Invariance, PTL

\* Theorem: once the handler has returned, no goroutine is left to use the stream.
THEOREM AlwaysQuietAfterReturn == Spec => []QuietAfterReturn
<1>1. Inv => QuietAfterReturn
  BY AllDead DEF Inv, OutcomeInv, QuietAfterReturn
<1> QED BY <1>1, Invariance, PTL

\* Theorem: GetBlockRange implements the promise of RangeStream.
THEOREM Refinement == Spec => ImplementsPromise
<1>1. Init => Promise!Init
  BY DEF Init, Promise!Init, Promise!Blocks, Blocks
<1>2. Inv /\ [Next]_vars => [Promise!Next]_<<sent, result>>
  <2> SUFFICES ASSUME Inv, [Next]_vars PROVE [Promise!Next]_<<sent, result>>
    OBVIOUS
  <2>1. CASE AcquireSlot \/ Spawn \/ LoopDone \/ WaitDone
    BY <2>1 DEF AcquireSlot, Spawn, LoopDone, WaitDone
  <2>2. CASE Return
    <3>1. result = "open" /\ sent' = sent
      BY <2>2 DEF Return, Inv, OutcomeInv
    <3>2. CASE errCh # NoError
      BY <2>2, <3>1, <3>2 DEF Return, Promise!Next, Promise!End
    <3>3. CASE errCh = NoError
      <4>1. failures = {}
        BY <3>1, <3>3 DEF Inv, OutcomeInv
      <4>2. \A b \in Blocks : sent[b] = 1
        BY <2>2, <4>1, AllDead DEF Return, Inv, OutcomeInv
      <4> QED BY <2>2, <3>1, <3>3, <4>2
              DEF Return, Promise!Next, Promise!End, Promise!Blocks, Blocks
    <3> QED BY <3>2, <3>3
  <2>3. ASSUME NEW b \in Blocks, SendOk(b) PROVE [Promise!Next]_<<sent, result>>
    <3>1. sent[b] = 0 /\ sent \in [Blocks -> Nat]
      BY <2>3 DEF SendOk, Inv, OutcomeInv, TypeOK
    <3>2. b \in Running
      BY <2>3 DEF SendOk, Running, Holding
    <3>3. result = "open"
      BY <3>2 DEF Inv, CountInv, OutcomeInv
    <3>4. sent' = [sent EXCEPT ![b] = 1] /\ result' = result
      BY <2>3, <3>1 DEF SendOk
    <3>5. Promise!Deliver(b)
      BY <3>1, <3>3, <3>4 DEF Promise!Deliver
    <3> QED BY <3>5 DEF Promise!Next, Promise!Blocks, Blocks
  <2>4. ASSUME NEW b \in Blocks,
               FetchOk(b) \/ FetchFails(b) \/ SendFails(b) \/ ReleaseSlot(b) \/ Done(b)
        PROVE  [Promise!Next]_<<sent, result>>
    BY <2>4 DEF FetchOk, FetchFails, SendFails, ReleaseSlot, Done
  <2>5. CASE ClientLeaves \/ UNCHANGED vars
    BY <2>5 DEF ClientLeaves, vars
  <2> QED BY <2>1, <2>2, <2>3, <2>4, <2>5 DEF Next, HandlerStep, GoStep, Terminated
<1> QED BY <1>1, <1>2, Invariance, PTL DEF Spec, ImplementsPromise, Promise!Spec
=============================================================================
