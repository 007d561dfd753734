----------------------------- MODULE BlockRange -----------------------------
(***************************************************************************)
(* Core.Chain.BlockRange: which blocks the historical sync asks for next,  *)
(* and how a range is cut into the chunks that are fetched in parallel.    *)
(* A range is a pair <<first, last>> of block numbers, both included.      *)
(***************************************************************************)
EXTENDS Integers, Sequences

CONSTANTS
    DefaultBatch,  \* @default_batch_size
    MaxBatch       \* @max_batch_size

ASSUME BatchAssumption ==
    /\ DefaultBatch \in Nat \ {0}
    /\ MaxBatch \in Nat \ {0}
    /\ DefaultBatch <= MaxBatch

Smaller(a, b) == IF a <= b THEN a ELSE b

NoNewBlocks == <<0, -1>>

\* get_optimal_batch_size/1 is still a constant.
OptimalBatchSize == DefaultBatch

\* Mutant of NextRange: the batch is not clipped to the target.
NextRangeUnclipped(current, target) ==
    IF current >= target THEN NoNewBlocks
    ELSE <<current, current + OptimalBatchSize - 1>>

\* do_calculate_range/3
NextRange(current, target) ==
    IF current >= target THEN NoNewBlocks
    ELSE IF target - current > MaxBatch THEN <<current, current + MaxBatch - 1>>
    ELSE <<current, Smaller(current + OptimalBatchSize - 1, target)>>

\* split_range/2: chunk starts first, first + size, ... up to last, each chunk
\* clipped to last; a range of at most size + 1 blocks is left whole.
SplitRange(range, size) ==
    LET first == range[1]
        last  == range[2]
    IN  IF last - first > size
          THEN [i \in 1..((last - first) \div size + 1) |->
                  <<first + (i - 1) * size, Smaller(first + i * size - 1, last)>>]
          ELSE <<range>>

\* validate_range/1
ValidRange(range) ==
    /\ range[1] >= 0
    /\ range[2] >= range[1]
    /\ range[2] - range[1] <= MaxBatch

-----------------------------------------------------------------------------
(* What the callers rely on, for one input.                                *)

\* The chunks of a range are the range: they begin where it begins, end where it
\* ends, each starts right after the one before, and none is empty or longer
\* than a chunk left whole.
Partitions(chunks, range, size) ==
    /\ Len(chunks) >= 1
    /\ chunks[1][1] = range[1]
    /\ chunks[Len(chunks)][2] = range[2]
    /\ \A i \in 1..Len(chunks) :
          chunks[i][1] <= chunks[i][2] /\ chunks[i][2] - chunks[i][1] <= size
    /\ \A i \in 1..Len(chunks) - 1 : chunks[i + 1][1] = chunks[i][2] + 1

\* The next range starts at the current block, passes validate_range and never
\* goes beyond the target.
WithinTarget(range, current, target) ==
    /\ range[1] = current
    /\ ValidRange(range)
    /\ range[2] <= target
=============================================================================
