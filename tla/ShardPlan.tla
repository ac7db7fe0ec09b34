------------------------------ MODULE ShardPlan ------------------------------
(* How the primary splits the shards Discord recommends over its workers.  *)
EXTENDS Integers

CeilDiv(a, b) == (a + b - 1) \div b

\* "Max concurrency" always takes 16 shards a worker.
ShardsPerWorker(total, cores, maxConcurrency) ==
    IF cores > total THEN 1
    ELSE IF maxConcurrency THEN 16
    ELSE CeilDiv(total, cores) + 2

FullRanges(total, size) == total \div size
WorkerCount(total, size) == CeilDiv(total, size)

ShardStart(i, size) == i * size

UncutEnd(i, total, size) == (i + 1) * size - 1

ShardEnd(i, total, size) ==
    LET end == (i + 1) * size - 1
    IN  IF end > total - 1 THEN total - 1 ELSE end

\* The i-th range, counted from 0.
Shards(i, total, size) == ShardStart(i, size)..ShardEnd(i, total, size)
=============================================================================
