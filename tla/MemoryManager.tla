--------------------------- MODULE MemoryManager ----------------------------
(***************************************************************************)
(* MemoryManager (crates/performance/src/memory.rs): threads are given     *)
(* blocks, from pools of fixed sizes where one fits, and give them back.   *)
(*                                                                         *)
(* The pools lie behind one lock.  What is in use is an atomic counter     *)
(* that is read, compared and added to in separate steps.  Ratios of the   *)
(* largest usage are given as bytes, and contents are left out.            *)
(***************************************************************************)
EXTENDS Integers, FiniteSetsExt, SequencesExt

CONSTANTS
    Threads,
    Sizes,      \* that are asked for
    PoolSizes,  \* lists of sizes a configuration may name
    Threshold,  \* pressure_threshold, in bytes
    Critical,   \* nine tenths of max_memory_usage
    Wrap,       \* the counter wraps here, if sooner than the code's
    MaxCalls,
    None

ASSUME SizesAssumption ==
    /\ IsFiniteSet(Threads)
    /\ Sizes \subseteq Nat \ {0} /\ \E largest \in Sizes : \A size \in Sizes : largest >= size
    /\ PoolSizes \subseteq Seq(Nat \ {0})
    /\ None \notin Sizes /\ None \notin [size : Sizes, len : Nat]

(* There is not as much memory as the counter can count.                   *)
ASSUME CounterAssumption ==
    /\ Threshold \in Nat /\ Wrap \in Nat
    /\ Threshold + Cardinality(Threads) * Max(Sizes) < Wrap

VARIABLES
    config,
    pools,   \* memory_pools: how many blocks they have, and how many are out
    usage,   \* stats.current_usage
    peak,    \* stats.peak_usage
    stage,
    asked,   \* the size a thread asks for
    block,   \* the block it is being given or gives back
    current, \* the usage it has read for the peak
    held,    \* the blocks the threads have
    excess,  \* history: by how much more was given back than was asked for
    calls

threadVars == <<stage, asked, block, current, held>>
memoryVars == <<config, pools, usage, peak, threadVars, excess, calls>>

-----------------------------------------------------------------------------

Block(size, len) == [size |-> size, len |-> len]

EmptyPool == [available |-> 0, total |-> 0, in_use |-> 0]

(* Where the sizes of pools a block of this size fits in are listed, and  *)
(* the one allocate_from_pool finds: the first.                            *)
Fitting(size) == {i \in DOMAIN config.pool_sizes : config.pool_sizes[i] >= size}
PoolFor(size) == config.pool_sizes[Min(Fitting(size))]

(* MemoryPool::allocate.                                                   *)
Taken(pool) ==
    IF pool.available > 0
    THEN [pool EXCEPT !.available = @ - 1, !.in_use = @ + 1]
    ELSE [pool EXCEPT !.total = @ + 1, !.in_use = @ + 1]

(* MemoryPool::deallocate.                                                 *)
Returned(pool) ==
    [pool EXCEPT !.available = @ + 1, !.in_use = IF @ = 0 THEN 0 ELSE @ - 1]

(* Mutant: the blocks that are freed stay in the total.                    *)
CompactedTotalKept(pool) ==
    LET target == pool.in_use + pool.in_use \div 4
    IN IF pool.available > target THEN [pool EXCEPT !.available = target] ELSE pool

(* MemoryPool::compact.                                                    *)
Compacted(pool) ==
    LET target == pool.in_use + pool.in_use \div 4
    IN IF pool.available > target
       THEN [pool EXCEPT !.available = target, !.total = pool.in_use + target]
       ELSE pool

MemoryInit ==
    /\ config \in [pool_sizes : PoolSizes, enable_pooling : BOOLEAN,
                   aggressive_gc : BOOLEAN, enable_compaction : BOOLEAN]
    /\ pools = [p \in ToSet(config.pool_sizes) |-> EmptyPool]
    /\ usage = 0
    /\ peak = 0
    /\ stage = [t \in Threads |-> "idle"]
    /\ asked = [t \in Threads |-> 0]
    /\ block = [t \in Threads |-> None]
    /\ current = [t \in Threads |-> 0]
    /\ held = [t \in Threads |-> <<>>]
    /\ excess = 0
    /\ calls = 0

Call(t, first) ==
    /\ stage[t] = "idle"
    /\ calls < MaxCalls
    /\ calls' = calls + 1
    /\ stage' = [stage EXCEPT ![t] = first]

Goto(t, from, to) ==
    /\ stage[t] = from
    /\ stage' = [stage EXCEPT ![t] = to]

-----------------------------------------------------------------------------
(* allocate.                                                               *)

Allocate(t, size) ==
    /\ Call(t, "check")
    /\ asked' = [asked EXCEPT ![t] = size]
    /\ UNCHANGED <<config, pools, usage, peak, block, current, held, excess>>

(* check_memory_pressure.                                                  *)
CheckPressure(t) ==
    /\ Goto(t, "check",
            IF usage <= Threshold THEN "take"
            ELSE IF config.aggressive_gc \/ usage > Critical THEN "collect"
            ELSE "recheck")
    /\ UNCHANGED <<config, pools, usage, peak, asked, block, current, held, excess, calls>>

(* run_garbage_collection frees blocks of pools, which nobody counts as    *)
(* used.                                                                   *)
CollectGarbage(t) ==
    /\ Goto(t, "collect", IF asked[t] = None THEN "idle" ELSE "recheck")
    /\ pools' = IF config.enable_compaction
                THEN [p \in DOMAIN pools |-> Compacted(pools[p])]
                ELSE pools
    /\ asked' = [asked EXCEPT ![t] = IF @ = None THEN 0 ELSE @]
    /\ UNCHANGED <<config, usage, peak, block, current, held, excess, calls>>

(* Mutant: once garbage was collected the allocation goes on.              *)
CheckAgainLeniently(t) ==
    /\ Goto(t, "recheck", "take")
    /\ UNCHANGED <<config, pools, usage, peak, asked, block, current, held, excess, calls>>

(* Still too high: the allocation is refused.                              *)
CheckAgain(t) ==
    /\ Goto(t, "recheck", IF usage > Threshold THEN "idle" ELSE "take")
    /\ UNCHANGED <<config, pools, usage, peak, asked, block, current, held, excess, calls>>

(* allocate_from_pool, or a block of its own.                              *)
TakeBlock(t) ==
    /\ Goto(t, "take", "count")
    /\ LET size == asked[t]
           pool == PoolFor(size)
       IN IF config.enable_pooling /\ Fitting(size) # {}
          THEN /\ pools' = [pools EXCEPT ![pool] = Taken(@)]
               /\ block' = [block EXCEPT ![t] = Block(size, pool)]
          ELSE /\ block' = [block EXCEPT ![t] = Block(size, size)]
               /\ UNCHANGED pools
    /\ UNCHANGED <<config, usage, peak, asked, current, held, excess, calls>>

CountUsage(t) ==
    /\ Goto(t, "count", "look")
    /\ usage' = (usage + asked[t]) % Wrap
    /\ UNCHANGED <<config, pools, peak, asked, block, current, held, excess, calls>>

LookAtUsage(t) ==
    /\ Goto(t, "look", "compare")
    /\ current' = [current EXCEPT ![t] = usage]
    /\ UNCHANGED <<config, pools, usage, peak, asked, block, held, excess, calls>>

(* The block is the caller's.                                              *)
HandOver(t) ==
    /\ held' = [held EXCEPT ![t] = Append(@, block[t])]
    /\ block' = [block EXCEPT ![t] = None]

BelowPeak(t) ==
    /\ Goto(t, "compare", "idle")
    /\ current[t] <= peak
    /\ HandOver(t)
    /\ UNCHANGED <<config, pools, usage, peak, asked, current, excess, calls>>

AbovePeak(t) ==
    /\ Goto(t, "compare", "raise")
    /\ current[t] > peak
    /\ UNCHANGED <<config, pools, usage, peak, asked, block, current, held, excess, calls>>

(* The peak may have been raised further meanwhile.                        *)
RaisePeak(t) ==
    /\ Goto(t, "raise", "idle")
    /\ peak' = current[t]
    /\ HandOver(t)
    /\ UNCHANGED <<config, pools, usage, asked, current, excess, calls>>

-----------------------------------------------------------------------------
(* deallocate.                                                             *)

Deallocate(t) ==
    /\ Call(t, "return")
    /\ \E i \in DOMAIN held[t] :
          /\ block' = [block EXCEPT ![t] = held[t][i]]
          /\ held' = [held EXCEPT ![t] = RemoveAt(@, i)]
    /\ UNCHANGED <<config, pools, usage, peak, asked, current, excess>>

(* return_to_pool.                                                         *)
ReturnBlock(t) ==
    /\ Goto(t, "return", "release")
    /\ pools' = IF config.enable_pooling /\ block[t].len \in DOMAIN pools
                THEN [pools EXCEPT ![block[t].len] = Returned(@)]
                ELSE pools
    /\ UNCHANGED <<config, usage, peak, asked, block, current, held, excess, calls>>

(* The block's length is taken off, not the size that was counted.         *)
ReleaseUsage(t) ==
    /\ Goto(t, "release", "idle")
    /\ usage' = (usage - block[t].len) % Wrap
    /\ excess' = excess + block[t].len - block[t].size
    /\ block' = [block EXCEPT ![t] = None]
    /\ UNCHANGED <<config, pools, peak, asked, current, held, calls>>

(* force_gc.                                                               *)
ForceGc(t) ==
    /\ Call(t, "collect")
    /\ asked' = [asked EXCEPT ![t] = None]
    /\ UNCHANGED <<config, pools, usage, peak, block, current, held, excess>>

-----------------------------------------------------------------------------

Step(t) ==
    \/ CheckPressure(t) \/ CollectGarbage(t) \/ CheckAgain(t) \/ TakeBlock(t)
    \/ CountUsage(t) \/ LookAtUsage(t) \/ BelowPeak(t) \/ AbovePeak(t) \/ RaisePeak(t)
    \/ ReturnBlock(t) \/ ReleaseUsage(t)

MemoryNext ==
    \E t \in Threads :
        \/ \E size \in Sizes : Allocate(t, size)
        \/ Deallocate(t) \/ ForceGc(t)
        \/ Step(t)

MemorySpec == MemoryInit /\ [][MemoryNext]_memoryVars

-----------------------------------------------------------------------------

(* What a thread asked for and was counted, and was not taken off again.   *)
SizeOf(blocks) == SumFunction([i \in DOMAIN blocks |-> blocks[i].size])
CountedOf(t) ==
    SizeOf(held[t]) + (IF block[t] = None \/ stage[t] = "count" THEN 0 ELSE block[t].size)

(* What was let through and is not counted yet.                            *)
AdmittedOf(t) == IF stage[t] \in {"take", "count"} THEN asked[t] ELSE 0

Counted == SumFunction([t \in Threads |-> CountedOf(t)])
Admitted == SumFunction([t \in Threads |-> AdmittedOf(t)])

(* The usage is what was asked for and is still out, less what blocks that *)
(* were given back are larger than what was asked for (allocate_from_pool, *)
(* deallocate).  As long as no block was larger it exceeds the threshold   *)
(* by no more than the threads that passed the check together asked for    *)
(* (check_memory_pressure).                                                *)
UsageAccounted ==
    /\ usage = (Counted - excess) % Wrap
    /\ excess = 0 => Counted + Admitted <= Threshold + Cardinality(Threads) * Max(Sizes)

(* How many blocks as long as those of pool p a thread has out.            *)
NumberOf(blocks, p) == SumFunction([i \in DOMAIN blocks |-> IF blocks[i].len = p THEN 1 ELSE 0])
OutOf(t, p) ==
    NumberOf(held[t], p)
      + (IF block[t] = None \/ stage[t] = "release" \/ block[t].len # p THEN 0 ELSE 1)

(* A pool's blocks are those in it and those that are out, whatever is     *)
(* given out, given back and freed at the same time: get_memory_report     *)
(* subtracts one from the other.                                           *)
PoolsAddUp ==
    config.enable_pooling =>
        \A p \in DOMAIN pools :
            /\ pools[p].total = pools[p].available + pools[p].in_use
            /\ pools[p].in_use = SumFunction([t \in Threads |-> OutOf(t, p)])
=============================================================================
