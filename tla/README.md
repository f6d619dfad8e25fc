# Specifications of the Bloom filters

TLA+ specifications, TLC runs and TLAPS proofs for the repository's five Bloom
filter implementations and the benchmark that compares them. Paths below are relative to `src/`.

## 1. The system

A static library of header and source files, used by two single-threaded
programs: a correctness test (`src/test.cpp`) and a benchmark (`src/bench.cpp`).

| Component | State | Operations | Hard about it |
|---|---|---|---|
| `BloomFilter<Impl>` (`bloom_filter/BloomFilter.h`) | none, it dispatches statically | `insert`, `contains`, `insertBatch`, `containsBatch` | what every implementation must promise; the caller owns the hash array and the answer buffer and reuses the buffer |
| `BloomFilterMasks`, `ImprovedBloomFilterMasks` (Arrow, Improved) | a table of overlapping 57-bit masks | constructor, `mask` | a counter that must follow the bits of a sliding window; unaligned 8-byte loads at the table's end |
| `ModifiedBloomFilterMasks` | 2048 independent masks of 5 bits | constructor, `mask` | two loops that reject draws |
| `ArrowBloomFilter` | `bitvector` of 64-bit blocks, `num_blocks`, `impl_mode` | constructor and the four calls, batch calls scalar or AVX2 | lanes that share a block, tails after vectors, vector rotation against scalar rotation |
| `ImprovedArrowBloomFilter` | the same and `block_shift` | the same | clears only the byte of the tail |
| `ModifiedArrowBloomFilter` | the same | the same, insertion always scalar | never clears the buffer |
| `BlockedBloomFilter` | `bitvector`, `log_num_blocks` | constructor and the four calls | a rehash loop without a bound |
| `BasicBloomFilter` | `bitvector` of bytes, `num_bits`, `num_hashes` | constructor and the four calls | sizes that are not whole bytes |
| Helpers (`util/HelperFuncs.h`) | none | rotation, bit access, `ceil_log2`, `calculate_arrow_equivalent_bits`, `murmurHash`, `generate_bit`, `result_bytes` | rounding and overflow |
| Query sets (`util/HelperFuncs.h`) | `used`, shared by two calls; the generated vectors | `generate_unique`, `mix_vector`, `count_packed_true` | a loop that ends only if enough unused hashes exist; two sets drawn from ranges that may overlap |
| Test program (`src/test.cpp`) | three copies of each filter | `UT_*`, `run_allTests` | |
| Benchmark (`src/bench.cpp`) | configuration, result vectors, `benchmark_sink` | `parse_args`, `run_allBenchmark`, `BENCH_*`, `print_table`, `write_csv` | any number on the command line; warm-up and hot runs that share a filter, a buffer and the counters; checksums over whole bytes |
| `util/PerfEvent.h` (vendored) | `events` with `prev` and `data`, `startTime`, `stopTime` | constructor, `startCounters`, `stopCounters`, `getCounter`, `getDuration` | times that no reset clears, counters that are multiplexed, calls of the kernel that fail |

How they interact: a filter reads its class's static mask table, which a
constructor fills before `main`; a program makes one call of a filter at a time;
`containsBatch` answers into the caller's byte buffer, bit `k % 8` of byte
`k / 8` for query `k`. There are no threads, no callbacks and no persistent
state. What is hard is therefore arithmetic at boundaries (vector widths, bytes,
words, powers of two), state left over from earlier calls, agreement between
scalar and vector code that only some inputs can tell apart, and loops that end
only if a random or pseudo-random source cooperates. `PROJECT.json` lists these
hazards line by line with the properties aimed at them.

What makes each part correct:

- **any filter**: what has been inserted is found, for ever; an empty filter
  finds nothing; duplicates change nothing; a batch answers as single calls
  would, into exactly the bits it owns;
- **block filters**: the bits set are those of the inserted hashes, in whatever
  way they were inserted, and no index leaves the bit table;
- **mask tables**: every mask has a number of bits in the promised range, lookups
  stay inside the table, construction ends;
- **sizing**: the two ways of computing a size agree, also when they overflow;
- **query sets**: no hash twice, none in both sets, and generation ends;
- **benchmark**: whatever the command line, no index out of range and no division by
  zero; a section is measured on a filter in the state it is meant for, and a
  recorded figure is the cost of that section and of nothing else.

## 2. Modules

```
HelperFuncs ── SlidingMasks ── BloomFilterMasks
     │               │
     │               ├────────────────┐
     ├─ FilterSizing ┼─ ArrowEquivalentBits
     │               │
     ├─ FilterCalls ─┴─ ArrowBloomFilter ── MCArrowBloomFilter
     │        │     ├── ImprovedArrowFilter ── MCImprovedArrowFilter
     │        │     ├── ModifiedArrowBloomFilter ── MCModifiedArrowBloomFilter
     │        │     ├── BlockedBloomFilter ── MCBlockedBloomFilter
     │        │     └── BasicBloomFilter ── MCBasicBloomFilter ── MurmurHash
     │        └── (each filter) Abs == INSTANCE BloomFilterSpec
     ├─ ModifiedBloomFilterMasks
     ├─ BlockedMask ── MCBlockedMask ── MurmurHash
     └─ QuerySets

ParseArgs, HelperFuncs ── Bench ── MCBench ── MurmurHash
                            ├── Perf    == INSTANCE PerfEvent
                            └── Queries == INSTANCE QuerySets

FilterCalls ── FilterCalls_proofs        lemmas that the filters share
                 ├── ArrowBloomFilter_proofs
                 ├── ImprovedArrowFilter_proofs
                 ├── ModifiedArrowBloomFilter_proofs
                 │     └── Built == INSTANCE ModifiedBloomFilterMasks
                 ├── BlockedBloomFilter_proofs
                 │     └── Loop  == INSTANCE BlockedMask
                 └── BasicBloomFilter_proofs
BloomFilterMasks ── BloomFilterMasks_proofs
Bench ── Bench_proofs
```

**Data.** A word or byte is the set of the positions of its one bits, so that
`|`, `&`, `& ~` are union, intersection, difference; widths are the constants
`WordBits`, `ByteBits`, `HashBits`. Hashes, sizes and indices are numbers;
`& (n - 1)` and `>> k` are `% n` and `\div 2^k` (in the code the operands are
powers of two). Products wrap modulo `2^HashBits` where the code's do.

**HelperFuncs** `rotate_left`, `setBit`, `packed_result_bit`, `result_bytes`.
`ShiftLeft` and `ShiftRight` by the whole width give 0, as the AVX2 shifts do.

**SlidingMasks** is the table of the Arrow and Improved tables and its lookup:
load a word at byte `k / 8`, shift by `k % 8`, keep `bitsPerMask` bits.
`WellFormedTable` is what the filters assume of a table they are given.

**BloomFilterMasks** models both constructors (variable `struct`), one action per
branch of the sliding loop. A draw of the random generator is a nondeterministic
choice; a rejected draw is a stuttering step. The code's generator has a fixed
seed, so its table is one of those the model builds. Improved does not clear its
table; both objects are static, so the table is zero in `Init`.

**ModifiedBloomFilterMasks** models the two nested loops and the set `used`. Its
table is a sequence: `table_index` is its length.

**FilterSizing**, **ArrowEquivalentBits**: `ceil_log2` by counting shifts, the
constructors' size in blocks, and next to it the smearing loop of
`calculate_arrow_equivalent_bits`, one iteration per step.

**FilterCalls** is the caller and the frame of all batch calls: `call` (what is
in progress), `hash_array`, loop counter `i`, the reused buffer `result`, and the
history variable `members`. A batch call is a step for the call, one for every
loop iteration, one for the return; a scalar call is a single step (`contains`
changes nothing and is an operator). The caller may make any call at any time
when none is in progress: that covers every order the test and the benchmark
make them in, and more. Only the benchmark reuses its buffer, so the buffer
starts with zeros and later holds what earlier calls left. `BufferBytes` has one
byte more than the longest batch needs, so that writing past the reply shows.

**The five filters** have the code's names: `mask`, `block_id`, `insertImpl`,
`containsImpl`, and for AVX2 `mask_avx2` and `containsLane`, one lane of a
vector. `InsertVector` and `ProbeVectors` are one iteration of the vector loops;
`InsertTail` and `ProbeTail` one of the scalar loops. The four `|=` of an
insertion execute in order, so lanes that share a block accumulate. `impl_mode` and
the number of blocks are chosen in `Init` and constant, so one run covers both
modes and several sizes. Filters are modelled as compiled with AVX2, as the
Makefile does. (Without it `ImprovedArrowFilter.cpp` does not compile: the brace
at line 182 has no partner.) In Improved, the clearing of the tail's byte is part
of the first tail iteration (`ClearedForTail`): nothing can observe the buffer in
between.

**BlockedMask** is the rehash loop of `BlockedBloomFilter::mask`, one draw per
step, for any mixing function. `BlockedBloomFilter` uses its result as the
constant function `BlockMask`, of which it assumes that masks have `num_hashes`
bits (property `PositionsDistinct` with `i = num_hashes`). That the loop reaches
`i = num_hashes` is not a property of it (section 6).

**BasicBloomFilter** takes the bits of a hash from the constant function `bit_of`;
its MC module checks with an `ASSUME` that the table it supplies is what
`generate_bit` computes. **MurmurHash** has the mixing function for words of any
width; it needs the bit operators that proofs cannot use and so is used by MC
modules only.

**BloomFilterSpec** is the abstract promise: `members`, which only grows, and
`positives`, which may grow only on behalf of a hash that is not in it yet; a
batch answers with `positives`. A filter's mapping is
`positives <- {h \in Hashes : containsImpl(h)}`.

**ParseArgs** is the loop of `parse_args` and the checks after it, an action per
option. The command line is the environment's: its length is chosen in `Init`,
each argument when the loop reaches it. A number is an integer; `std::stoull`
negates a number with a minus sign modulo `2^HashBits`, as `parse_number` does.

**PerfEvent** is the vector of counters opened and closed together, and of the
counter `cycle`, which the benchmark reads, the kernel's record (`value`,
`time_enabled`, `time_running`, all modulo `2^CounterBits`) and the two copies
`prev` and `data`. The kernel is modelled as the code relies on it: a counter
counts at an even rate while it is scheduled, so that scaling by enabled over running
time is exact; it may be scheduled for part of a section or not at all; opening
any counter, and reading, may fail. Starting and stopping take no time themselves (in the
code they count the few calls between the reads of different counters). `readCounter` is a fraction, because its
denominator may be 0.

**QuerySets** has one iteration of `generate_unique` (`draw`), `mix_vector` and
`count_packed_true`. These two modules have no next-state relation of their own:
their operations are conjuncts of the actions of Bench.

**Bench** is the whole program: `main` up to the benchmarks (`Parse` ... `Mix`),
then for each call of `run_allBenchmark` the stages `build`, `insert`, the refill
and the count of false positives, and the probes `hit`, `miss`, `mixed`. The
three `BENCH_` functions have one shape: warm-up runs, `reserve`, hot runs of
`StartRun`, `Measure`, `StopRun`, `RecordRun`. What differs, the section that is
measured and what it is divided by, is in `Section` and `per_tuple`. The filter is any implementation of
BloomFilterSpec: `Refill` chooses which hashes that were never inserted it
answers with true. Because the filters' own modules have the iterations of
batch calls, a loop over hashes is one step here. `scheduled` is a history variable
for the property. A vector longer than `max_size` cannot be reserved and the
exception ends the program.

## 3. Runs

All runs pass except the one marked. Widths are scaled down so that every
boundary is crossed several times: bytes of 4 bits, two lanes per vector, words
of 4 or 8 bits.

| Run | Instance | Checks |
|---|---|---|
| `sliding_masks` | 8 masks of 5 bits, words of 8 | `EveryWindowBounded`: each of the overlapping masks has 2 to 3 bits; `LookupReadsWindow`: lookups read their window, inside the table; `Terminates` |
| `modified_masks` | 5 of the 6 masks of 2 bits that exist | `EntriesDistinct`; `Terminates` although only one mask is unused at the end |
| `arrow` | 3 hashes, batches up to 5 (vector, pair of vectors, tails), 2 and 4 blocks, both modes | `NoFalseNegatives`, `BitsOfInserted`, `AnswersExact`, `CallsReturn`, `RefinesSpec` |
| `improved` | likewise, two mask tables | `BitsOfInserted`, `AnswersExact`, `OnlyReplyBytesWritten`, `RefinesSpec` |
| `modified` | likewise, words of 4 bits | the same |
| `blocked_mask` | every 7-bit hash, 3 of 8 positions | `PositionsDistinct` |
| `blocked_mask_returns` | the same | **violated**: `Returns`, see section 6 |
| `blocked` | 4 hashes, batches up to 5, 2 and 4 blocks (the smaller from a negative row count) | `AnswersExact`, `RefinesSpec` |
| `basic` | 3 hashes, filters of 6 and of 8 bits | `BitsOfInserted` with the padding bits, `RefinesSpec` |
| `equivalent_bits` | every row count of 8 bits | `SameSize`, with the wrap of `rows * bits_per_key` and of the result |
| `bench` | up to 3 arguments, 7-bit hashes and sizes, 1 to 3 rows, 1 or 2 hot runs, two benchmarks (one of each mode), counters of 3 bits, one failing read | `QuerySetsDisjoint`; `RunsPrepared`: filters, buffers, counters and indices are as each section needs them; `AnswersCounted`: packed answers and their count; `FiguresMeasureRuns`: a figure is the cost of its own run; `Finishes` |
| `parse_args_message` | up to 4 arguments | **violated**: `ZeroMessageIsAboutRuns`, see section 6 |

Every run that passes also checks its module's `TypeOK`. Deadlock is checked for
all filters; the constructors, functions and the benchmark stop when they have returned,
and their configurations say so.

**Bounds.** `MaxBatch = 5` is one more than a pair of vectors (4 elements, one
byte of answers), so there are batches that are empty, tail only, vector and
tail, pair without tail, pair and tail, for both unroll factors. The hashes are
chosen for what can go wrong between them: same block and different masks,
rotation 0 and rotations that wrap, the last block. In `blocked` and `basic` the
bits of two hashes cover those of a third, so false positives occur and
`RefinesSpec` must allow exactly those. More rounds of calls add nothing: a state is
determined by the bits set, the call in progress and the buffer, and the runs
exhaust those. `MaskTables` has tables the constructor can build; TLC evaluates
the assumption that they are well formed.

In `bench` the seeds are 1 and 3, so that with three rows the second set meets hashes
of the first, as the code's 1 and `0x100000000` would with `2^32` rows.
One and three rows leave a tail in the packed answers, two fill a byte exactly. The texts -1 and 64 make
`rows` too large to reserve and `rows + negative_queries` wrap, 128 is out of
range. Three arguments are an option with its value and one more that lacks it;
options are independent, apart from the last of a kind
overriding earlier ones. Counters of 3 bits wrap many times, their times during
the first benchmark already. A second failing read could only
leave a figure that has been reported as doubtful already.

**Fairness.** A function that has been called runs on (`WF_vars(Step)`,
`WF_vars(Next)`); nothing obliges the caller to call. The random generators are
assumed not to avoid for ever what would let a loop end: in `BloomFilterMasks`
rejected draws are stuttering, so weak fairness of `Next` says that a clear
position is eventually drawn; in `ModifiedBloomFilterMasks`, `HelpfulDraw` is
strongly fair, that is, a draw that still leads to an unused mask is not missed
for ever. mt19937 is equidistributed, and with a fixed seed both constructors are
seen to end; the runs show that nothing else can stop them. In `BlockedMask`
there is no randomness: rehashing is a function, fairness is only that the
function runs, and it is not enough. In `bench`, `WF_vars(Next)` likewise says that the
program runs, and that is enough: generation ends because the mixing function, the code's on 7 bits, is
a bijection.

**The rehash loop has no bound.** For a fixed `i` the redraws of `mask` are a
function of the last value alone, so they either reach a free position or go
round taken ones for ever. On 7 bits the latter happens for 46, 52 and 86: after
46 come 107 and 106, and rehashing 106 with `i = 2` gives 106 again. In the
model this is a step that changes nothing, in the code a loop that never ends. The
fairness of `Spec`, that the function runs on, does not help, and
`blocked_mask_returns` finds the behaviour. A 64-bit hash for which this happens is
very unlikely and not exhibited, but nothing in the code excludes it. What
`blocked` and `bench` show about calls that return is therefore under the
proviso that `mask` does: `BlockedBloomFilter` takes the masks as given and
`Bench` takes the calls of its filter as single steps.

Each property of a passing run has a mutant: an operator marked "Mutant" above
the definition it would replace, a plausible mistake under which TLC finds the
property violated (`PROJECT.json`, "mutants").

## 4. Proofs

Checked by TLAPS for every value of the constants that satisfies the modules'
assumptions. `PROJECT.json` lists the theorems with the properties they state.
Each inductive invariant was first checked by TLC on the instance of the
module's run, in the filters with the `\E q \in Nat` of `Aligned` bounded by the
length of the batch, because TLC cannot enumerate `Nat`.

| Module | Theorems |
|---|---|
| `FilterCalls_proofs` | `BlocksOfRows`, and the lemmas that the filters share |
| `BloomFilterMasks_proofs` | `TypeCorrect`, `WindowsBounded`, `TableIsWellFormed`, `LookupsCorrect` |
| `ArrowBloomFilter_proofs` | `TypeCorrect`, `BitsCorrect`, `NeverFalseNegative`, `AnswersAreExact`, `WritesOnlyReply`, `ImplementsInterface` |
| `ImprovedArrowFilter_proofs` | the same six |
| `ModifiedArrowBloomFilter_proofs` | the same six; `TableTypeCorrect`, `TableEntriesDistinct`, `TableIsAssumed` |
| `BlockedBloomFilter_proofs` | the same six; `MaskTypeCorrect`, `MaskPositionsDistinct` |
| `BasicBloomFilter_proofs` | the same six; `SizeTypeCorrect`, `SizesAgree`, `SizeIsNextPower` |
| `Bench_proofs` | `TypeCorrect`, `SetsDisjoint`, `Prepared`, `FiguresExact`, `AnswersExact` |

**The sliding masks.** `EveryWindowBounded` is not inductive: it says nothing about
the counter. The invariant adds that in the sliding loop `num_bits_set` is exactly the
number of bits in the window that ends before `i`, and that nothing is set at `i`
or later. A step moves the window by one; a lemma computes the cardinality of the
moved window from the bit that leaves and the bit that enters, and each of the
four branches preserves the bounds. `LookupsCorrect` then needs only that
`bitsPerMask + ByteBits - 1 <= WordBits`.

**What the filters share** is in `FilterCalls_proofs`: what each kind of step does
to the caller's variables, the arithmetic of unrolled loops and of whole bytes,
what setting a bit or storing a byte makes of a reply, how a table of blocks
grows when a mask is added to it, and that a rotation by two shifts is
`rotate_left`. A lemma about a reply takes the set of the hashes that the filter
finds as a parameter, a lemma about a table the functions that give a hash its
block and its mask; each filter supplies its own. That the top `l` bits of a hash are a block
number needs `2^(a + b) = 2^a * 2^b`, which no prover here knows and which
cannot be had by induction: `PowersMultiply` counts the subsets of `1 .. a + b`, which are the
pairs of one of `1 .. a` and one of the rest.

**The filters.** `BitsOfInserted` alone is inductive with the types and `Aligned`
(while a vector loop runs, `i` is a multiple of its width, without which an
iteration could reach past the end of the array). A vector iteration keeps it
because a lane's mask equals the scalar mask, the case of rotation 0 included, and
the update of a block is the union over all lanes. `NeverFalseNegative` follows:
the block of a member contains its mask. (The runs of the last four filters
leave this property to `RefinesSpec`; the theorem is stated for all five.)

`AnswersExact` speaks of a batch that has been answered, so it needs an invariant of
the loops, `AnswersSoFar`: byte `b` of the reply holds exactly the positive
answers among the elements `b * ByteBits ..` that come before `i`. A vector
iteration starts at a whole byte and replaces it; a tail iteration adds one bit
to the byte of `i`. The filters differ in what makes that sound: Arrow, Blocked
and Basic clear the reply when the call begins; Improved in `avx2` mode does not, and in its
invariant `FreshBytes` says which bytes hold nothing of earlier calls any more
(lemma `TailReady`: the tail's byte is one of them when its first bit is set);
Modified clears nothing, and every iteration overwrites the byte it has
assembled, of which the last may be partial.
For Basic no run checks `AnswersExact` on its own; the theorem states it, by
`AnswersSoFar`.

`WritesOnlyReply` is an action property: no step changes a byte of the caller's
buffer outside the reply to the call in progress. It needs the invariant, because
a vector store is inside the reply only when `i` is aligned.

`ImplementsInterface` is `Spec => RefinesSpec`. `positives` is mapped to what
`containsImpl` finds in the current bits. A step of a batch insertion adds one
or several hashes and maps to one step of the specification, which permits sets;
steps of a loop over queries, and those that begin a call, are stutters; a
returning `containsBatch` maps to an answer, by `AnswersSoFar` with `i = count`.
`positives` may grow only when something not yet a member is inserted: a member's
mask is in its block already (`BitsOfInserted`), so inserting it again changes
nothing. For Basic the theorem assumes `num_hashes >= 1`: with none, which its
constructor accepts and no program asks for, an empty filter would find every
hash.

**Sizes.** `BlocksOfRows`: for every number of rows, also when `rows * bitsPerKey`
wraps, the constructors' size is a positive number of blocks, and the shift by
`64 - log_num_blocks` that selects a block is by at least 1 and at most 63 bits;
a shift by the whole width would be undefined in C++. It needs that a block has more
than one bit and the smallest filter at least two blocks (`BlockShiftDefined`; 64 and 512
bits in the code). Under it is what `ceil_log2` computes (`CeilLog2`: the least
`k` with `n <= 2^k`).

`SizesAgree` is `SameSize` of `ArrowEquivalentBits`, instantiated as `Equiv`. The
invariant `SmearInv` says that if the highest one of `d - 1` is bit `h`, then `x`
stays below `h + 1` and its top `distance` bits are ones; each iteration doubles
them. When the loop ends `x` is `0 .. h`, whose value is `2^(h + 1) - 1`, and `h + 1`
is what counting shifts gives. `SizeIsNextPower` says that this is the least
power of two that is large enough, which is how Bench writes it (`basic_num_bits`).

**Recursion.** `shifts_to_zero` and the folds of the community modules (`SumSet`,
`MapThenSumSet`, `FoldLeft`) are functions `CHOOSE`n to satisfy a recursive equation.
Induction is not available, but two steps replace it. That the equation has
a solution is shown by writing one down: the number of shifts is the one greater
than the place of the highest bit, a sum is the cardinality of a set. That every solution
agrees with it is shown by the least argument on which they would differ (`FoldsAgree`
for sets, `ShiftsCounted` for numbers), which exists because `<` on `Nat` is
well founded.

**The mask constructors.** The tables are constants of the filters, with assumptions.
`TableIsWellFormed` shows that the sliding constructors produce what
`ArrowAssumption` and its counterpart assume; `TableIsAssumed` the same for the
Modified table, whose constructor is instantiated as `Built` with the filter's
own constants. Its invariant says that `used` is what is in the table, that all
masks have `bitsPerMask` bits and that a mask is only begun while the table has
room. `MaskPositionsDistinct` does it for the rehash loop: taken positions are as
many as the loop has counted, whatever the mixing function yields. The theorems about
the instances name what they need of their constants, since the assumptions of
an instantiated module are not available to a proof.

**The benchmark.** The invariant has one part per concern. `ConfigInv`: the numbers
that main goes on with are not zero, and the two that `-nr` sets are equal.
`SetsInv`: `used` is exactly what the two vectors contain, they are injective and
disjoint, each phase has its lengths, and `2 * rows <= max_size` once both reservations
have succeeded (their sum cannot wrap). `StageInv`: which stage can be in which
phase, and that a probe's filter was filled for it. `CountersInv`: the counters
are open while there is anything to measure. `MeasureInv`: from `startCounters` on,
the kernel's record is ahead of `prev` by what the section cost, modulo the
width. `SetsDisjoint` follows with a lemma about `mix_vector` (an odd place is a
hit's, an even one a miss's, and no hash is in two places); `Prepared` with one
that the size of the basic filter is a power of two of at most `2^(HashBits - 1)`, by
the least element of a set of powers; `FiguresExact` with
`(a + n) mod m - a = n mod m`, in a section that takes less than `m`.

`AnswersExact` (property `AnswersCounted`) is a second induction on top, with
`AnswersInv`: the filter accepts no hash outside the two sets, the count made
before the first probe is that of its false positives, the buffer has a byte for
every query of its stage, and after a measured section it is what `containsBatch` packs.
Three lemmas carry it. `PackedCount`: whole bytes and tail together count every
accepted element once, because an element's byte and bit are its quotient and
remainder by the width. `CountedOnce`: elements of an injective sequence are as
many as the hashes they stand for. `ProbeScalar`: the loop over `contains`, a fold
that starts with zeros, packs the same bytes as a batch call; after the elements
in `T` the buffer is `Packed(buffer, q, T)`, and each iteration adds the bit of one.

**Assumptions on constants.** `ModifiedAssumption` has tables without empty masks,
and `BlockedAssumption` `num_hashes > 0`: a filter with an empty mask finds hashes
while it is empty. Both are what the constructors, with 5 bits, provide.
`SizingAssumption`: a block's width is a power of two, and the smallest filter has
at least one block and fewer than `2^HashBits` bits. Of the row counts the filters assume only
that they are natural numbers; for Blocked, which takes a signed number, that its
product with the bits per key is below `2^(HashBits - 1)` (overflow would be undefined
in C++).
`WidthsAssumption` of Bench: a vector of `max_size` 8-byte elements
fits in half the address space, so that `rows * bits_per_key` with 8 bits per
key does not wrap once `reserve` has succeeded; and no counter's time wraps
within one section. TLC evaluates all of them in every run.

**Only model-checked.** Liveness (`Terminates`, `CallsReturn`, `Finishes`), which
TLAPS does not reach; `Returns` does not hold. All safety properties of the passing
runs are theorems. Two facts enter the proofs as assumptions about constants that
TLC evaluates on the runs' instances: that `bit_of` is what `generate_bit`
computes, and `murmur` what `murmurHash` computes, since the mixing function is
made of bit operators that proofs cannot use. The theorems hold for any other
function too.

## 5. Not modelled

- the test program: sequential checks without state of their own. What they
  demand of a filter are consequences of the filters' properties: an empty
  filter has no positives and insertions no false negatives (`RefinesSpec`,
  `NoFalseNegatives`), scalar and batch builds agree because bits are a function
  of what was inserted (`BitsOfInserted`), batch answers are the scalar ones
  (`AnswersExact`). Its query sets are generated as in `QuerySets`;
- `print_table`, `write_csv`: formatting and files, but for the exception when the
  file cannot be opened;
- `benchmark_sink`, checksums and fences, which only keep the compiler from
  removing work; the medians' values;
- in `PerfEvent.h` the reporting of counters and parameters, `PerfEventBlock`, and the
  arithmetic of floating point;
- the distribution of hashes and so the false positive rate;
- builds without AVX2, in which `avx2` mode throws in the constructor;
- running out of memory for a size that `reserve` accepts.

## 6. Findings

`BlockedBloomFilter::mask` says that it is to "generate num_hashes bit positions in
the selected block" (`bloom_filter/BlockedBloomFilter.cpp:19`) with a `while(true)`
loop that avoids repeated ones (line 23). Run `blocked_mask_returns` states this as
`Returns` and finds hashes for which the loop never ends, on 7 bits and with the code's
mixing function scaled to that width (section 3).

`parse_args` (`src/bench.cpp:147-149`) rejects `-nr 0` with "-r cannot be zero.", the message
for zero hot runs (line 151); `-r` is the "Number of measured, or 'hot,' benchmark
runs" (`README.md:64`). Run `parse_args_message` states that the message is about
hot runs and finds the throw with the default number of them.

Noticed while modelling, without a run: the comment above the constructor of
`ModifiedBloomFilterMasks` (`bloom_filter/ModifiedArrowBloomFilter.cpp:6-8`), left from the
Arrow version, says that "masks are generated in a sliding-window fashion" and that
there are 1024; the constructor draws 2048 masks independently, as the model does.

What the run `bench` shows of the code as it is, without being an error: a counter
that was not scheduled in a section yields a figure that is not a number, and a counter that
cannot be read yields a figure from an earlier run. `FiguresMeasureRuns` names
these as the only two exceptions, and so says nothing about them.

## 7. Plan

Done: models of every component of section 1 but the test program; proofs of all safety
properties of the mask tables, of all five filters with their refinements, of
the sizes and of the benchmark. What could follow:

1. Construction of the tables before `main` composed with a filter in one
   specification, in place of the assumption on `MaskTables`, which
   `TableIsWellFormed` and `TableIsAssumed` justify separately.
2. Two filters in one specification with the row count in common, so that
   `SizesAgree` becomes a property of the program that makes both.
