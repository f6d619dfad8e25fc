------------------------------- MODULE Bench -------------------------------
(***************************************************************************)
(* The benchmark program: main, run_allBenchmark and the three BENCH_      *)
(* functions, on top of the command line (ParseArgs), the query sets       *)
(* (QuerySets) and the hardware counters (PerfEvent).                      *)
(*                                                                         *)
(* A filter is any implementation of BloomFilterSpec: inserting what it    *)
(* has inserted makes some set of further hashes answer with true, and a   *)
(* batch answers as single calls would.  A loop over hashes or queries is  *)
(* one step: the filters' modules have the loops' iterations.  Times are   *)
(* one unit for every hash that is inserted or looked up, and one for the  *)
(* construction of a filter.                                               *)
(***************************************************************************)
EXTENDS ParseArgs, HelperFuncs, SequencesExt

CONSTANTS murmur,                     \* murmurHash, a function on the hashes
          InsertSeed, NotPresentSeed, \* 0x1 and 0x100000000
          max_size,                   \* of a vector of 8-byte elements
          bitsPerKey, min_num_bits,   \* of the basic filter: 8 and 512
          EventNames, CounterBits,    \* the machine's counters
          MaxReadErrors,              \* bound: reads of counters that fail
          Benchmarks                  \* "scalar" or "batch": the insert and
                                      \* probe mode of each of main's calls
                                      \* of run_allBenchmark

ASSUME BenchAssumption ==
  /\ murmur \in [Sizes -> Sizes]
  /\ InsertSeed \in Sizes /\ NotPresentSeed \in Sizes
  /\ HashBits > 0
  /\ max_size \in Nat
  /\ bitsPerKey \in Nat \ {0} /\ min_num_bits \in Nat \ {0}
  /\ "cycle" \in EventNames
  /\ CounterBits \in Nat /\ MaxReadErrors \in Nat
  /\ Benchmarks \in Seq({"scalar", "batch"})
  /\ Len(Benchmarks) > 0

\* A vector's elements of 8 bytes fit in half the address space, so that 8 bits
\* for each do too and the length of two vectors does not wrap; and a counter's
\* time wraps in no section that processes a vector once.
ASSUME WidthsAssumption ==
  /\ max_size * bitsPerKey <= 2^(HashBits - 1)
  /\ min_num_bits <= 2^(HashBits - 1)
  /\ 2 * max_size < 2^HashBits
  /\ max_size < 2^CounterBits /\ 1 < 2^CounterBits

VARIABLES
  events, open, cycle, enabled, prev, data, duration, reported, errors, \* PerfEvent
  used, value, to_insert, not_present, mixed,                   \* QuerySets
  benchmark,        \* index of the benchmark that is running
  stage,            \* the function of run_allBenchmark that is running
  warmups,          \* the warm-up runs it has made
  members,          \* what has been inserted into the filter last created
  positives,        \* what the filter that is probed answers with true
  probe_result,     \* its packed answers
  false_positives,  \* how many of them were counted for not_present
  results,          \* length of cycle_results and of ns_results
  scheduled         \* history: the counter was scheduled in this hot run

perfVars == <<events, open, cycle, enabled, prev, data, duration, reported, errors>>
setVars  == <<used, value, to_insert, not_present, mixed>>
runVars  == <<benchmark, stage, warmups, members, positives, probe_result,
              false_positives, results, scheduled>>
vars     == <<argVars, perfVars, setVars, runVars>>

Perf    == INSTANCE PerfEvent
Queries == INSTANCE QuerySets

Probes == {"hit", "miss", "mixed"}

\* The argument queries of BENCH_probeFilters.
queries(s) == CASE s = "hit"   -> to_insert
                [] s = "miss"  -> not_present
                [] s = "mixed" -> mixed

Init ==
  /\ ArgsInit
  /\ Perf!Init
  /\ Queries!Init
  /\ benchmark = 1 /\ stage = "build" /\ warmups = 0
  /\ members = {} /\ positives = {}
  /\ probe_result = <<>> /\ false_positives = 0
  /\ results = 0
  /\ scheduled = FALSE

-----------------------------------------------------------------------------
(* main, up to the benchmarks *)

GoTo(next) ==
  /\ phase' = next
  /\ UNCHANGED thrown

\* Otherwise reserve throws; a set asks for as many buckets as elements.
CanReserve(n) == n <= max_size

Parse ==
  /\ ParseStep
  /\ UNCHANGED <<perfVars, setVars, runVars>>

OpenCounters ==
  /\ phase = "parsed" /\ GoTo("counters")
  /\ \E opened \in SUBSET EventNames : Perf!PerfEvent(opened)
  /\ UNCHANGED <<args_left, config, setVars, runVars>>

NoCounters ==
  /\ phase = "counters" /\ events = {}
  /\ Throw("Could not open hardware counters")
  /\ UNCHANGED <<args_left, config, perfVars, setVars, runVars>>

\* used_hashes.reserve, and the call of generate_unique for to_insert.
BeginToInsert ==
  /\ phase = "counters" /\ events # {}
  /\ IF /\ CanReserve((config.rows + config.negative_queries) % 2^HashBits)
        /\ CanReserve(config.rows)
     THEN GoTo("to_insert") /\ Queries!Seed(InsertSeed)
     ELSE Throw("length_error") /\ UNCHANGED setVars
  /\ UNCHANGED <<args_left, config, perfVars, runVars>>

GenerateToInsert ==
  /\ phase = "to_insert" /\ Len(to_insert) < config.rows
  /\ Queries!draw(to_insert)
  /\ UNCHANGED <<not_present, mixed, argVars, perfVars, runVars>>

BeginNotPresent ==
  /\ phase = "to_insert" /\ Len(to_insert) >= config.rows
  /\ IF CanReserve(config.negative_queries)
     THEN GoTo("not_present") /\ Queries!Seed(NotPresentSeed)
     ELSE Throw("length_error") /\ UNCHANGED setVars
  /\ UNCHANGED <<args_left, config, perfVars, runVars>>

GenerateNotPresent ==
  /\ phase = "not_present" /\ Len(not_present) < config.negative_queries
  /\ Queries!draw(not_present)
  /\ UNCHANGED <<to_insert, mixed, argVars, perfVars, runVars>>

Mix ==
  /\ phase = "not_present" /\ Len(not_present) >= config.negative_queries
  /\ GoTo("warmup")
  /\ mixed' = Queries!mix_vector(to_insert, not_present)
  /\ UNCHANGED <<used, value, to_insert, not_present>>
  /\ UNCHANGED <<args_left, config, perfVars, runVars>>

\* calculate_arrow_equivalent_bits: the next power of two, by its loop (module
\* ArrowEquivalentBits), with the products' wrap.
basic_num_bits ==
  LET product == (config.rows * bitsPerKey) % 2^HashBits
      desired == Max({min_num_bits, product})
  IN  Min({p \in {2^k : k \in 0 .. HashBits} : p >= desired}) % 2^HashBits

-----------------------------------------------------------------------------
(* The BENCH_ functions: warm-up runs, then hot runs between startCounters *)
(* and stopCounters                                                        *)

\* The next function of run_allBenchmark.
Enter(s) ==
  /\ stage' = s
  /\ warmups' = 0
  /\ results' = 0
  /\ probe_result' = IF s \in Probes
                     THEN [b \in 0 .. result_bytes(Len(queries(s))) - 1 |-> {}]
                     ELSE <<>>

\* What the measured section processes.
tuples == IF stage = "insert" THEN Len(to_insert) ELSE Len(queries(stage))
work   == IF stage = "build" THEN 1 ELSE tuples

\* containsBatch into buffer, by any filter that answers as promised.
containsBatch(buffer, q) ==
  [b \in DOMAIN buffer |->
     {k \in 0 .. ByteBits - 1 :
        ByteBits * b + k < Len(q) /\ q[ByteBits * b + k + 1] \in positives}]

\* std::fill, and the loop over contains.
probe_scalar(buffer, q) ==
  FoldLeft(LAMBDA bytes, k : IF q[k] \in positives
                             THEN setBit(bytes, k - 1) ELSE bytes,
           [b \in DOMAIN buffer |-> {}], [k \in 1 .. Len(q) |-> k])

\* The effect of the section: a filter is built, filled (scalar or batch, to
\* the same effect), or probed.  The filter to be filled holds base.
Section(base) ==
  \/ /\ stage = "build"
     /\ members' = {}
     /\ UNCHANGED probe_result
  \/ /\ stage = "insert"
     /\ members' = base \cup ToSet(to_insert)
     /\ UNCHANGED probe_result
  \/ /\ stage \in Probes
     /\ probe_result' = IF Benchmarks[benchmark] = "scalar"
                        THEN probe_scalar(probe_result, queries(stage))
                        ELSE containsBatch(probe_result, queries(stage))
     /\ UNCHANGED members

\* A warm-up run makes a filter of its own, unless it probes.
WarmUp ==
  /\ phase = "warmup" /\ warmups < config.warmup_runs
  /\ Section({})
  /\ warmups' = warmups + 1
  /\ UNCHANGED <<argVars, perfVars, setVars, benchmark, stage, positives,
                 false_positives, results, scheduled>>

\* cycle_results.reserve(hot_runs)
EndWarmUp ==
  /\ phase = "warmup" /\ warmups >= config.warmup_runs
  /\ IF CanReserve(config.hot_runs) THEN GoTo("hot") ELSE Throw("length_error")
  /\ UNCHANGED <<args_left, config, perfVars, setVars, runVars>>

\* Mutant: the filter is created once, before the loop over the hot runs.
StartRun_same_filter ==
  /\ phase = "hot" /\ results < config.hot_runs
  /\ GoTo("measure")
  /\ UNCHANGED members
  /\ \E read_ok \in BOOLEAN : Perf!startCounters(read_ok)
  /\ scheduled' = FALSE
  /\ UNCHANGED <<args_left, config, setVars, benchmark, stage, warmups, positives,
                 probe_result, false_positives, results>>

\* A hot run begins: a new filter to insert into, then startCounters.
StartRun ==
  /\ phase = "hot" /\ results < config.hot_runs
  /\ GoTo("measure")
  /\ members' = IF stage = "insert" THEN {} ELSE members
  /\ \E read_ok \in BOOLEAN : Perf!startCounters(read_ok)
  /\ scheduled' = FALSE
  /\ UNCHANGED <<args_left, config, setVars, benchmark, stage, warmups, positives,
                 probe_result, false_positives, results>>

Measure ==
  /\ phase = "measure" /\ GoTo("stop")
  /\ Section(members)
  /\ \E r \in 0 .. work : Perf!Elapse(work, r) /\ scheduled' = (r > 0)
  /\ UNCHANGED <<args_left, config, setVars, benchmark, stage, warmups, positives,
                 false_positives, results>>

StopRun ==
  /\ phase = "stop" /\ GoTo("record")
  /\ \E read_ok \in BOOLEAN : Perf!stopCounters(read_ok)
  /\ UNCHANGED <<args_left, config, setVars, runVars>>

\* Figures are per tuple, except those of construction.
per_tuple(figure) ==
  [figure EXCEPT !.denominator = @ * (IF stage = "build" THEN 1 ELSE tuples)]

\* What is pushed on the vectors cycle_results and ns_results, as fractions.
\* The vectors are abstracted to their length: medians are taken of them later.
cycles_r == per_tuple(Perf!readCounter)
ns_r     == per_tuple([numerator |-> duration, denominator |-> 1])

RecordRun ==
  /\ phase = "record" /\ GoTo("hot")
  /\ results' = results + 1
  /\ UNCHANGED <<args_left, config, perfVars, setVars, benchmark, stage, warmups,
                 members, positives, probe_result, false_positives, scheduled>>

\* A BENCH_ function returns the medians of its hot runs, and the next one
\* begins.
EndStage ==
  /\ phase = "hot" /\ results >= config.hot_runs
  /\ CASE stage = "build"  -> GoTo("warmup") /\ Enter("insert")
       [] stage = "insert" -> GoTo("refill") /\ Enter("refill")
       [] stage = "hit"    -> GoTo("warmup") /\ Enter("miss")
       [] stage = "miss"   -> GoTo("warmup") /\ Enter("mixed")
       [] stage = "mixed"  -> GoTo("next") /\ Enter("build")
  /\ UNCHANGED <<args_left, config, perfVars, setVars, benchmark, members,
                 positives, false_positives, scheduled>>

\* The filter that is probed: to_insert is inserted into a new filter.
Refill ==
  /\ phase = "refill" /\ GoTo("count")
  /\ members' = ToSet(to_insert)
  /\ \E more \in SUBSET ToSet(not_present) : positives' = members' \cup more
  /\ UNCHANGED <<args_left, config, perfVars, setVars, benchmark, stage, warmups,
                 probe_result, false_positives, results, scheduled>>

\* hit_result, fp_rate; then the first probe benchmark.
CountFalsePositives ==
  /\ phase = "count" /\ GoTo("warmup")
  /\ LET n     == Len(not_present)
         zeros == [b \in 0 .. result_bytes(n) - 1 |-> {}]
     IN  false_positives' =
           Queries!count_packed_true(containsBatch(zeros, not_present), n)
  /\ Enter("hit")
  /\ UNCHANGED <<args_left, config, perfVars, setVars, benchmark, members,
                 positives, scheduled>>

\* run_allBenchmark returns its BenchmarkResult and destroys the filter.
NextBenchmark ==
  /\ phase = "next"
  /\ IF benchmark < Len(Benchmarks)
     THEN GoTo("warmup") /\ benchmark' = benchmark + 1
     ELSE GoTo("report") /\ UNCHANGED benchmark
  /\ positives' = {}
  /\ UNCHANGED <<args_left, config, perfVars, setVars, stage, warmups, members,
                 probe_result, false_positives, results, scheduled>>

\* print_table; write_csv, which throws if the file cannot be opened.
Report ==
  /\ phase = "report"
  /\ \/ GoTo("done") /\ Perf!Close
     \/ config.csv_path /\ Throw("Could not open output file")
                        /\ UNCHANGED perfVars
  /\ UNCHANGED <<args_left, config, setVars, runVars>>

-----------------------------------------------------------------------------

Next ==
  \/ Parse
  \/ OpenCounters \/ NoCounters
  \/ BeginToInsert \/ GenerateToInsert
  \/ BeginNotPresent \/ GenerateNotPresent
  \/ Mix
  \/ WarmUp \/ EndWarmUp
  \/ StartRun \/ Measure \/ StopRun \/ RecordRun \/ EndStage
  \/ Refill \/ CountFalsePositives \/ NextBenchmark
  \/ Report

\* The program runs without waiting.
Spec == Init /\ [][Next]_vars /\ WF_vars(Next)

-----------------------------------------------------------------------------
(* Properties *)

\* Every variable keeps its type.
TypeOK ==
  /\ ArgsTypeOK /\ Perf!TypeOK /\ Queries!TypeOK
  /\ phase \in {"args", "parsed", "counters", "to_insert", "not_present",
                "warmup", "hot", "measure", "stop", "record", "refill", "count",
                "next", "report", "done", "exited"}
  /\ (phase = "exited") = (thrown # "none")
  /\ benchmark \in 1 .. Len(Benchmarks)
  /\ stage \in {"build", "insert", "refill"} \cup Probes
  /\ warmups \in 0 .. config.warmup_runs
  /\ members \subseteq positives \/ stage \in {"build", "insert", "refill"}
  /\ results \in 0 .. config.hot_runs

\* The phases in which the benchmarks run.
Benchmarking ==
  phase \in {"warmup", "hot", "measure", "stop", "record", "refill", "count",
             "next"}

\* "guarantees that we have no duplicates within a generated set and no
\* duplicates between different generated sets" (HelperFuncs.h:86-87), and the
\* mix alternates between the two: with as many hits as misses it contains
\* each of their hashes once.
QuerySetsDisjoint ==
  /\ IsInjective(to_insert) /\ IsInjective(not_present)
  /\ ToSet(to_insert) \cap ToSet(not_present) = {}
  /\ Benchmarking =>
       /\ \A k \in 1 .. Len(mixed) :
            mixed[k] \in ToSet(IF k % 2 = 1 THEN to_insert ELSE not_present)
       /\ IsInjective(mixed)
       /\ ToSet(mixed) = ToSet(to_insert) \cup ToSet(not_present)

\* Whatever the command line, nothing is indexed out of range or divided by
\* zero: mix_vector's second argument is as long as its first, back() and
\* median find an element, and generate_bit's num_bits is not 0.  And a section
\* is measured under the conditions it is meant for: all counters open,
\* insertion into an empty filter, probing of one that holds to_insert.
RunsPrepared ==
  /\ phase = "not_present" /\ Len(not_present) >= config.negative_queries =>
       Queries!CanMix(to_insert, not_present)
  /\ Benchmarking =>
       /\ to_insert # <<>> /\ not_present # <<>>
       /\ basic_num_bits # 0
  /\ phase = "hot" /\ results >= config.hot_runs =>
       results > 0
  /\ phase = "measure" =>
       /\ events # {} /\ events \subseteq open /\ enabled
       /\ stage = "insert" => members = {}
       /\ stage \in Probes => members = ToSet(to_insert)

\* Every figure that is recorded is the cost of the section of its own hot run,
\* one unit per tuple, although the kernel's times are never reset, wrap, and
\* run on while the counter is not scheduled: the duration always, the cycles
\* unless a read failed, which has been reported, or the counter was not
\* scheduled in the section at all.
FiguresMeasureRuns ==
  [][phase = "record" /\ phase' = "hot" =>
       /\ ns_r.numerator = ns_r.denominator
       /\ ~reported /\ scheduled =>
            /\ cycles_r.denominator > 0
            /\ cycles_r.numerator = cycles_r.denominator
    ]_vars

\* The false positives counted in the packed reply are the hashes never
\* inserted that the filter accepts, each once, and a probe in either mode
\* leaves every query's answer, and nothing else, in the buffer.
AnswersCounted ==
  /\ stage \in Probes => false_positives = Cardinality(positives \ members)
  /\ stage \in Probes /\ phase = "stop" =>
       \A b \in DOMAIN probe_result : \A k \in 0 .. ByteBits - 1 :
         LET q == queries(stage)
             n == ByteBits * b + k
         IN  packed_result_bit(probe_result, n) <=>
               n < Len(q) /\ q[n + 1] \in members \cup positives

\* The program ends, whatever the command line and the counters do: in
\* particular generate_unique finds enough hashes that are not in use.
Finishes == <>(phase \in {"done", "exited"})
=============================================================================
