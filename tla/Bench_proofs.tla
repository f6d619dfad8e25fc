---------------------------- MODULE Bench_proofs ----------------------------
(***************************************************************************)
(* Proofs about the benchmark program, for every command line, mixing      *)
(* function, width of sizes and counters, and sequence of benchmarks.      *)
(***************************************************************************)
EXTENDS Bench, FiniteSetTheorems, FunctionTheorems, WellFoundedInduction, TLAPS

-----------------------------------------------------------------------------
(* The constants                                                           *)

\* A power of two is a number: that of the sets of n elements.
LEMMA PowerOfTwo ==
  ASSUME NEW n \in Nat
  PROVE  2^n \in Nat /\ 2^n >= 1
<1>1. IsFiniteSet(1 .. n) /\ Cardinality(1 .. n) = n
  BY FS_Interval
<1>2. IsFiniteSet(SUBSET (1 .. n)) /\ Cardinality(SUBSET (1 .. n)) = 2^n
  BY <1>1, FS_SUBSET
<1>3. 2^n \in Nat
  BY <1>2, FS_CardinalityType
<1>4. 2^n # 0
  BY <1>2, FS_EmptySet
<1> QED
  BY <1>3, <1>4

\* The next one is greater.
LEMMA PowersGrow ==
  ASSUME NEW n \in Nat, n >= 1
  PROVE  2^(n - 1) \in Nat /\ 2^(n - 1) >= 1 /\ 2^(n - 1) < 2^n
<1>1. IsFiniteSet(1 .. n) /\ Cardinality(1 .. n) = n
      /\ IsFiniteSet(1 .. n - 1) /\ Cardinality(1 .. n - 1) = n - 1
  BY FS_Interval
<1>2. /\ IsFiniteSet(SUBSET (1 .. n)) /\ Cardinality(SUBSET (1 .. n)) = 2^n
      /\ IsFiniteSet(SUBSET (1 .. n - 1))
      /\ Cardinality(SUBSET (1 .. n - 1)) = 2^(n - 1)
  BY <1>1, FS_SUBSET
<1>3. SUBSET (1 .. n - 1) \subseteq SUBSET (1 .. n)
  OBVIOUS
<1>4. {n} \in SUBSET (1 .. n) /\ {n} \notin SUBSET (1 .. n - 1)
  OBVIOUS
<1>5. SUBSET (1 .. n - 1) # SUBSET (1 .. n)
  BY <1>4
<1>6. Cardinality(SUBSET (1 .. n - 1)) < Cardinality(SUBSET (1 .. n))
  <2>1. /\ Cardinality(SUBSET (1 .. n - 1)) <= Cardinality(SUBSET (1 .. n))
        /\ Cardinality(SUBSET (1 .. n - 1)) # Cardinality(SUBSET (1 .. n))
    BY <1>2, <1>3, <1>5, FS_Subset
  <2>2. /\ Cardinality(SUBSET (1 .. n - 1)) \in Nat
        /\ Cardinality(SUBSET (1 .. n)) \in Nat
    BY <1>2, FS_CardinalityType
  <2> QED
    BY <2>1, <2>2
<1>7. n - 1 \in Nat
  OBVIOUS
<1> QED
  BY <1>2, <1>6, <1>7, PowerOfTwo

LEMMA Constants ==
  /\ HashBits \in Nat /\ HashBits >= 1
  /\ 2^HashBits \in Nat /\ 2^HashBits >= 1 /\ 0 \in Sizes
  /\ default_rows \in Sizes /\ default_rows >= 1
  /\ default_hot_runs \in Sizes /\ default_hot_runs >= 1
  /\ default_warmup_runs \in Sizes
  /\ max_size \in Nat /\ 2 * max_size < 2^HashBits
  /\ CounterBits \in Nat /\ 2^CounterBits \in Nat
  /\ max_size < 2^CounterBits /\ 1 < 2^CounterBits
  /\ EventNames # {}
  /\ Len(Benchmarks) \in Nat /\ Len(Benchmarks) >= 1
<1>1. HashBits \in Nat /\ HashBits >= 1 /\ CounterBits \in Nat
  BY ParseAssumption, BenchAssumption
<1>2. 2^HashBits \in Nat /\ 2^HashBits >= 1 /\ 2^CounterBits \in Nat
  BY <1>1, PowerOfTwo
<1>3. /\ default_rows \in Sizes /\ default_rows >= 1
      /\ default_hot_runs \in Sizes /\ default_hot_runs >= 1
      /\ default_warmup_runs \in Sizes
  BY <1>2, ParseAssumption DEF Sizes
<1>4. /\ max_size \in Nat /\ 2 * max_size < 2^HashBits
      /\ max_size < 2^CounterBits /\ 1 < 2^CounterBits
  BY BenchAssumption, WidthsAssumption
<1>5. EventNames # {} /\ Len(Benchmarks) \in Nat /\ Len(Benchmarks) >= 1
  BY BenchAssumption
<1>6. 0 \in Sizes
  BY <1>2 DEF Sizes
<1> QED
  BY <1>1, <1>2, <1>3, <1>4, <1>5, <1>6

LEMMA HashesAreSizes == Queries!HashSpace = Sizes
  BY DEF Queries!HashSpace, Sizes

-----------------------------------------------------------------------------
(***************************************************************************)
(* The inductive invariant, by the part of the program that it is about.   *)
(***************************************************************************)

\* -nr sets both numbers, and main goes on with none of them zero.
ConfigInv ==
  /\ config.negative_queries = config.rows
  /\ phase \notin {"args", "done", "exited"} =>
       config.rows > 0 /\ config.hot_runs > 0

\* The functions of run_allBenchmark follow each other: those that probe find
\* the filter that was filled for them, and a run is recorded for each that is
\* begun.
StageInv ==
  /\ phase \in {"args", "parsed", "counters", "to_insert", "not_present"} =>
       stage = "build" /\ warmups = 0 /\ results = 0
  /\ phase \in {"warmup", "hot", "measure", "stop", "record"} => stage # "refill"
  /\ phase \in {"refill", "count"} => stage = "refill"
  /\ phase = "next" => stage = "build"
  /\ phase \in {"measure", "stop", "record"} => results < config.hot_runs
  /\ stage \in Probes \/ phase = "count" =>
       members = ToSet(to_insert) /\ members \subseteq positives
  /\ phase = "measure" /\ stage = "insert" => members = {}

\* The two sets grow one after the other, against what both contain, to the
\* number of rows; two vectors of so many were reserved at once.
SetsInv ==
  /\ used = ToSet(to_insert) \cup ToSet(not_present)
  /\ IsInjective(to_insert) /\ IsInjective(not_present)
  /\ ToSet(to_insert) \cap ToSet(not_present) = {}
  /\ phase \in {"args", "parsed", "counters"} => to_insert = <<>>
  /\ phase \in {"args", "parsed", "counters", "to_insert"} => not_present = <<>>
  /\ Len(to_insert) <= config.rows /\ Len(not_present) <= config.rows
  /\ phase \in {"to_insert", "not_present"} \/ Benchmarking =>
       2 * config.rows <= max_size
  /\ phase = "not_present" \/ Benchmarking => Len(to_insert) = config.rows
  /\ Benchmarking =>
       /\ Len(not_present) = config.rows
       /\ mixed = Queries!mix_vector(to_insert, not_present)

\* All counters are open while there is anything to measure.
CountersInv ==
  /\ phase # "done" => open = events
  /\ phase \in {"to_insert", "not_present"} \/ Benchmarking => events # {}
  /\ phase \in {"measure", "stop"} => enabled

\* From prev to c the kernel's record has advanced by the section's cost, of
\* which it counted r.
Counted(c) ==
  /\ Perf!minus(c.time_enabled, prev.time_enabled) = work
  /\ \E r \in 0 .. work :
       /\ Perf!minus(c.value, prev.value) = r
       /\ Perf!minus(c.time_running, prev.time_running) = r
       /\ scheduled <=> r > 0

\* What startCounters, the section and stopCounters leave behind, unless a read
\* has failed.
MeasureInv ==
  /\ phase = "measure" =>
       duration = 0 /\ cycle.value = 0 /\ (~reported => prev = cycle)
  /\ phase = "stop"   => duration = work /\ (~reported => Counted(cycle))
  /\ phase = "record" => duration = work /\ (~reported => Counted(data))

IndInv ==
  /\ TypeOK /\ ConfigInv /\ StageInv /\ SetsInv
  /\ CountersInv /\ MeasureInv

-----------------------------------------------------------------------------
(* What each action leaves alone                                           *)

\* The actions that prepare the benchmarks, and those that run them.
Preparing ==
  \/ OpenCounters \/ NoCounters
  \/ BeginToInsert \/ GenerateToInsert \/ BeginNotPresent \/ GenerateNotPresent
  \/ Mix

Running ==
  \/ WarmUp \/ EndWarmUp
  \/ StartRun \/ Measure \/ StopRun \/ RecordRun \/ EndStage
  \/ Refill \/ CountFalsePositives \/ NextBenchmark
  \/ Report

LEMMA StepCases ==
  ASSUME [Next]_vars
  PROVE  Parse \/ Preparing \/ Running \/ UNCHANGED vars
  BY DEF Next, Preparing, Running

LEMMA ParseFrame ==
  ASSUME Parse
  PROVE  UNCHANGED <<perfVars, setVars, runVars>> /\ phase = "args"
  BY DEF Parse, ParseStep, SetRows, SetHotRuns, SetWarmupRuns, SetPath, Help,
         Reject, Accept, RejectZero, Take

LEMMA PreparingFrame ==
  ASSUME Preparing
  PROVE  /\ UNCHANGED <<args_left, config, runVars>>
         /\ phase \in {"parsed", "counters", "to_insert", "not_present"}
<1>1. CASE OpenCounters
  BY <1>1 DEF OpenCounters
<1>2. CASE NoCounters
  BY <1>2 DEF NoCounters
<1>3. CASE BeginToInsert
  BY <1>3 DEF BeginToInsert
<1>4. CASE GenerateToInsert
  BY <1>4 DEF GenerateToInsert, argVars
<1>5. CASE BeginNotPresent
  BY <1>5 DEF BeginNotPresent
<1>6. CASE GenerateNotPresent
  BY <1>6 DEF GenerateNotPresent, argVars
<1>7. CASE Mix
  BY <1>7 DEF Mix
<1> QED
  BY <1>1, <1>2, <1>3, <1>4, <1>5, <1>6, <1>7 DEF Preparing

\* While the benchmarks run, nothing changes what they were prepared with.
LEMMA RunningFrame ==
  ASSUME TypeOK, StageInv, Running
  PROVE  /\ UNCHANGED <<args_left, config, setVars>>
         /\ Benchmarking \/ phase = "report"
         /\ Benchmarking' \/ phase' \in {"report", "done", "exited"}
         /\ Benchmarking' => Benchmarking
<1>1. CASE WarmUp
  BY <1>1 DEF WarmUp, argVars, Benchmarking
<1>2. CASE EndWarmUp
  BY <1>2 DEF EndWarmUp, GoTo, Throw, Benchmarking
<1>3. CASE StartRun
  BY <1>3 DEF StartRun, GoTo, Benchmarking
<1>4. CASE Measure
  BY <1>4 DEF Measure, GoTo, Benchmarking
<1>5. CASE StopRun
  BY <1>5 DEF StopRun, GoTo, Benchmarking
<1>6. CASE RecordRun
  BY <1>6 DEF RecordRun, GoTo, Benchmarking
<1>7. CASE EndStage
  <2>1. stage \in {"build", "insert"} \cup Probes
    BY <1>7 DEF EndStage, TypeOK, StageInv
  <2>2. phase' \in {"warmup", "refill", "next"}
    BY <1>7, <2>1 DEF EndStage, GoTo, Probes
  <2> QED
    BY <1>7, <2>2 DEF EndStage, Benchmarking
<1>8. CASE Refill
  BY <1>8 DEF Refill, GoTo, Benchmarking
<1>9. CASE CountFalsePositives
  BY <1>9 DEF CountFalsePositives, GoTo, Benchmarking
<1>10. CASE NextBenchmark
  BY <1>10 DEF NextBenchmark, GoTo, Benchmarking
<1>11. CASE Report
  BY <1>11 DEF Report, GoTo, Throw, Benchmarking
<1> QED
  BY <1>1, <1>2, <1>3, <1>4, <1>5, <1>6, <1>7, <1>8, <1>9, <1>10, <1>11
     DEF Running

-----------------------------------------------------------------------------
(* Each part of the invariant is preserved                                 *)

\* The command line: its numbers are converted to sizes.
LEMMA ParseConfig ==
  ASSUME TypeOK, ConfigInv, Parse
  PROVE  /\ ArgsTypeOK' /\ ConfigInv'
         /\ phase' \in {"args", "parsed", "done", "exited"}
         /\ (phase' = "exited") = (thrown' # "none")
<1>1. /\ args_left \in 0 .. MaxArgs /\ MaxArgs \in Nat
      /\ config \in [rows : Sizes, negative_queries : Sizes, hot_runs : Sizes,
                     warmup_runs : Sizes, csv_path : BOOLEAN]
      /\ phase = "args" /\ thrown = "none"
  BY ParseFrame, ParseAssumption DEF TypeOK, ArgsTypeOK
<1>2. ASSUME NEW text \in RowTexts \cup RunTexts \cup WarmupTexts
      PROVE  parse_number(text) \in Sizes
  <2>1. text \in Int /\ 2^HashBits \in Nat /\ 2^HashBits >= 1
    BY <1>2, Constants, ParseAssumption
  <2> QED
    BY <2>1 DEF parse_number, Sizes
<1>3. ASSUME NEW text \in RowTexts, SetRows(text)
      PROVE  ArgsTypeOK' /\ ConfigInv' /\ UNCHANGED <<phase, thrown>>
  <2>1. /\ args_left' = args_left - 2 /\ args_left >= 2
        /\ config' = [config EXCEPT !.rows = parse_number(text),
                                    !.negative_queries = parse_number(text)]
        /\ UNCHANGED <<phase, thrown>>
    BY <1>3 DEF SetRows, Take
  <2>2. parse_number(text) \in Sizes
    BY <1>2
  <2>3. /\ config' \in [rows : Sizes, negative_queries : Sizes, hot_runs : Sizes,
                         warmup_runs : Sizes, csv_path : BOOLEAN]
        /\ config'.negative_queries = config'.rows
    BY <1>1, <2>1, <2>2
  <2> QED
    BY <1>1, <2>1, <2>3 DEF ArgsTypeOK, ConfigInv
<1>4. ASSUME NEW text \in RunTexts, SetHotRuns(text)
      PROVE  ArgsTypeOK' /\ ConfigInv' /\ UNCHANGED <<phase, thrown>>
  BY <1>1, <1>2, <1>4 DEF SetHotRuns, Take, ArgsTypeOK, ConfigInv
<1>5. ASSUME NEW text \in WarmupTexts, SetWarmupRuns(text)
      PROVE  ArgsTypeOK' /\ ConfigInv' /\ UNCHANGED <<phase, thrown>>
  BY <1>1, <1>2, <1>5 DEF SetWarmupRuns, Take, ArgsTypeOK, ConfigInv
<1>6. CASE SetPath
  BY <1>1, <1>6 DEF SetPath, Take, ArgsTypeOK, ConfigInv
<1>7. CASE Help
  BY <1>1, <1>7 DEF Help, Take, ArgsTypeOK, ConfigInv
<1>8. CASE Reject
  <2>1. PICK n \in {1, 2} : Take(n)
    BY <1>8 DEF Reject
  <2>2. args_left' \in 0 .. MaxArgs
    BY <1>1, <2>1 DEF Take
  <2>3. UNCHANGED config /\ phase' = "exited" /\ thrown' # "none"
    BY <1>8 DEF Reject, Throw
  <2> QED
    BY <1>1, <2>2, <2>3 DEF ArgsTypeOK, ConfigInv
<1>9. CASE Accept
  BY <1>1, <1>9 DEF Accept, ArgsTypeOK, ConfigInv
<1>10. CASE RejectZero
  BY <1>1, <1>10 DEF RejectZero, Throw, ArgsTypeOK, ConfigInv
<1> QED
  BY <1>1, <1>3, <1>4, <1>5, <1>6, <1>7, <1>8, <1>9, <1>10
     DEF Parse, ParseStep

\* A hash that is new is appended.
LEMMA AppendNew ==
  ASSUME NEW hashes \in Seq(Sizes), NEW hash \in Sizes,
         IsInjective(hashes), hash \notin ToSet(hashes)
  PROVE  /\ Append(hashes, hash) \in Seq(Sizes)
         /\ IsInjective(Append(hashes, hash))
         /\ ToSet(Append(hashes, hash)) = ToSet(hashes) \cup {hash}
         /\ Len(Append(hashes, hash)) = Len(hashes) + 1
<1> DEFINE longer == Append(hashes, hash)
<1>1. /\ longer \in Seq(Sizes) /\ Len(longer) = Len(hashes) + 1
      /\ longer[Len(hashes) + 1] = hash
      /\ \A k \in 1 .. Len(hashes) : longer[k] = hashes[k]
      /\ DOMAIN longer = 1 .. Len(hashes) + 1 /\ Len(hashes) \in Nat
      /\ DOMAIN hashes = 1 .. Len(hashes)
  OBVIOUS
<1> HIDE DEF longer
<1>2. \A k \in 1 .. Len(hashes) : hashes[k] # hash
  BY <1>1 DEF ToSet
<1>3. 1 .. Len(hashes) + 1 = (1 .. Len(hashes)) \cup {Len(hashes) + 1}
  BY <1>1
<1>4. IsInjective(longer)
  BY <1>1, <1>2, <1>3 DEF IsInjective
<1>5. ToSet(longer) = ToSet(hashes) \cup {hash}
  BY <1>1, <1>3 DEF ToSet
<1> QED
  BY <1>1, <1>4, <1>5 DEF longer

\* The vector and the used hashes after one iteration of generate_unique.
Longer(hashes, old, hash) == IF hash \in old THEN hashes ELSE Append(hashes, hash)
UsedAfter(old, hash)      == old \cup {hash}

\* The iteration adds the same new hash to the vector and to the used ones, or
\* to neither; other holds the used hashes that are not the vector's.
LEMMA DrawOne ==
  ASSUME NEW hashes \in Seq(Sizes), NEW other, NEW old, NEW hash \in Sizes,
         IsInjective(hashes),
         old = ToSet(hashes) \cup other, ToSet(hashes) \cap other = {}
  PROVE  /\ Longer(hashes, old, hash) \in Seq(Sizes)
         /\ IsInjective(Longer(hashes, old, hash))
         /\ Len(Longer(hashes, old, hash)) <= Len(hashes) + 1
         /\ UsedAfter(old, hash) = ToSet(Longer(hashes, old, hash)) \cup other
         /\ ToSet(Longer(hashes, old, hash)) \cap other = {}
<1>1. CASE hash \in old
  <2>1. Longer(hashes, old, hash) = hashes /\ UsedAfter(old, hash) = old
    BY <1>1 DEF Longer, UsedAfter
  <2>2. Len(Longer(hashes, old, hash)) <= Len(hashes) + 1
    BY <2>1
  <2>3. UsedAfter(old, hash) = ToSet(Longer(hashes, old, hash)) \cup other
    BY <2>1
  <2>4. ToSet(Longer(hashes, old, hash)) \cap other = {}
    BY <2>1
  <2>5. /\ Longer(hashes, old, hash) \in Seq(Sizes)
        /\ IsInjective(Longer(hashes, old, hash))
    BY <2>1
  <2> QED
    BY <2>2, <2>3, <2>4, <2>5
<1>2. CASE hash \notin old
  <2> DEFINE longer == Append(hashes, hash)
  <2>1. hash \notin ToSet(hashes) /\ hash \notin other
    BY <1>2
  <2>2. Longer(hashes, old, hash) = longer
    BY <1>2 DEF Longer
  <2>3. /\ longer \in Seq(Sizes) /\ IsInjective(longer)
        /\ Len(longer) = Len(hashes) + 1
        /\ ToSet(longer) = ToSet(hashes) \cup {hash}
    BY <2>1, AppendNew
  <2> HIDE DEF longer
  <2>4. UsedAfter(old, hash) = ToSet(longer) \cup other
    BY <2>3 DEF UsedAfter
  <2>5. ToSet(longer) \cap other = {}
    BY <2>1, <2>3
  <2>6. Len(hashes) \in Nat
    OBVIOUS
  <2>7. UsedAfter(old, hash) = ToSet(Longer(hashes, old, hash)) \cup other
    BY <2>2, <2>4
  <2>8. ToSet(Longer(hashes, old, hash)) \cap other = {}
    BY <2>2, <2>5
  <2>9. /\ Longer(hashes, old, hash) \in Seq(Sizes)
        /\ IsInjective(Longer(hashes, old, hash))
        /\ Len(Longer(hashes, old, hash)) <= Len(hashes) + 1
    BY <2>2, <2>3, <2>6
  <2> QED
    BY <2>7, <2>8, <2>9
<1> QED
  BY <1>1, <1>2

\* With as many hits as misses, and none in common, the mix holds each once.
LEMMA MixedOnce ==
  ASSUME NEW v1 \in Seq(Sizes), NEW v2 \in Seq(Sizes), Len(v1) = Len(v2),
         IsInjective(v1), IsInjective(v2), ToSet(v1) \cap ToSet(v2) = {},
         NEW mix, mix = Queries!mix_vector(v1, v2)
  PROVE  /\ mix \in Seq(Sizes) /\ Len(mix) = 2 * Len(v1)
         /\ \A k \in 1 .. Len(mix) : mix[k] \in ToSet(IF k % 2 = 1 THEN v1 ELSE v2)
         /\ IsInjective(mix)
         /\ ToSet(mix) = ToSet(v1) \cup ToSet(v2)
<1> DEFINE n == Len(v1)
<1>1. /\ n \in Nat /\ DOMAIN v1 = 1 .. n /\ DOMAIN v2 = 1 .. n
      /\ \A k \in 1 .. n : v1[k] \in Sizes /\ v2[k] \in Sizes
  OBVIOUS
<1>2. /\ DOMAIN mix = 1 .. 2 * n
      /\ \A k \in 1 .. 2 * n :
           mix[k] = IF k % 2 = 1 THEN v1[(k + 1) \div 2] ELSE v2[k \div 2]
  BY DEF Queries!mix_vector
<1> HIDE DEF n
\* Each place of the mix is an odd one, of a hit, or an even one, of a miss.
<1>3. ASSUME NEW k \in 1 .. 2 * n
      PROVE  \/ \E j \in 1 .. n : k = 2 * j - 1 /\ k % 2 = 1 /\ mix[k] = v1[j]
             \/ \E j \in 1 .. n : k = 2 * j /\ k % 2 = 0 /\ mix[k] = v2[j]
  <2>1. CASE k % 2 = 1
    <3>1. /\ (k + 1) \div 2 \in 1 .. n
          /\ k = 2 * ((k + 1) \div 2) - 1
      BY <1>1, <2>1
    <3> QED
      BY <1>2, <2>1, <3>1
  <2>2. CASE k % 2 # 1
    <3>1. /\ k \div 2 \in 1 .. n
          /\ k = 2 * (k \div 2) /\ k % 2 = 0
      BY <1>1, <2>2
    <3> QED
      BY <1>2, <2>2, <3>1
  <2> QED
    BY <2>1, <2>2
<1>4. ASSUME NEW j \in 1 .. n
      PROVE  /\ 2 * j - 1 \in 1 .. 2 * n /\ 2 * j \in 1 .. 2 * n
             /\ mix[2 * j - 1] = v1[j] /\ mix[2 * j] = v2[j]
  <2>1. /\ 2 * j - 1 \in 1 .. 2 * n /\ 2 * j \in 1 .. 2 * n
        /\ (2 * j - 1) % 2 = 1 /\ (2 * j - 1 + 1) \div 2 = j
        /\ (2 * j) % 2 = 0 /\ (2 * j) \div 2 = j
    BY <1>1
  <2> QED
    BY <1>2, <2>1
<1>5. mix \in Seq(Sizes) /\ Len(mix) = 2 * n
  <2>1. \A k \in 1 .. 2 * n : mix[k] \in Sizes
    BY <1>1, <1>3
  <2>2. mix = [k \in 1 .. 2 * n |-> mix[k]]
    BY <1>2 DEF Queries!mix_vector, n
  <2>3. 2 * n \in Nat
    BY <1>1
  <2> QED
    BY <2>1, <2>2, <2>3
<1>6. \A j \in 1 .. n : v1[j] \in ToSet(v1) /\ v2[j] \in ToSet(v2)
  BY <1>1 DEF ToSet
<1>7. \A k \in 1 .. Len(mix) : mix[k] \in ToSet(IF k % 2 = 1 THEN v1 ELSE v2)
  BY <1>3, <1>5, <1>6
<1>8. IsInjective(mix)
  <2> SUFFICES ASSUME NEW j \in 1 .. 2 * n, NEW k \in 1 .. 2 * n, mix[j] = mix[k]
               PROVE  j = k
    BY <1>2 DEF IsInjective
  <2>1. \A a, b \in 1 .. n :
          /\ v1[a] = v1[b] => a = b
          /\ v2[a] = v2[b] => a = b
          /\ v1[a] # v2[b]
    BY <1>1, <1>6 DEF IsInjective
  <2> QED
    BY <1>3, <2>1
<1>9. ToSet(mix) = ToSet(v1) \cup ToSet(v2)
  <2>1. ToSet(mix) = {mix[k] : k \in 1 .. 2 * n}
    BY <1>2 DEF ToSet
  <2>2. ToSet(v1) = {v1[j] : j \in 1 .. n} /\ ToSet(v2) = {v2[j] : j \in 1 .. n}
    BY <1>1 DEF ToSet
  <2>3. ASSUME NEW h \in ToSet(mix) PROVE h \in ToSet(v1) \cup ToSet(v2)
    BY <1>3, <1>6, <2>1, <2>3
  <2>4. ASSUME NEW h \in ToSet(v1) \cup ToSet(v2) PROVE h \in ToSet(mix)
    BY <1>4, <2>1, <2>2, <2>4
  <2> QED
    BY <2>3, <2>4
<1> QED
  BY <1>5, <1>7, <1>8, <1>9 DEF n

LEMMA SetTypes ==
  ASSUME Queries!TypeOK, ArgsTypeOK
  PROVE  /\ used \in SUBSET Sizes /\ value \in Sizes
         /\ to_insert \in Seq(Sizes) /\ not_present \in Seq(Sizes)
         /\ mixed \in Seq(Sizes)
         /\ Len(to_insert) \in Nat /\ Len(not_present) \in Nat
         /\ config.rows \in Nat /\ config.negative_queries \in Nat
         /\ config.rows < 2^HashBits
         /\ config.hot_runs \in Nat /\ config.warmup_runs \in Nat
<1>1. /\ config.rows \in Sizes /\ config.negative_queries \in Sizes
      /\ config.hot_runs \in Sizes /\ config.warmup_runs \in Sizes
  BY DEF ArgsTypeOK
<1>2. ASSUME NEW n \in Sizes PROVE n \in Nat /\ n < 2^HashBits
  BY Constants DEF Sizes
<1>3. /\ used \in SUBSET Sizes /\ value \in Sizes
      /\ to_insert \in Seq(Sizes) /\ not_present \in Seq(Sizes)
      /\ mixed \in Seq(Sizes)
  BY HashesAreSizes DEF Queries!TypeOK
<1> QED
  BY <1>1, <1>2, <1>3

\* A hash is drawn, and value advances.
LEMMA Drawn ==
  ASSUME Queries!TypeOK
  PROVE  murmur[value] \in Sizes /\ (value + 1) % 2^HashBits \in Sizes
<1>1. value \in Sizes
  BY HashesAreSizes DEF Queries!TypeOK
<1>2. murmur[value] \in Sizes
  <2>1. murmur \in [Sizes -> Sizes]
    BY BenchAssumption
  <2> QED
    BY <1>1, <2>1
<1>3. (value + 1) % 2^HashBits \in Sizes
  <2>1. 2^HashBits \in Nat /\ 2^HashBits >= 1
    BY Constants
  <2>2. value + 1 \in Nat
    BY <1>1, <2>1 DEF Sizes
  <2> QED
    BY <2>1, <2>2 DEF Sizes
<1> QED
  BY <1>2, <1>3

LEMMA SetsOfPreparing ==
  ASSUME IndInv, Preparing
  PROVE  Queries!TypeOK' /\ SetsInv'
<1>1. /\ Queries!TypeOK /\ ArgsTypeOK /\ SetsInv /\ ConfigInv
      /\ config' = config
      /\ phase \in {"parsed", "counters", "to_insert", "not_present"}
      /\ config.negative_queries = config.rows
  BY PreparingFrame DEF IndInv, TypeOK, ConfigInv
<1>2. /\ used \in SUBSET Sizes /\ value \in Sizes
      /\ to_insert \in Seq(Sizes) /\ not_present \in Seq(Sizes)
      /\ mixed \in Seq(Sizes)
      /\ Len(to_insert) \in Nat /\ Len(not_present) \in Nat
      /\ config.rows \in Nat /\ config.rows < 2^HashBits
  BY <1>1, SetTypes
<1>3. /\ used = ToSet(to_insert) \cup ToSet(not_present)
      /\ IsInjective(to_insert) /\ IsInjective(not_present)
      /\ ToSet(to_insert) \cap ToSet(not_present) = {}
      /\ Len(to_insert) <= config.rows /\ Len(not_present) <= config.rows
  BY <1>1 DEF SetsInv
\* Nothing is drawn.
<1>4. ASSUME UNCHANGED <<used, to_insert, not_present, mixed>>, value' \in Sizes,
             phase' \in {"counters", "to_insert", "not_present", "exited"},
             phase' = "counters" => to_insert = <<>>,
             phase' \in {"counters", "to_insert"} => not_present = <<>>,
             phase' \in {"to_insert", "not_present"} =>
               2 * config.rows <= max_size,
             phase' = "not_present" => Len(to_insert) = config.rows
      PROVE  Queries!TypeOK' /\ SetsInv'
  <2>1. Queries!TypeOK'
    BY <1>1, <1>4, HashesAreSizes DEF Queries!TypeOK
  <2> QED
    BY <1>1, <1>3, <1>4, <2>1 DEF SetsInv, Benchmarking
<1>5. CASE OpenCounters
  BY <1>1, <1>2, <1>4, <1>5 DEF OpenCounters, GoTo, SetsInv, setVars
<1>6. CASE NoCounters
  BY <1>1, <1>2, <1>4, <1>6 DEF NoCounters, Throw, setVars
<1>7. CASE BeginToInsert
  <2>1. CASE ~ (/\ CanReserve((config.rows + config.negative_queries) % 2^HashBits)
                /\ CanReserve(config.rows))
    BY <1>2, <1>4, <1>7, <2>1 DEF BeginToInsert, Throw, setVars
  <2>2. CASE /\ CanReserve((config.rows + config.negative_queries) % 2^HashBits)
             /\ CanReserve(config.rows)
    <3>1. /\ (config.rows + config.rows) % 2^HashBits <= max_size
          /\ config.rows <= max_size
      BY <1>1, <2>2 DEF CanReserve
    <3>2. (config.rows + config.rows) % 2^HashBits = config.rows + config.rows
      <4>1. 2 * max_size < 2^HashBits /\ max_size \in Nat /\ 2^HashBits \in Nat
        BY Constants
      <4>2. config.rows \in Nat /\ config.rows <= max_size
        BY <1>2, <3>1
      <4> QED
        BY <4>1, <4>2
    <3>3. 2 * config.rows <= max_size
      BY <1>2, <3>1, <3>2, Constants
    <3>4. /\ phase' = "to_insert" /\ value' = InsertSeed
          /\ UNCHANGED <<used, to_insert, not_present, mixed>>
      BY <1>7, <2>2 DEF BeginToInsert, GoTo, Queries!Seed
    <3>5. not_present = <<>>
      BY <1>1, <1>7 DEF BeginToInsert, SetsInv
    <3> QED
      BY <1>4, <3>3, <3>4, <3>5, BenchAssumption
  <2> QED
    BY <2>1, <2>2
<1>8. CASE BeginNotPresent
  <2>1. /\ phase' \in {"not_present", "exited"} /\ value' \in Sizes
        /\ UNCHANGED <<used, to_insert, not_present, mixed>>
    BY <1>2, <1>8, BenchAssumption
       DEF BeginNotPresent, GoTo, Throw, Queries!Seed, setVars
  <2>2. 2 * config.rows <= max_size /\ Len(to_insert) = config.rows
    BY <1>1, <1>2, <1>3, <1>8 DEF BeginNotPresent, SetsInv
  <2> QED
    BY <1>4, <2>1, <2>2
<1>9. CASE GenerateToInsert
  <2>1. /\ phase = "to_insert" /\ phase' = "to_insert" /\ Len(to_insert) < config.rows
        /\ value' = (value + 1) % 2^HashBits
        /\ used' = UsedAfter(used, murmur[value])
        /\ to_insert' = Longer(to_insert, used, murmur[value])
        /\ UNCHANGED <<not_present, mixed>>
    BY <1>9 DEF GenerateToInsert, Queries!draw, argVars, Longer, UsedAfter
  <2>2. /\ to_insert' \in Seq(Sizes) /\ IsInjective(to_insert')
        /\ Len(to_insert') <= Len(to_insert) + 1
        /\ used' = ToSet(to_insert') \cup ToSet(not_present)
        /\ ToSet(to_insert') \cap ToSet(not_present) = {}
    <3>1. murmur[value] \in Sizes
      BY <1>1, Drawn
    <3>2. /\ used = ToSet(to_insert) \cup ToSet(not_present)
          /\ ToSet(to_insert) \cap ToSet(not_present) = {}
      BY <1>3
    <3>3. to_insert \in Seq(Sizes) /\ IsInjective(to_insert)
      BY <1>2, <1>3
    <3> DEFINE longer == Longer(to_insert, used, murmur[value])
    <3>4. longer \in Seq(Sizes) /\ IsInjective(longer)
      BY <3>1, <3>2, <3>3, DrawOne
    <3>5. Len(longer) <= Len(to_insert) + 1
      BY <3>1, <3>2, <3>3, DrawOne
    <3>6. UsedAfter(used, murmur[value]) = ToSet(longer) \cup ToSet(not_present)
      BY <3>1, <3>2, <3>3, DrawOne
    <3>7. ToSet(longer) \cap ToSet(not_present) = {}
      BY <3>1, <3>2, <3>3, DrawOne
    <3> QED
      BY <2>1, <3>4, <3>5, <3>6, <3>7
  <2>3. not_present = <<>> /\ 2 * config.rows <= max_size
    BY <1>1, <2>1 DEF SetsInv
  <2>4. used' \in SUBSET Sizes
    <3>1. murmur[value] \in Sizes
      BY <1>1, Drawn
    <3> QED
      BY <1>2, <2>1, <3>1 DEF UsedAfter
  <2>5. Len(to_insert') <= config.rows
    <3>1. Len(to_insert') \in Nat
      BY <2>2
    <3> QED
      BY <1>2, <2>1, <2>2, <3>1
  <2>6. Queries!TypeOK'
    BY <1>1, <1>2, <2>1, <2>2, <2>4, Drawn, HashesAreSizes DEF Queries!TypeOK
  <2> QED
    BY <1>1, <1>3, <2>1, <2>2, <2>3, <2>5, <2>6 DEF SetsInv, Benchmarking
<1>10. CASE GenerateNotPresent
  <2>1. /\ phase = "not_present" /\ phase' = "not_present"
        /\ Len(not_present) < config.rows
        /\ value' = (value + 1) % 2^HashBits
        /\ used' = UsedAfter(used, murmur[value])
        /\ not_present' = Longer(not_present, used, murmur[value])
        /\ UNCHANGED <<to_insert, mixed>>
    BY <1>1, <1>10 DEF GenerateNotPresent, Queries!draw, argVars, Longer, UsedAfter
  <2>2. /\ not_present' \in Seq(Sizes) /\ IsInjective(not_present')
        /\ Len(not_present') <= Len(not_present) + 1
        /\ used' = ToSet(not_present') \cup ToSet(to_insert)
        /\ ToSet(not_present') \cap ToSet(to_insert) = {}
    <3>1. murmur[value] \in Sizes
      BY <1>1, Drawn
    <3>2. /\ used = ToSet(not_present) \cup ToSet(to_insert)
          /\ ToSet(not_present) \cap ToSet(to_insert) = {}
      BY <1>3
    <3>3. not_present \in Seq(Sizes) /\ IsInjective(not_present)
      BY <1>2, <1>3
    <3> DEFINE longer == Longer(not_present, used, murmur[value])
    <3>4. longer \in Seq(Sizes) /\ IsInjective(longer)
      BY <3>1, <3>2, <3>3, DrawOne
    <3>5. Len(longer) <= Len(not_present) + 1
      BY <3>1, <3>2, <3>3, DrawOne
    <3>6. UsedAfter(used, murmur[value]) = ToSet(longer) \cup ToSet(to_insert)
      BY <3>1, <3>2, <3>3, DrawOne
    <3>7. ToSet(longer) \cap ToSet(to_insert) = {}
      BY <3>1, <3>2, <3>3, DrawOne
    <3> QED
      BY <2>1, <3>4, <3>5, <3>6, <3>7
  <2>3. Len(to_insert) = config.rows /\ 2 * config.rows <= max_size
    BY <1>1, <2>1 DEF SetsInv
  <2>4. used' \in SUBSET Sizes
    <3>1. murmur[value] \in Sizes
      BY <1>1, Drawn
    <3> QED
      BY <1>2, <2>1, <3>1 DEF UsedAfter
  <2>5. Len(not_present') <= config.rows
    <3>1. Len(not_present') \in Nat
      BY <2>2
    <3> QED
      BY <1>2, <2>1, <2>2, <3>1
  <2>6. Queries!TypeOK'
    BY <1>1, <1>2, <2>1, <2>2, <2>4, Drawn, HashesAreSizes DEF Queries!TypeOK
  <2> QED
    BY <1>1, <1>3, <2>1, <2>2, <2>3, <2>5, <2>6 DEF SetsInv, Benchmarking
<1>11. CASE Mix
  <2>1. /\ phase = "not_present" /\ phase' = "warmup"
        /\ Len(not_present) >= config.rows
        /\ mixed' = Queries!mix_vector(to_insert, not_present)
        /\ UNCHANGED <<used, value, to_insert, not_present>>
    BY <1>1, <1>11 DEF Mix, GoTo
  <2>2. /\ Len(to_insert) = config.rows /\ Len(not_present) = config.rows
        /\ 2 * config.rows <= max_size
    BY <1>1, <1>2, <1>3, <2>1 DEF SetsInv
  <2>3. mixed' \in Seq(Sizes)
    BY <1>2, <1>3, <2>1, <2>2, MixedOnce
  <2>4. Queries!TypeOK'
    BY <1>1, <2>1, <2>3, HashesAreSizes DEF Queries!TypeOK
  <2> QED
    BY <1>1, <1>3, <2>1, <2>2, <2>4 DEF SetsInv, Benchmarking
<1> QED
  BY <1>5, <1>6, <1>7, <1>8, <1>9, <1>10, <1>11 DEF Preparing

LEMMA SetsStep ==
  ASSUME IndInv, [Next]_vars
  PROVE  Queries!TypeOK' /\ SetsInv'
<1>1. /\ Queries!TypeOK /\ SetsInv /\ TypeOK /\ ConfigInv /\ StageInv
      /\ ArgsTypeOK
  BY DEF IndInv, TypeOK
<1>2. CASE Parse
  <2>1. /\ UNCHANGED setVars /\ phase = "args"
        /\ phase' \in {"args", "parsed", "done", "exited"} /\ ArgsTypeOK'
    BY <1>1, <1>2, ParseFrame, ParseConfig
  <2>2. to_insert = <<>> /\ not_present = <<>> /\ Queries!TypeOK'
    BY <1>1, <2>1 DEF SetsInv, setVars, Queries!TypeOK
  <2>3. config.rows' >= 0
    BY <2>1, Constants DEF ArgsTypeOK, Sizes
  <2> QED
    BY <1>1, <2>1, <2>2, <2>3 DEF SetsInv, setVars, Benchmarking
<1>3. CASE Preparing
  BY <1>3, SetsOfPreparing
<1>4. CASE Running
  <2>1. /\ UNCHANGED <<config, setVars>>
        /\ Benchmarking \/ phase = "report"
        /\ Benchmarking' \/ phase' \in {"report", "done", "exited"}
        /\ Benchmarking' => Benchmarking
    BY <1>1, <1>4, RunningFrame
  <2>2. Queries!TypeOK'
    BY <1>1, <2>1 DEF setVars, Queries!TypeOK
  <2> QED
    BY <1>1, <2>1, <2>2 DEF SetsInv, setVars, Benchmarking
<1>5. CASE UNCHANGED vars
  BY <1>1, <1>5
     DEF vars, argVars, setVars, SetsInv, Queries!TypeOK, Benchmarking
<1> QED
  BY <1>2, <1>3, <1>4, <1>5, StepCases

\* The numbers of the configuration do not change after the command line.
LEMMA ConfigStep ==
  ASSUME IndInv, [Next]_vars
  PROVE  ArgsTypeOK' /\ ConfigInv'
<1>1. TypeOK /\ ArgsTypeOK /\ ConfigInv /\ StageInv
  BY DEF IndInv, TypeOK
<1>2. CASE Parse
  BY <1>1, <1>2, ParseConfig
<1>3. CASE Preparing
  BY <1>1, <1>3, PreparingFrame DEF ArgsTypeOK, ConfigInv
<1>4. CASE Running
  BY <1>1, <1>4, RunningFrame DEF ArgsTypeOK, ConfigInv, Benchmarking
<1>5. CASE UNCHANGED vars
  BY <1>1, <1>5 DEF vars, argVars, ArgsTypeOK, ConfigInv
<1> QED
  BY <1>2, <1>3, <1>4, <1>5, StepCases

\* What TypeOK says of the variables of run_allBenchmark.
RunTypeOK ==
  /\ phase \in {"args", "parsed", "counters", "to_insert", "not_present",
                "warmup", "hot", "measure", "stop", "record", "refill", "count",
                "next", "report", "done", "exited"}
  /\ (phase = "exited") = (thrown # "none")
  /\ benchmark \in 1 .. Len(Benchmarks)
  /\ stage \in {"build", "insert", "refill"} \cup Probes
  /\ warmups \in 0 .. config.warmup_runs
  /\ members \subseteq positives \/ stage \in {"build", "insert", "refill"}
  /\ results \in 0 .. config.hot_runs

LEMMA TypeParts ==
  TypeOK <=> /\ ArgsTypeOK /\ Perf!TypeOK /\ Queries!TypeOK
             /\ RunTypeOK
  BY DEF TypeOK, RunTypeOK

LEMMA StageOfPreparing ==
  ASSUME IndInv, Preparing
  PROVE  RunTypeOK' /\ StageInv'
<1>1. /\ RunTypeOK /\ StageInv /\ ArgsTypeOK
      /\ UNCHANGED <<config, runVars>>
      /\ phase \in {"parsed", "counters", "to_insert", "not_present"}
  BY TypeParts, PreparingFrame DEF IndInv
<1>2. /\ stage = "build" /\ warmups = 0 /\ results = 0 /\ thrown = "none"
  BY <1>1 DEF StageInv, RunTypeOK
<1>3. ASSUME \/ /\ phase' \in {"counters", "to_insert", "not_present", "warmup"}
                /\ thrown' = "none"
             \/ phase' = "exited" /\ thrown' # "none"
      PROVE  RunTypeOK' /\ StageInv'
  BY <1>1, <1>2, <1>3 DEF RunTypeOK, StageInv, runVars, Probes
<1>4. CASE OpenCounters
  BY <1>2, <1>3, <1>4 DEF OpenCounters, GoTo
<1>5. CASE NoCounters
  BY <1>3, <1>5 DEF NoCounters, Throw
<1>6. CASE BeginToInsert
  BY <1>2, <1>3, <1>6 DEF BeginToInsert, GoTo, Throw
<1>7. CASE GenerateToInsert
  BY <1>2, <1>3, <1>7 DEF GenerateToInsert, argVars
<1>8. CASE BeginNotPresent
  BY <1>2, <1>3, <1>8 DEF BeginNotPresent, GoTo, Throw
<1>9. CASE GenerateNotPresent
  BY <1>2, <1>3, <1>9 DEF GenerateNotPresent, argVars
<1>10. CASE Mix
  BY <1>2, <1>3, <1>10 DEF Mix, GoTo
<1> QED
  BY <1>4, <1>5, <1>6, <1>7, <1>8, <1>9, <1>10 DEF Preparing

LEMMA StageOfRunning ==
  ASSUME IndInv, Running
  PROVE  RunTypeOK' /\ StageInv'
<1>1. /\ RunTypeOK /\ StageInv /\ TypeOK /\ ConfigInv
      /\ UNCHANGED <<config, setVars>>
      /\ thrown = "none" \/ phase = "exited"
  BY TypeParts, RunningFrame DEF IndInv, RunTypeOK
<1>2. /\ config.hot_runs \in Nat /\ config.warmup_runs \in Nat
      /\ results \in 0 .. config.hot_runs /\ warmups \in 0 .. config.warmup_runs
      /\ Len(Benchmarks) \in Nat
      /\ UNCHANGED <<to_insert, not_present>>
  BY <1>1, SetTypes, Constants, TypeParts DEF RunTypeOK, setVars
<1>3. CASE WarmUp
  <2>1. /\ phase = "warmup" /\ warmups' \in 0 .. config.warmup_runs
        /\ UNCHANGED <<phase, thrown, benchmark, stage, positives, results>>
        /\ stage \in Probes => members' = members
    BY <1>2, <1>3 DEF WarmUp, Section, argVars, Probes
  <2> QED
    BY <1>1, <1>2, <2>1 DEF RunTypeOK, StageInv
<1>4. CASE EndWarmUp
  <2>1. /\ phase = "warmup"
        /\ \/ phase' = "hot" /\ thrown' = thrown
           \/ phase' = "exited" /\ thrown' # "none"
        /\ UNCHANGED <<benchmark, stage, warmups, members, positives, results>>
    BY <1>4 DEF EndWarmUp, GoTo, Throw, runVars
  <2> QED
    BY <1>1, <1>2, <2>1 DEF RunTypeOK, StageInv
<1>5. CASE StartRun
  <2>1. /\ phase = "hot" /\ phase' = "measure" /\ results < config.hot_runs
        /\ stage # "insert" => members' = members
        /\ stage = "insert" => members' = {}
        /\ UNCHANGED <<thrown, benchmark, stage, warmups, positives, results>>
    BY <1>5 DEF StartRun, GoTo
  <2> QED
    BY <1>1, <1>2, <2>1 DEF RunTypeOK, StageInv, Probes
<1>6. CASE Measure
  <2>1. /\ phase = "measure" /\ phase' = "stop"
        /\ UNCHANGED <<thrown, benchmark, stage, warmups, positives, results>>
        /\ stage \in Probes => members' = members
    BY <1>6 DEF Measure, Section, GoTo, Probes
  <2> QED
    BY <1>1, <1>2, <2>1 DEF RunTypeOK, StageInv
<1>7. CASE StopRun
  <2>1. /\ phase = "stop" /\ phase' = "record"
        /\ UNCHANGED <<thrown, benchmark, stage, warmups, members, positives,
                       results>>
    BY <1>7 DEF StopRun, GoTo, runVars
  <2> QED
    BY <1>1, <1>2, <2>1 DEF RunTypeOK, StageInv
<1>8. CASE RecordRun
  <2>1. /\ phase = "record" /\ phase' = "hot" /\ results' = results + 1
        /\ UNCHANGED <<thrown, benchmark, stage, warmups, members, positives>>
    BY <1>8 DEF RecordRun, GoTo
  <2>2. results' \in 0 .. config.hot_runs
    BY <1>1, <1>2, <2>1 DEF StageInv
  <2> QED
    BY <1>1, <1>2, <2>1, <2>2 DEF RunTypeOK, StageInv
<1>9. CASE EndStage
  <2>1. /\ phase = "hot" /\ warmups' = 0 /\ results' = 0
        /\ UNCHANGED <<thrown, benchmark, members, positives>>
        /\ \/ stage = "build" /\ phase' = "warmup" /\ stage' = "insert"
           \/ stage = "insert" /\ phase' = "refill" /\ stage' = "refill"
           \/ stage = "hit" /\ phase' = "warmup" /\ stage' = "miss"
           \/ stage = "miss" /\ phase' = "warmup" /\ stage' = "mixed"
           \/ stage = "mixed" /\ phase' = "next" /\ stage' = "build"
    <3>1. stage \in {"build", "insert", "hit", "miss", "mixed"} /\ phase = "hot"
      BY <1>1, <1>9 DEF EndStage, RunTypeOK, StageInv, Probes
    <3> QED
      BY <1>9, <3>1 DEF EndStage, GoTo, Enter
  <2> QED
    BY <1>1, <1>2, <2>1 DEF RunTypeOK, StageInv, Probes
<1>10. CASE Refill
  <2>1. /\ phase = "refill" /\ phase' = "count"
        /\ members' = ToSet(to_insert) /\ members' \subseteq positives'
        /\ UNCHANGED <<thrown, benchmark, stage, warmups, results>>
    BY <1>10 DEF Refill, GoTo
  <2> QED
    BY <1>1, <1>2, <2>1 DEF RunTypeOK, StageInv, Probes
<1>11. CASE CountFalsePositives
  <2>1. /\ phase = "count" /\ phase' = "warmup" /\ stage' = "hit"
        /\ warmups' = 0 /\ results' = 0
        /\ UNCHANGED <<thrown, benchmark, members, positives>>
    BY <1>11 DEF CountFalsePositives, GoTo, Enter
  <2> QED
    BY <1>1, <1>2, <2>1 DEF RunTypeOK, StageInv, Probes
<1>12. CASE NextBenchmark
  <2>1. /\ phase = "next" /\ phase' \in {"warmup", "report"}
        /\ benchmark' \in 1 .. Len(Benchmarks)
        /\ UNCHANGED <<thrown, stage, warmups, members, results>>
    BY <1>1, <1>2, <1>12 DEF NextBenchmark, GoTo, RunTypeOK
  <2> QED
    BY <1>1, <1>2, <2>1 DEF RunTypeOK, StageInv, Probes
<1>13. CASE Report
  <2>1. /\ phase = "report"
        /\ \/ phase' = "done" /\ thrown' = thrown
           \/ phase' = "exited" /\ thrown' # "none"
        /\ UNCHANGED <<benchmark, stage, warmups, members, positives, results>>
    BY <1>13 DEF Report, GoTo, Throw, runVars
  <2> QED
    BY <1>1, <1>2, <2>1 DEF RunTypeOK, StageInv
<1> QED
  BY <1>3, <1>4, <1>5, <1>6, <1>7, <1>8, <1>9, <1>10, <1>11, <1>12, <1>13
     DEF Running

LEMMA StageStep ==
  ASSUME IndInv, [Next]_vars
  PROVE  RunTypeOK' /\ StageInv'
<1>1. TypeOK /\ RunTypeOK /\ ArgsTypeOK /\ ConfigInv /\ StageInv
  BY TypeParts DEF IndInv
<1>2. CASE Parse
  <2>1. /\ UNCHANGED runVars /\ UNCHANGED to_insert /\ phase = "args"
        /\ phase' \in {"args", "parsed", "done", "exited"} /\ ArgsTypeOK'
        /\ (phase' = "exited") = (thrown' # "none")
    BY <1>1, <1>2, ParseFrame, ParseConfig DEF setVars
  <2>2. /\ warmups' \in 0 .. config.warmup_runs' /\ results' \in 0 .. config.hot_runs'
        /\ stage' = "build" /\ warmups' = 0 /\ results' = 0
    BY <1>1, <2>1, Constants DEF StageInv, runVars, ArgsTypeOK, Sizes
  <2> QED
    BY <1>1, <2>1, <2>2 DEF RunTypeOK, StageInv, runVars, Probes
<1>3. CASE Preparing
  BY <1>3, StageOfPreparing
<1>4. CASE Running
  BY <1>4, StageOfRunning
<1>5. CASE UNCHANGED vars
  BY <1>1, <1>5 DEF vars, argVars, setVars, runVars, RunTypeOK, StageInv
<1> QED
  BY <1>2, <1>3, <1>4, <1>5, StepCases

-----------------------------------------------------------------------------
(* The counters                                                            *)

LEMMA CounterTypes ==
  /\ Perf!ReadFormat = [value : Perf!Count, time_enabled : Perf!Count,
                        time_running : Perf!Count]
  /\ Perf!Count = 0 .. 2^CounterBits - 1
  /\ 0 \in Perf!Count
  /\ \A a, b \in Perf!Count : Perf!plus(a, b) \in Perf!Count
<1>1. Perf!Count = 0 .. 2^CounterBits - 1 /\ 2^CounterBits \in Nat /\ 2^CounterBits > 1
  BY Constants DEF Perf!Count
<1>2. 0 \in Perf!Count
  BY <1>1
<1>3. ASSUME NEW a \in Perf!Count, NEW b \in Perf!Count
      PROVE  Perf!plus(a, b) \in Perf!Count
  BY <1>1 DEF Perf!plus
<1> QED
  BY <1>1, <1>2, <1>3 DEF Perf!ReadFormat

\* A count that has advanced by n is n more than before, whether or not it has
\* wrapped in the meantime.
LEMMA AdvancedBy ==
  ASSUME NEW a \in Perf!Count, NEW n \in Perf!Count
  PROVE  Perf!minus(Perf!plus(a, n), a) = n
<1> DEFINE m == 2^CounterBits
<1>1. m \in Nat /\ m > 1 /\ a \in 0 .. m - 1 /\ n \in 0 .. m - 1
  BY CounterTypes, Constants
<1> HIDE DEF m
<1>2. (((a + n) % m) - a) % m = n
  <2> SUFFICES ASSUME NEW sum, sum = (a + n) % m PROVE (sum - a) % m = n
    OBVIOUS
  <2>1. CASE a + n < m
    <3>1. sum = a + n
      BY <1>1, <2>1
    <3>2. sum - a = n /\ n % m = n
      BY <1>1, <3>1
    <3> QED
      BY <3>2
  <2>2. CASE a + n >= m
    <3>1. sum = a + n - m
      BY <1>1, <2>2
    <3>2. sum - a = n - m /\ (n - m) % m = n
      BY <1>1, <3>1
    <3> QED
      BY <3>2
  <2> QED
    BY <1>1, <2>1, <2>2
<1> QED
  BY <1>2 DEF m, Perf!minus, Perf!plus

\* The cost of a section fits in a counter.
LEMMA WorkFits ==
  ASSUME TypeOK, ConfigInv, StageInv, SetsInv,
         phase \in {"measure", "stop", "record"}
  PROVE  /\ work \in Nat /\ work >= 1 /\ work \in Perf!Count
         /\ work = IF stage = "build" THEN 1 ELSE tuples
<1>1. /\ config.rows \in Nat /\ config.rows >= 1 /\ 2 * config.rows <= max_size
      /\ Len(to_insert) = config.rows /\ Len(not_present) = config.rows
      /\ mixed = Queries!mix_vector(to_insert, not_present)
      /\ to_insert \in Seq(Sizes) /\ not_present \in Seq(Sizes)
      /\ IsInjective(to_insert) /\ IsInjective(not_present)
      /\ ToSet(to_insert) \cap ToSet(not_present) = {}
  BY SetTypes, TypeParts DEF SetsInv, ConfigInv, Benchmarking
<1>2. Len(mixed) = 2 * config.rows
  BY <1>1, MixedOnce
<1>3. stage \in {"build", "insert"} \cup Probes
  BY DEF TypeOK, StageInv
<1>4. work = 1 \/ work = config.rows \/ work = 2 * config.rows
  BY <1>1, <1>2, <1>3 DEF work, tuples, queries, Probes
<1>5. max_size \in Nat /\ max_size < 2^CounterBits /\ 1 < 2^CounterBits
      /\ 2^CounterBits \in Nat /\ Perf!Count = 0 .. 2^CounterBits - 1
  BY Constants, CounterTypes
<1>6. work \in Nat /\ work >= 1 /\ work < 2^CounterBits
  BY <1>1, <1>4, <1>5
<1> QED
  BY <1>5, <1>6 DEF work

\* The counters' types, and when they are open and enabled.
LEMMA CountersStep ==
  ASSUME IndInv, [Next]_vars
  PROVE  Perf!TypeOK' /\ CountersInv'
<1>1. /\ Perf!TypeOK /\ CountersInv /\ TypeOK /\ ConfigInv /\ StageInv /\ SetsInv
      /\ phase = "done" => thrown = "none"
  BY TypeParts DEF IndInv, RunTypeOK
<1>2. /\ events \in {{}, EventNames} /\ open \in {{}, EventNames}
      /\ cycle \in Perf!ReadFormat /\ prev \in Perf!ReadFormat
      /\ data \in Perf!ReadFormat
      /\ enabled \in BOOLEAN /\ duration \in Nat /\ reported \in BOOLEAN
      /\ errors \in 0 .. MaxReadErrors /\ MaxReadErrors \in Nat
  BY <1>1, BenchAssumption DEF Perf!TypeOK
\* Steps that leave the counters alone.
<1>3. ASSUME UNCHANGED perfVars,
             phase' # "done" => phase # "done",
             phase' \in {"to_insert", "not_present"} \/ Benchmarking' => events # {},
             phase' \notin {"measure", "stop"} \/ phase' = phase
      PROVE  Perf!TypeOK' /\ CountersInv'
  BY <1>1, <1>3 DEF perfVars, Perf!TypeOK, CountersInv
<1>4. CASE Parse
  BY <1>1, <1>3, <1>4, ParseFrame, ParseConfig DEF Benchmarking
<1>5. CASE OpenCounters
  <2>1. PICK opened \in SUBSET EventNames : Perf!PerfEvent(opened)
    BY <1>5 DEF OpenCounters
  <2>2. phase' = "counters"
    BY <1>5 DEF OpenCounters, GoTo
  <2> QED
    BY <1>2, <2>1, <2>2
       DEF Perf!PerfEvent, Perf!TypeOK, CountersInv, Benchmarking
<1>6. CASE NoCounters
  BY <1>3, <1>6 DEF NoCounters, Throw, Benchmarking
<1>7. CASE BeginToInsert
  BY <1>3, <1>7 DEF BeginToInsert, GoTo, Throw, Benchmarking
<1>8. CASE GenerateToInsert
  BY <1>1, <1>3, <1>8 DEF GenerateToInsert, argVars, CountersInv, Benchmarking
<1>9. CASE BeginNotPresent
  BY <1>1, <1>3, <1>9
     DEF BeginNotPresent, GoTo, Throw, CountersInv, Benchmarking
<1>10. CASE GenerateNotPresent
  BY <1>1, <1>3, <1>10
     DEF GenerateNotPresent, argVars, CountersInv, Benchmarking
<1>11. CASE Mix
  BY <1>1, <1>3, <1>11 DEF Mix, GoTo, CountersInv, Benchmarking
<1>12. CASE WarmUp
  BY <1>1, <1>3, <1>12 DEF WarmUp, argVars, CountersInv, Benchmarking
<1>13. CASE EndWarmUp
  BY <1>1, <1>3, <1>13 DEF EndWarmUp, GoTo, Throw, CountersInv, Benchmarking
<1>14. CASE StartRun
  <2>1. PICK read_ok \in BOOLEAN : Perf!startCounters(read_ok)
    BY <1>14 DEF StartRun
  <2>2. /\ phase = "hot" /\ phase' = "measure"
        /\ UNCHANGED <<events, open>> /\ enabled' = TRUE
    BY <1>14, <2>1 DEF StartRun, GoTo, Perf!startCounters
  <2>3. cycle' \in Perf!ReadFormat /\ prev' \in Perf!ReadFormat
    BY <1>2, <2>1, CounterTypes DEF Perf!startCounters
  <2>4. /\ data' = data /\ duration' = 0 /\ reported' \in BOOLEAN
        /\ errors' \in 0 .. MaxReadErrors
    BY <1>2, <2>1 DEF Perf!startCounters, Perf!Read
  <2> QED
    BY <1>1, <1>2, <2>2, <2>3, <2>4 DEF Perf!TypeOK, CountersInv, Benchmarking
<1>15. CASE Measure
  <2>1. PICK r \in 0 .. work : Perf!Elapse(work, r)
    BY <1>15 DEF Measure
  <2>2. /\ phase = "measure" /\ phase' = "stop" /\ enabled
        /\ UNCHANGED <<events, open, enabled, prev, data, reported, errors>>
    BY <1>1, <1>15, <2>1 DEF Measure, GoTo, Perf!Elapse, CountersInv
  <2>3. work \in Nat /\ work \in Perf!Count /\ r \in Perf!Count
    <3>1. work \in Nat /\ work \in Perf!Count
      BY <1>1, <2>2, WorkFits
    <3> QED
      BY <3>1, CounterTypes, Constants
  <2>4. cycle' \in Perf!ReadFormat
    <3>1. /\ cycle.value \in Perf!Count /\ cycle.time_enabled \in Perf!Count
          /\ cycle.time_running \in Perf!Count
      BY <1>2, CounterTypes
    <3>2. cycle' = [value        |-> Perf!plus(cycle.value, r),
                    time_enabled |-> Perf!plus(cycle.time_enabled, work),
                    time_running |-> Perf!plus(cycle.time_running, r)]
      BY <2>1, <2>2 DEF Perf!Elapse
    <3>3. /\ Perf!plus(cycle.value, r) \in Perf!Count
          /\ Perf!plus(cycle.time_enabled, work) \in Perf!Count
          /\ Perf!plus(cycle.time_running, r) \in Perf!Count
      BY <2>3, <3>1, CounterTypes
    <3> QED
      BY <3>2, <3>3, CounterTypes
  <2>5. duration' \in Nat
    BY <1>2, <2>1, <2>2, <2>3 DEF Perf!Elapse
  <2> QED
    BY <1>1, <1>2, <2>2, <2>4, <2>5 DEF Perf!TypeOK, CountersInv, Benchmarking
<1>16. CASE StopRun
  <2>1. PICK read_ok \in BOOLEAN : Perf!stopCounters(read_ok)
    BY <1>16 DEF StopRun
  <2>2. /\ phase = "stop" /\ phase' = "record"
        /\ UNCHANGED <<events, open, cycle, prev, duration>>
        /\ enabled' = FALSE /\ data' \in Perf!ReadFormat
        /\ reported' \in BOOLEAN /\ errors' \in 0 .. MaxReadErrors
    BY <1>2, <1>16, <2>1 DEF StopRun, GoTo, Perf!stopCounters, Perf!Read
  <2> QED
    BY <1>1, <1>2, <2>2 DEF Perf!TypeOK, CountersInv, Benchmarking
<1>17. CASE RecordRun
  BY <1>1, <1>3, <1>17 DEF RecordRun, GoTo, CountersInv, Benchmarking
<1>18. CASE EndStage
  <2>1. phase' \in {"warmup", "refill", "next"} /\ phase = "hot"
    <3>1. stage \in {"build", "insert", "hit", "miss", "mixed"} /\ phase = "hot"
      BY <1>1, <1>18 DEF EndStage, TypeOK, StageInv, Probes
    <3> QED
      BY <1>18, <3>1 DEF EndStage, GoTo
  <2> QED
    BY <1>1, <1>3, <1>18, <2>1 DEF EndStage, CountersInv, Benchmarking
<1>19. CASE Refill
  BY <1>1, <1>3, <1>19 DEF Refill, GoTo, CountersInv, Benchmarking
<1>20. CASE CountFalsePositives
  BY <1>1, <1>3, <1>20 DEF CountFalsePositives, GoTo, CountersInv, Benchmarking
<1>21. CASE NextBenchmark
  BY <1>1, <1>3, <1>21 DEF NextBenchmark, GoTo, CountersInv, Benchmarking
<1>22. CASE Report
  <2>1. CASE GoTo("done") /\ Perf!Close
    BY <1>2, <2>1 DEF GoTo, Perf!Close, Perf!TypeOK, CountersInv, Benchmarking
  <2>2. CASE Throw("Could not open output file") /\ UNCHANGED perfVars
    BY <1>3, <1>22, <2>2 DEF Report, Throw, Benchmarking
  <2> QED
    BY <1>22, <2>1, <2>2 DEF Report
<1>23. CASE UNCHANGED vars
  BY <1>1, <1>23
     DEF vars, argVars, perfVars, Perf!TypeOK, CountersInv, Benchmarking
<1> QED
  BY <1>4, <1>5, <1>6, <1>7, <1>8, <1>9, <1>10, <1>11, <1>12, <1>13, <1>14,
     <1>15, <1>16, <1>17, <1>18, <1>19, <1>20, <1>21, <1>22, <1>23, StepCases
     DEF Preparing, Running

-----------------------------------------------------------------------------
(* The figures of a run                                                    *)

LEMMA SameWork ==
  ASSUME UNCHANGED <<stage, setVars>>
  PROVE  work' = work
  BY DEF setVars, work, tuples, queries

\* The section of a run is counted from the record that startCounters read.
LEMMA SectionCounted ==
  ASSUME IndInv, Measure, ~reported
  PROVE  Counted(cycle)'
<1>1. PICK r \in 0 .. work : Perf!Elapse(work, r) /\ scheduled' = (r > 0)
  BY DEF Measure
<1>2. /\ phase = "measure" /\ enabled /\ prev = cycle /\ prev' = prev
      /\ cycle.value \in Perf!Count /\ cycle.time_enabled \in Perf!Count
      /\ cycle.time_running \in Perf!Count
  <2>1. phase = "measure"
    BY DEF Measure
  <2>2. enabled /\ prev = cycle /\ cycle \in Perf!ReadFormat
    BY <2>1, TypeParts DEF IndInv, CountersInv, MeasureInv, Perf!TypeOK
  <2> QED
    BY <1>1, <2>1, <2>2, CounterTypes DEF Perf!Elapse
<1>3. work \in Perf!Count /\ r \in Perf!Count /\ work' = work
  <2>1. work \in Nat /\ work \in Perf!Count
    BY <1>2, WorkFits DEF IndInv
  <2>2. r \in Perf!Count
    BY <2>1, CounterTypes, Constants
  <2> QED
    BY <2>1, <2>2, SameWork DEF Measure
<1>4. cycle' = [value        |-> Perf!plus(cycle.value, r),
                time_enabled |-> Perf!plus(cycle.time_enabled, work),
                time_running |-> Perf!plus(cycle.time_running, r)]
  BY <1>1, <1>2 DEF Perf!Elapse
<1>5. /\ cycle'.value = Perf!plus(cycle.value, r)
      /\ cycle'.time_enabled = Perf!plus(cycle.time_enabled, work)
      /\ cycle'.time_running = Perf!plus(cycle.time_running, r)
      /\ prev'.value = cycle.value /\ prev'.time_enabled = cycle.time_enabled
      /\ prev'.time_running = cycle.time_running
  BY <1>2, <1>4
<1>6. /\ Perf!minus(cycle'.value, prev'.value) = r
      /\ Perf!minus(cycle'.time_enabled, prev'.time_enabled) = work
      /\ Perf!minus(cycle'.time_running, prev'.time_running) = r
  BY <1>2, <1>3, <1>5, AdvancedBy
<1> QED
  BY <1>1, <1>3, <1>6 DEF Counted

LEMMA MeasureStep ==
  ASSUME IndInv, [Next]_vars
  PROVE  MeasureInv'
<1>1. TypeOK /\ StageInv /\ MeasureInv
  BY DEF IndInv
<1>2. CASE StartRun
  <2>1. PICK read_ok \in BOOLEAN : Perf!startCounters(read_ok)
    BY <1>2 DEF StartRun
  <2>2. phase' = "measure"
    BY <1>2 DEF StartRun, GoTo
  <2>3. cycle \in Perf!ReadFormat
    BY <1>1, TypeParts DEF Perf!TypeOK
  <2>4. duration' = 0 /\ cycle'.value = 0
    BY <2>1, <2>3 DEF Perf!startCounters, Perf!ReadFormat
  <2>5. ~reported' => prev' = cycle'
    BY <2>1 DEF Perf!startCounters
  <2> QED
    BY <2>2, <2>4, <2>5 DEF MeasureInv
<1>3. CASE Measure
  <2>1. /\ phase = "measure" /\ phase' = "stop" /\ UNCHANGED reported
        /\ duration' = duration + work
    <3>1. phase = "measure" /\ phase' = "stop"
      BY <1>3 DEF Measure, GoTo
    <3>2. enabled
      BY <3>1 DEF IndInv, CountersInv
    <3> QED
      BY <1>3, <3>1, <3>2 DEF Measure, Perf!Elapse
  <2>2. duration = 0 /\ work \in Nat /\ work' = work
    BY <1>1, <1>3, <2>1, WorkFits, SameWork DEF IndInv, MeasureInv, Measure
  <2>3. ~reported' => Counted(cycle)'
    BY <1>3, <2>1, SectionCounted
  <2>4. duration' = work'
    BY <2>1, <2>2
  <2> QED
    BY <2>1, <2>3, <2>4 DEF MeasureInv
<1>4. CASE StopRun
  <2>1. PICK read_ok \in BOOLEAN : Perf!stopCounters(read_ok)
    BY <1>4 DEF StopRun
  <2>2. /\ phase = "stop" /\ phase' = "record" /\ work' = work
        /\ UNCHANGED <<duration, prev, scheduled>>
    BY <1>4, <2>1, SameWork DEF StopRun, GoTo, runVars, Perf!stopCounters
  <2>3. duration' = work'
    BY <1>1, <2>2 DEF MeasureInv
  <2>4. ASSUME ~reported' PROVE Counted(data)'
    <3>1. data' = cycle /\ ~reported
      BY <2>1, <2>4 DEF Perf!stopCounters
    <3>2. Counted(cycle)
      BY <1>1, <2>2, <3>1 DEF MeasureInv
    <3> QED
      BY <2>2, <3>1, <3>2 DEF Counted
  <2> QED
    BY <2>2, <2>3, <2>4 DEF MeasureInv
<1>5. ASSUME phase' \notin {"measure", "stop", "record"}
      PROVE  MeasureInv'
  BY <1>5 DEF MeasureInv
<1>6. CASE Parse
  BY <1>1, <1>5, <1>6, ParseConfig DEF IndInv
<1>7. CASE Preparing
  <2>1. phase' \in {"counters", "to_insert", "not_present", "warmup", "exited"}
    BY <1>7
       DEF Preparing, OpenCounters, NoCounters, BeginToInsert, GenerateToInsert,
           BeginNotPresent, GenerateNotPresent, Mix, GoTo, Throw, argVars
  <2> QED
    BY <1>5, <2>1
<1>8. CASE WarmUp \/ EndWarmUp \/ RecordRun \/ Refill \/ CountFalsePositives
           \/ NextBenchmark \/ Report
  <2>1. phase' \in {"warmup", "hot", "count", "report", "done", "exited"}
    BY <1>8
       DEF WarmUp, EndWarmUp, RecordRun, Refill, CountFalsePositives,
           NextBenchmark, Report, GoTo, Throw, argVars
  <2> QED
    BY <1>5, <2>1
<1>9. CASE EndStage
  <2>1. stage \in {"build", "insert", "hit", "miss", "mixed"}
    BY <1>1, <1>9 DEF EndStage, TypeOK, StageInv, Probes
  <2>2. phase' \in {"warmup", "refill", "next"}
    BY <1>9, <2>1 DEF EndStage, GoTo
  <2> QED
    BY <1>5, <2>2
<1>10. CASE UNCHANGED vars
  <2>1. UNCHANGED <<phase, perfVars, setVars, runVars>>
    BY <1>10 DEF vars, argVars
  <2>2. work' = work
    BY <2>1, SameWork DEF runVars
  <2> QED
    BY <1>1, <2>1, <2>2 DEF perfVars, runVars, MeasureInv, Counted
<1> QED
  BY <1>2, <1>3, <1>4, <1>6, <1>7, <1>8, <1>9, <1>10, StepCases DEF Running

-----------------------------------------------------------------------------
(* The invariant of the program                                            *)

LEMMA Initially ==
  ASSUME Init
  PROVE  IndInv
<1>1. /\ args_left \in 0 .. MaxArgs /\ phase = "args" /\ thrown = "none"
      /\ config = [rows             |-> default_rows,
                   negative_queries |-> default_rows,
                   hot_runs         |-> default_hot_runs,
                   warmup_runs      |-> default_warmup_runs,
                   csv_path         |-> FALSE]
  BY DEF Init, ArgsInit
<1>2. /\ used = {} /\ value = 0
      /\ to_insert = <<>> /\ not_present = <<>> /\ mixed = <<>>
  BY DEF Init, Queries!Init
<1>3. /\ benchmark = 1 /\ stage = "build" /\ warmups = 0
      /\ members = {} /\ positives = {} /\ results = 0
  BY DEF Init
<1>4. ArgsTypeOK /\ ConfigInv
  BY <1>1, Constants DEF ArgsTypeOK, ConfigInv
<1>5. /\ config.rows \in Nat /\ config.hot_runs \in Nat
      /\ config.warmup_runs \in Nat
  BY <1>1, Constants DEF Sizes
<1>6. Perf!TypeOK /\ CountersInv
  <2>1. [value |-> 0, time_enabled |-> 0, time_running |-> 0] \in Perf!ReadFormat
    BY CounterTypes
  <2>2. 0 \in 0 .. MaxReadErrors
    BY BenchAssumption
  <2> QED
    BY <1>1, <2>1, <2>2
       DEF Init, Perf!Init, Perf!TypeOK, CountersInv, Benchmarking
<1>7. Queries!TypeOK
  BY <1>2, HashesAreSizes, Constants DEF Queries!TypeOK
<1>8. RunTypeOK /\ StageInv
  BY <1>1, <1>3, <1>5, Constants DEF RunTypeOK, StageInv, Probes
<1>9. SetsInv
  BY <1>1, <1>2, <1>5 DEF SetsInv, IsInjective, ToSet, Benchmarking
<1>10. MeasureInv
  BY <1>1 DEF MeasureInv
<1> QED
  BY <1>4, <1>6, <1>7, <1>8, <1>9, <1>10, TypeParts DEF IndInv

LEMMA Invariance == Spec => []IndInv
<1>1. Init => IndInv
  BY Initially
<1>2. IndInv /\ [Next]_vars => IndInv'
  <2> SUFFICES ASSUME IndInv, [Next]_vars PROVE IndInv'
    OBVIOUS
  <2>1. ArgsTypeOK' /\ Perf!TypeOK' /\ Queries!TypeOK' /\ RunTypeOK'
    BY ConfigStep, CountersStep, SetsStep, StageStep
  <2>2. TypeOK'
    BY <2>1 DEF TypeOK, RunTypeOK
  <2> QED
    BY <2>2, ConfigStep, CountersStep, SetsStep, StageStep, MeasureStep
       DEF IndInv
<1> QED
  BY <1>1, <1>2, PTL DEF Spec

\* Every variable keeps its type: whatever the command line, runs are counted
\* up to the number asked for, and a probe finds its filter filled.
THEOREM TypeCorrect == Spec => []TypeOK
  BY Invariance, PTL DEF IndInv

\* "guarantees that we have no duplicates within a generated set and no
\* duplicates between different generated sets" (HelperFuncs.h:86-87), for
\* every mixing function, seed and number of rows; and the mix holds each once.
THEOREM SetsDisjoint == Spec => []QuerySetsDisjoint
<1>1. IndInv => QuerySetsDisjoint
  <2> SUFFICES ASSUME IndInv PROVE QuerySetsDisjoint
    OBVIOUS
  <2>1. /\ IsInjective(to_insert) /\ IsInjective(not_present)
        /\ ToSet(to_insert) \cap ToSet(not_present) = {}
        /\ to_insert \in Seq(Sizes) /\ not_present \in Seq(Sizes)
    BY TypeParts, SetTypes DEF IndInv, SetsInv
  <2>2. ASSUME Benchmarking
        PROVE  /\ Len(to_insert) = Len(not_present)
               /\ mixed = Queries!mix_vector(to_insert, not_present)
    BY <2>2 DEF IndInv, SetsInv
  <2>3. ASSUME Benchmarking
        PROVE  /\ \A k \in 1 .. Len(mixed) :
                    mixed[k] \in ToSet(IF k % 2 = 1 THEN to_insert ELSE not_present)
               /\ IsInjective(mixed)
               /\ ToSet(mixed) = ToSet(to_insert) \cup ToSet(not_present)
    BY <2>1, <2>2, <2>3, MixedOnce
  <2> QED
    BY <2>1, <2>3 DEF QuerySetsDisjoint
<1> QED
  BY <1>1, Invariance, PTL

\* A set of numbers that is not empty has a least one.
LEMMA Least ==
  ASSUME NEW S \in SUBSET Nat, S # {}
  PROVE  Min(S) \in S /\ \A n \in S : Min(S) <= n
<1>1. \E m \in S : \A n \in S : ~ (<<n, m>> \in OpToRel(<, Nat))
  BY NatLessThanWellFounded, WFMin
<1>2. PICK m \in S : \A n \in S : ~ (<<n, m>> \in OpToRel(<, Nat))
  BY <1>1
<1>3. ASSUME NEW n \in S PROVE m <= n
  <2>1. n \in Nat /\ m \in Nat
    OBVIOUS
  <2>2. <<n, m>> \in Nat \X Nat /\ n < m => <<n, m>> \in OpToRel(<, Nat)
    BY DEF OpToRel
  <2>3. ~(n < m)
    BY <1>2, <2>1, <2>2
  <2> QED
    BY <2>1, <2>3
<1> QED
  BY <1>2, <1>3 DEF Min

\* The size given to the basic filter is a power of two that is not wrapped to
\* 0 (generate_bit divides by it).
LEMMA SizeIsNotZero ==
  ASSUME config.rows \in Nat, config.rows <= max_size
  PROVE  basic_num_bits # 0
<1> DEFINE product == (config.rows * bitsPerKey) % 2^HashBits
           desired == Max({min_num_bits, product})
           half    == 2^(HashBits - 1)
           powers  == {p \in {2^k : k \in 0 .. HashBits} : p >= desired}
<1>1. /\ HashBits \in Nat /\ HashBits >= 1
      /\ half \in Nat /\ half >= 1 /\ half < 2^HashBits /\ 2^HashBits \in Nat
  BY Constants, PowersGrow
<1>2. /\ bitsPerKey \in Nat /\ min_num_bits \in Nat /\ max_size \in Nat
      /\ max_size * bitsPerKey <= half /\ min_num_bits <= half
  BY BenchAssumption, WidthsAssumption
<1>3. config.rows * bitsPerKey \in Nat /\ config.rows * bitsPerKey <= half
  <2>1. config.rows * bitsPerKey <= max_size * bitsPerKey
    BY <1>2
  <2> QED
    BY <1>1, <1>2, <2>1
<1>4. product \in Nat /\ product <= half
  BY <1>1, <1>3
<1>5. desired \in {min_num_bits, product}
  <2>1. \E m \in {min_num_bits, product} :
          \A n \in {min_num_bits, product} : m >= n
    BY <1>2, <1>4
  <2> QED
    BY <2>1 DEF Max
<1>6. desired \in Nat /\ desired <= half
  BY <1>2, <1>4, <1>5
<1> HIDE DEF desired, product, half
<1>7. \A k \in 0 .. HashBits : 2^k \in Nat /\ 2^k >= 1
  BY PowerOfTwo
<1>8. /\ powers \in SUBSET Nat /\ half \in powers
      /\ \A p \in powers : p >= 1
  BY <1>1, <1>6, <1>7 DEF half
<1> HIDE DEF powers
<1>9. Min(powers) \in Nat /\ Min(powers) >= 1 /\ Min(powers) <= half
  BY <1>8, Least
<1>10. Min(powers) % 2^HashBits = Min(powers)
  BY <1>1, <1>9
<1> QED
  BY <1>9, <1>10 DEF basic_num_bits, powers, desired, product

\* Whatever the command line and the counters do, nothing is indexed out of
\* range or divided by zero, and a section is measured under the conditions it
\* is meant for.
THEOREM Prepared == Spec => []RunsPrepared
<1>1. IndInv => RunsPrepared
  <2> SUFFICES ASSUME IndInv PROVE RunsPrepared
    OBVIOUS
  <2>1. /\ TypeOK /\ ConfigInv /\ StageInv /\ SetsInv /\ CountersInv
        /\ ArgsTypeOK /\ Queries!TypeOK /\ Perf!TypeOK
    BY TypeParts DEF IndInv
  <2>2. /\ to_insert \in Seq(Sizes) /\ not_present \in Seq(Sizes)
        /\ config.rows \in Nat /\ config.negative_queries = config.rows
        /\ config.hot_runs \in Nat
    BY <2>1, SetTypes DEF ConfigInv
  <2>3. phase = "not_present" /\ Len(not_present) >= config.negative_queries =>
          Queries!CanMix(to_insert, not_present)
    BY <2>1, <2>2 DEF SetsInv, Queries!CanMix
  <2>4. ASSUME Benchmarking
        PROVE  to_insert # <<>> /\ not_present # <<>> /\ basic_num_bits # 0
    <3>1. /\ config.rows >= 1 /\ 2 * config.rows <= max_size
          /\ Len(to_insert) = config.rows /\ Len(not_present) = config.rows
      BY <2>1, <2>2, <2>4 DEF ConfigInv, SetsInv, Benchmarking
    <3>2. config.rows <= max_size
      BY <2>2, <3>1, Constants
    <3> QED
      BY <2>2, <3>1, <3>2, SizeIsNotZero
  <2>5. phase = "hot" /\ results >= config.hot_runs => results > 0
    BY <2>1, <2>2 DEF ConfigInv, TypeOK
  <2>6. phase = "measure" =>
          /\ events # {} /\ events \subseteq open /\ enabled
          /\ stage = "insert" => members = {}
          /\ stage \in Probes => members = ToSet(to_insert)
    BY <2>1 DEF CountersInv, StageInv, Benchmarking
  <2> QED
    BY <2>3, <2>4, <2>5, <2>6 DEF RunsPrepared
<1> QED
  BY <1>1, Invariance, PTL

\* What is recorded of a hot run is the cost of its own section, one unit for
\* each tuple, although the kernel's times are never reset, wrap, and run on
\* while the counter is not scheduled.
THEOREM FiguresExact == Spec => FiguresMeasureRuns
<1>1. ASSUME IndInv, phase = "record"
      PROVE  /\ ns_r.numerator = ns_r.denominator
             /\ ~reported /\ scheduled =>
                  /\ cycles_r.denominator > 0
                  /\ cycles_r.numerator = cycles_r.denominator
  <2>1. /\ work \in Nat /\ work >= 1
        /\ work = IF stage = "build" THEN 1 ELSE tuples
    BY <1>1, WorkFits DEF IndInv
  <2>2. duration = work /\ (~reported => Counted(data))
    BY <1>1 DEF IndInv, MeasureInv
  <2>3. ns_r = [numerator |-> duration, denominator |-> 1 * work]
    BY <2>1 DEF ns_r, per_tuple
  <2>4. ns_r.numerator = ns_r.denominator
    BY <2>1, <2>2, <2>3
  <2>5. ASSUME ~reported, scheduled
        PROVE  /\ cycles_r.denominator > 0
               /\ cycles_r.numerator = cycles_r.denominator
    <3>1. PICK r \in 0 .. work :
            /\ Perf!minus(data.value, prev.value) = r
            /\ Perf!minus(data.time_running, prev.time_running) = r
            /\ scheduled <=> r > 0
      BY <2>2, <2>5 DEF Counted
    <3>2. Perf!minus(data.time_enabled, prev.time_enabled) = work
      BY <2>2, <2>5 DEF Counted
    <3>3. cycles_r = [numerator |-> r * work, denominator |-> r * work]
      BY <2>1, <3>1, <3>2 DEF cycles_r, per_tuple, Perf!readCounter
    <3>4. r >= 1 /\ r \in Nat /\ r * work > 0
      BY <2>1, <2>5, <3>1
    <3> QED
      BY <3>3, <3>4
  <2> QED
    BY <2>4, <2>5
<1>2. IndInv =>
        [phase = "record" /\ phase' = "hot" =>
           /\ ns_r.numerator = ns_r.denominator
           /\ ~reported /\ scheduled =>
                /\ cycles_r.denominator > 0
                /\ cycles_r.numerator = cycles_r.denominator]_vars
  BY <1>1
<1> QED
  BY <1>2, Invariance, PTL DEF FiguresMeasureRuns

-----------------------------------------------------------------------------
(* The count over a packed reply, and the reply itself                     *)

\* The place of an element in a packed reply, and back.
LEMMA PackedPlace ==
  ASSUME NEW n \in Nat
  PROVE  /\ ByteBits \in Nat /\ ByteBits >= 1
         /\ n \div ByteBits \in Nat /\ n % ByteBits \in 0 .. ByteBits - 1
         /\ n = ByteBits * (n \div ByteBits) + (n % ByteBits)
         /\ result_bytes(n) \in Nat
  BY WidthAssumption DEF result_bytes

LEMMA PlaceOfBit ==
  ASSUME NEW b \in Nat, NEW k \in 0 .. ByteBits - 1
  PROVE  /\ ByteBits * b + k \in Nat
         /\ (ByteBits * b + k) \div ByteBits = b
         /\ (ByteBits * b + k) % ByteBits = k
<1> DEFINE w == ByteBits
           a == w * b + k
           d == a \div w
           r == a % w
<1>1. w \in Nat /\ w >= 1 /\ w * b \in Nat
  BY WidthAssumption
<1>2. a \in Nat
  BY <1>1
<1>3. d \in Nat /\ r \in 0 .. w - 1 /\ a = w * d + r
  BY <1>1, <1>2
<1> HIDE DEF d, r
<1>4. \A p, q \in Nat : p < q => w * p + w <= w * q
  <2> SUFFICES ASSUME NEW p \in Nat, NEW q \in Nat, p < q PROVE w * p + w <= w * q
    OBVIOUS
  <2>1. PICK e \in Nat : q = p + 1 + e
    <3>1. q - p - 1 \in Nat /\ q = p + 1 + (q - p - 1)
      OBVIOUS
    <3> QED
      BY <3>1
  <2>2. w * q = w * p + w + w * e /\ w * e \in Nat /\ w * p \in Nat
    BY <1>1, <2>1
  <2> QED
    BY <1>1, <2>2
<1> HIDE DEF w
<1>5. w * d \in Nat
  BY <1>1, <1>3
<1>6. ~(d < b) /\ ~(b < d)
  <2>1. d < b => w * d + w <= w * b
    BY <1>3, <1>4
  <2>2. b < d => w * b + w <= w * d
    BY <1>3, <1>4
  <2>3. a = w * b + k /\ k \in 0 .. w - 1
    BY DEF w
  <2> QED
    BY <1>1, <1>3, <1>5, <2>1, <2>2, <2>3
<1>7. d = b
  BY <1>3, <1>6
<1>8. r = k
  BY <1>1, <1>3, <1>5, <1>7 DEF w
<1> QED
  BY <1>2, <1>7, <1>8 DEF w, d, r

\* The bytes of a reply to n queries are those of its elements.
LEMMA BytesOfElements ==
  ASSUME NEW n \in Nat, NEW j \in 0 .. n - 1
  PROVE  j \div ByteBits \in 0 .. result_bytes(n) - 1
<1> DEFINE w == ByteBits
           b == j \div w
           m == result_bytes(n)
<1>1. /\ w \in Nat /\ w >= 1 /\ j \in Nat
      /\ b \in Nat /\ j % w \in 0 .. w - 1 /\ j = w * b + (j % w)
  BY PackedPlace
<1>2. /\ m \in Nat /\ (n + w - 1) % w \in 0 .. w - 1
      /\ n + w - 1 = w * m + ((n + w - 1) % w)
  BY <1>1 DEF result_bytes
<1> HIDE DEF w, b, m
<1>3. w * b \in Nat /\ w * m \in Nat
  BY <1>1, <1>2
<1>4. w * b < w * m
  BY <1>1, <1>2, <1>3
<1>5. b < m
  <2>1. m <= b => w * m <= w * b
    <3> SUFFICES ASSUME m <= b PROVE w * m <= w * b
      OBVIOUS
    <3>1. b - m \in Nat /\ b = m + (b - m)
      BY <1>1, <1>2
    <3> DEFINE e == b - m
    <3>2. e \in Nat /\ b = m + e
      BY <3>1
    <3> HIDE DEF e
    <3>3. w * b = w * m + w * e /\ w * e \in Nat
      BY <1>1, <1>2, <3>2
    <3> QED
      BY <1>3, <3>3
  <2> QED
    BY <1>1, <1>2, <1>3, <1>4, <2>1
<1> QED
  BY <1>1, <1>2, <1>5 DEF w, b, m

\* The elements of q that are accepted and answered in one of the bytes in T.
AcceptedIn(q, T) ==
  {j \in 0 .. Len(q) - 1 : j \div ByteBits \in T /\ q[j + 1] \in positives}

LEMMA AcceptedParts ==
  ASSUME NEW q \in Seq(Sizes), NEW S, NEW T, S \cap T = {}
  PROVE  /\ IsFiniteSet(AcceptedIn(q, S)) /\ Cardinality(AcceptedIn(q, S)) \in Nat
         /\ Cardinality(AcceptedIn(q, S \cup T))
              = Cardinality(AcceptedIn(q, S)) + Cardinality(AcceptedIn(q, T))
<1>1. Len(q) \in Nat /\ IsFiniteSet(0 .. Len(q) - 1)
  BY FS_Interval
<1>2. ASSUME NEW R
      PROVE  IsFiniteSet(AcceptedIn(q, R)) /\ Cardinality(AcceptedIn(q, R)) \in Nat
  <2>1. AcceptedIn(q, R) \subseteq 0 .. Len(q) - 1
    BY DEF AcceptedIn
  <2> QED
    BY <1>1, <2>1, FS_Subset, FS_CardinalityType
<1>3. /\ AcceptedIn(q, S \cup T) = AcceptedIn(q, S) \cup AcceptedIn(q, T)
      /\ AcceptedIn(q, S) \cap AcceptedIn(q, T) = {}
  BY DEF AcceptedIn
<1> DEFINE A == AcceptedIn(q, S)
           B == AcceptedIn(q, T)
<1>4. IsFiniteSet(A) /\ IsFiniteSet(B) /\ A \cap B = {}
      /\ Cardinality(A) \in Nat /\ Cardinality(B) \in Nat
  BY <1>2, <1>3
<1> HIDE DEF A, B
<1>5. Cardinality(A \cup B) = Cardinality(A) + Cardinality(B) - Cardinality({})
  BY <1>4, FS_Union
<1>6. Cardinality({}) = 0
  BY FS_EmptySet
<1>7. Cardinality(A \cup B) = Cardinality(A) + Cardinality(B)
  BY <1>4, <1>5, <1>6
<1> QED
  BY <1>2, <1>3, <1>7, Zenon DEF A, B

\* A byte has a bit for each of its elements.
LEMMA AcceptedInByte ==
  ASSUME NEW q \in Seq(Sizes), NEW buffer, NEW b \in DOMAIN buffer, b \in Nat
  PROVE  Cardinality(containsBatch(buffer, q)[b]) = Cardinality(AcceptedIn(q, {b}))
<1> DEFINE bits == containsBatch(buffer, q)[b]
           A    == AcceptedIn(q, {b})
           f    == [j \in A |-> j % ByteBits]
<1>1. bits = {k \in 0 .. ByteBits - 1 :
                ByteBits * b + k < Len(q) /\ q[ByteBits * b + k + 1] \in positives}
  BY DEF containsBatch
<1>2. Len(q) \in Nat /\ ByteBits \in Nat /\ ByteBits * b \in Nat
  BY WidthAssumption
<1>3. ASSUME NEW j \in A
      PROVE  /\ j \in Nat /\ j = ByteBits * b + (j % ByteBits)
             /\ j % ByteBits \in bits
  <2>1. /\ j \in 0 .. Len(q) - 1 /\ j \div ByteBits = b /\ q[j + 1] \in positives
    BY DEF AcceptedIn
  <2>2. j \in Nat /\ j < Len(q)
    BY <1>2, <2>1
  <2>3. /\ j \in Nat /\ j % ByteBits \in 0 .. ByteBits - 1
        /\ j = ByteBits * b + (j % ByteBits)
    BY <2>1, <2>2, PackedPlace
  <2>4. ByteBits * b + (j % ByteBits) < Len(q)
        /\ q[ByteBits * b + (j % ByteBits) + 1] \in positives
    BY <2>1, <2>2, <2>3, Zenon
  <2> QED
    BY <1>1, <2>3, <2>4
<1>4. ASSUME NEW k \in bits PROVE \E j \in A : j % ByteBits = k
  <2>1. /\ k \in 0 .. ByteBits - 1 /\ ByteBits * b + k < Len(q)
        /\ q[ByteBits * b + k + 1] \in positives
    BY <1>1
  <2>2. /\ ByteBits * b + k \in Nat /\ (ByteBits * b + k) \div ByteBits = b
        /\ (ByteBits * b + k) % ByteBits = k
    BY <2>1, PlaceOfBit
  <2>3. ByteBits * b + k \in 0 .. Len(q) - 1
    BY <1>2, <2>1, <2>2
  <2>4. ByteBits * b + k \in A
    BY <2>1, <2>2, <2>3 DEF AcceptedIn
  <2> QED
    BY <2>2, <2>4
<1> HIDE DEF A, bits
<1>5. f \in [A -> bits]
  BY <1>3
<1>6. \A j, l \in A : f[j] = f[l] => j = l
  <2> SUFFICES ASSUME NEW j \in A, NEW l \in A, f[j] = f[l] PROVE j = l
    OBVIOUS
  <2>1. j % ByteBits = l % ByteBits
    OBVIOUS
  <2>2. /\ j = ByteBits * b + (j % ByteBits)
        /\ l = ByteBits * b + (l % ByteBits)
    BY <1>3
  <2> QED
    BY <2>1, <2>2, Zenon
<1>7. \A k \in bits : \E j \in A : f[j] = k
  BY <1>4
<1> HIDE DEF f
<1>8. f \in Bijection(A, bits)
  BY <1>5, <1>6, <1>7, Fun_IsBij
<1>9. IsFiniteSet(A)
  <2>1. {b} \cap {} = {}
    OBVIOUS
  <2> QED
    BY <2>1, AcceptedParts DEF A
<1>10. Cardinality(bits) = Cardinality(A)
  BY <1>8, <1>9, FS_Bijection, Fun_ExistsBij
<1> QED
  BY <1>10 DEF bits, A

\* A recursion over a finite set and one over its elements in any order agree
\* when they do on the empty set and in every step.
LEMMA FoldsAgree ==
  ASSUME NEW S, IsFiniteSet(S), NEW f, NEW g,
         f[{}] = g[{}],
         \A T \in SUBSET S : T # {} =>
           \E e \in T : f[T \ {e}] = g[T \ {e}] => f[T] = g[T]
  PROVE  f[S] = g[S]
<1> DEFINE Wrong   == {T \in SUBSET S : f[T] # g[T]}
           Lengths == {Cardinality(T) : T \in Wrong}
<1> SUFFICES ASSUME f[S] # g[S] PROVE FALSE
  OBVIOUS
<1>1. ASSUME NEW T \in SUBSET S PROVE IsFiniteSet(T) /\ Cardinality(T) \in Nat
  BY FS_Subset, FS_CardinalityType
<1>2. Lengths \in SUBSET Nat /\ Lengths # {}
  BY <1>1
<1>3. Min(Lengths) \in Lengths /\ \A k \in Lengths : Min(Lengths) <= k
  BY <1>2, Least
<1>4. PICK T \in Wrong : Cardinality(T) = Min(Lengths)
  BY <1>3
<1>5. T # {}
  OBVIOUS
<1>6. PICK e \in T : f[T \ {e}] = g[T \ {e}] => f[T] = g[T]
  BY <1>5
<1>7. T \ {e} \in Wrong
  BY <1>6
<1>8. Cardinality(T \ {e}) = Cardinality(T) - 1
  BY <1>1, FS_RemoveElement
<1>9. Cardinality(T \ {e}) \in Lengths /\ Min(Lengths) \in Nat
  BY <1>2, <1>3, <1>7
<1>10. Min(Lengths) <= Min(Lengths) - 1
  BY <1>3, <1>4, <1>8, <1>9, Zenon
<1> QED
  BY <1>9, <1>10

\* An instance's cardinality is the cardinality.
LEMMA SameCardinality ==
  ASSUME NEW S PROVE Queries!Cardinality(S) = Cardinality(S)
  BY DEF Queries!Cardinality, Cardinality

\* The first loop of count_packed_true, over the whole bytes.
WholeBytes(bytes, m) ==
  Queries!MapThenSumSet(LAMBDA b : Queries!Cardinality(bytes[b]), 0 .. m - 1)

LEMMA CountParts ==
  ASSUME NEW bytes, NEW n, NEW sum, sum = WholeBytes(bytes, n \div ByteBits)
  PROVE  Queries!count_packed_true(bytes, n)
           = sum + IF n % ByteBits = 0 THEN 0
                   ELSE Cardinality(bytes[n \div ByteBits] \cap (0 .. (n % ByteBits) - 1))
<1> DEFINE S == 0 .. (n \div ByteBits) - 1
           F == CHOOSE F : F = [T \in SUBSET S |->
                  IF T = {} THEN 0
                  ELSE Queries!Cardinality(bytes[CHOOSE b \in T : TRUE])
                         + F[T \ {CHOOSE b \in T : TRUE}]]
<1>1. sum = F[S]
  BY DEF WholeBytes, Queries!MapThenSumSet, Queries!MapThenFoldSet
<1>2. Queries!count_packed_true(bytes, n)
        = F[S] + IF n % ByteBits = 0 THEN 0
                 ELSE Queries!Cardinality(
                        bytes[n \div ByteBits] \cap (0 .. (n % ByteBits) - 1))
  BY DEF Queries!count_packed_true, Queries!MapThenSumSet, Queries!MapThenFoldSet
<1> HIDE DEF F
<1> QED
  BY <1>1, <1>2, SameCardinality

\* The sum over the whole bytes, in whatever order the bytes are taken.
LEMMA WholeBytesCounted ==
  ASSUME NEW q \in Seq(Sizes), NEW buffer, NEW m \in Nat,
         0 .. m - 1 \subseteq DOMAIN buffer,
         NEW bytes, bytes = containsBatch(buffer, q)
  PROVE  WholeBytes(bytes, m) = Cardinality(AcceptedIn(q, 0 .. m - 1))
<1> DEFINE S == 0 .. m - 1
           E == [T \in SUBSET S |-> Cardinality(AcceptedIn(q, T))]
           F == CHOOSE F : F = [T \in SUBSET S |->
                  IF T = {} THEN 0
                  ELSE Queries!Cardinality(bytes[CHOOSE b \in T : TRUE])
                         + F[T \ {CHOOSE b \in T : TRUE}]]
<1>1. WholeBytes(bytes, m) = F[S]
  BY DEF WholeBytes, Queries!MapThenSumSet, Queries!MapThenFoldSet
<1>2. IsFiniteSet(S)
  BY FS_Interval
<1>3. E[{}] = 0
  <2>1. AcceptedIn(q, {}) = {}
    BY DEF AcceptedIn
  <2> QED
    BY <2>1, FS_EmptySet
<1>4. ASSUME NEW T \in SUBSET S, NEW b \in T
      PROVE  E[T] = Cardinality(bytes[b]) + E[T \ {b}]
  <2>1. b \in Nat /\ b \in DOMAIN buffer
    OBVIOUS
  <2>2. Cardinality(bytes[b]) = Cardinality(AcceptedIn(q, {b}))
    BY <2>1, AcceptedInByte
  <2>3. {b} \cap (T \ {b}) = {} /\ T = {b} \cup (T \ {b}) /\ T \ {b} \in SUBSET S
    OBVIOUS
  <2>4. Cardinality(AcceptedIn(q, {b} \cup (T \ {b})))
          = Cardinality(AcceptedIn(q, {b})) + Cardinality(AcceptedIn(q, T \ {b}))
    BY <2>3, AcceptedParts
  <2>5. Cardinality(AcceptedIn(q, T))
          = Cardinality(bytes[b]) + Cardinality(AcceptedIn(q, T \ {b}))
    BY <2>2, <2>3, <2>4, Zenon
  <2> QED
    BY <2>3, <2>5
<1> HIDE DEF E, S
<1>5. E = [T \in SUBSET S |->
             IF T = {} THEN 0
             ELSE Queries!Cardinality(bytes[CHOOSE b \in T : TRUE])
                    + E[T \ {CHOOSE b \in T : TRUE}]]
  <2>1. E = [T \in SUBSET S |-> E[T]]
    BY DEF E
  <2>2. ASSUME NEW T \in SUBSET S, T # {}
        PROVE  E[T] = Queries!Cardinality(bytes[CHOOSE b \in T : TRUE])
                        + E[T \ {CHOOSE b \in T : TRUE}]
    <3>1. (CHOOSE b \in T : TRUE) \in T
      BY <2>2
    <3> QED
      BY <1>4, <3>1, SameCardinality
  <2> QED
    BY <1>3, <2>1, <2>2
<1>6. F = [T \in SUBSET S |->
             IF T = {} THEN 0
             ELSE Queries!Cardinality(bytes[CHOOSE b \in T : TRUE])
                    + F[T \ {CHOOSE b \in T : TRUE}]]
  BY <1>5
<1> HIDE DEF F
<1>7. F[S] = E[S]
  <2>1. F[{}] = E[{}]
    BY <1>3, <1>6
  <2>2. ASSUME NEW T \in SUBSET S, T # {}
        PROVE  \E b \in T : F[T \ {b}] = E[T \ {b}] => F[T] = E[T]
    <3> DEFINE b == CHOOSE b \in T : TRUE
    <3>1. b \in T
      BY <2>2
    <3>2. F[T] = Queries!Cardinality(bytes[b]) + F[T \ {b}]
      BY <1>6, <2>2
    <3>3. E[T] = Queries!Cardinality(bytes[b]) + E[T \ {b}]
      BY <1>5, <2>2
    <3> QED
      BY <3>1, <3>2, <3>3
  <2> QED
    BY <1>2, <2>1, <2>2, FoldsAgree
<1>8. E[S] = Cardinality(AcceptedIn(q, S))
  BY DEF E
<1> QED
  BY <1>1, <1>7, <1>8 DEF S

\* count_packed_true counts the elements that are accepted: those of the whole
\* bytes, and those of the tail if there is one.
LEMMA PackedCount ==
  ASSUME NEW q \in Seq(Sizes), NEW n, n = Len(q),
         NEW buffer, DOMAIN buffer = 0 .. result_bytes(n) - 1,
         NEW bytes, bytes = containsBatch(buffer, q)
  PROVE  Queries!count_packed_true(bytes, n)
           = Cardinality({j \in 0 .. n - 1 : q[j + 1] \in positives})
<1> DEFINE w == ByteBits
           m == n \div w
           whole == 0 .. m - 1
           all   == {j \in 0 .. n - 1 : q[j + 1] \in positives}
           tail  == IF n % w = 0 THEN 0
                    ELSE Cardinality(bytes[m] \cap (0 .. (n % w) - 1))
<1>0. n \in Nat
  OBVIOUS
<1>1. /\ n \in Nat /\ w \in Nat /\ w >= 1 /\ m \in Nat /\ n % w \in 0 .. w - 1
      /\ n = w * m + (n % w) /\ w * m \in Nat
  <2>1. /\ w \in Nat /\ w >= 1 /\ m \in Nat /\ n % w \in 0 .. w - 1
        /\ n = w * m + (n % w)
    BY <1>0, PackedPlace
  <2>2. w * m \in Nat
    BY <2>1
  <2> QED
    BY <1>0, <2>1, <2>2
<1>3. \A j \in 0 .. n - 1 : j \in Nat /\ j \div w \in DOMAIN buffer
  <2> SUFFICES ASSUME NEW j \in 0 .. n - 1 PROVE j \in Nat /\ j \div w \in DOMAIN buffer
    OBVIOUS
  <2>1. j \in Nat
    BY <1>0
  <2>2. j \div w \in 0 .. result_bytes(n) - 1
    BY <1>0, BytesOfElements
  <2> QED
    BY <2>1, <2>2
<1>4. ASSUME NEW j \in 0 .. n - 1
      PROVE  j \div w \in whole \/ (n % w # 0 /\ j \div w = m)
  <2> DEFINE d == j \div w
             r == j % w
  <2>1. j \in Nat /\ j < n
    BY <1>1
  <2>2. d \in Nat /\ r \in 0 .. w - 1 /\ j = w * d + r
    BY <2>1, PackedPlace
  <2> HIDE DEF w, m, d, r
  <2>3. ASSUME m < d PROVE FALSE
    <3> DEFINE e == d - m - 1
    <3>1. e \in Nat /\ d = m + 1 + e
      BY <1>1, <2>2, <2>3
    <3> HIDE DEF e
    <3>2. w * d = w * m + w + w * e /\ w * e \in Nat /\ w * d \in Nat
      BY <1>1, <2>2, <3>1
    <3> QED
      BY <1>1, <2>1, <2>2, <3>2
  <2>4. d = m => n % w # 0
    BY <1>1, <2>1, <2>2
  <2> QED
    BY <1>1, <2>2, <2>3, <2>4 DEF d
<1>5. 0 .. m - 1 \subseteq DOMAIN buffer
  <2> SUFFICES ASSUME NEW b \in 0 .. m - 1 PROVE b \in DOMAIN buffer
    OBVIOUS
  <2>1. b \in Nat /\ 0 \in 0 .. w - 1
    BY <1>1
  <2>2. w * b + 0 \in Nat /\ (w * b + 0) \div w = b
    BY <2>1, PlaceOfBit
  <2>3. w * b + 0 < n
    <3> HIDE DEF w, m
    <3> DEFINE e == m - b - 1
    <3>1. e \in Nat /\ m = b + 1 + e
      BY <1>1, <2>1
    <3> HIDE DEF e
    <3>2. w * m = w * b + w + w * e /\ w * e \in Nat /\ w * b \in Nat
      BY <1>1, <2>1, <3>1
    <3> QED
      BY <1>1, <3>2
  <2>4. w * b + 0 \in 0 .. n - 1
    BY <1>1, <2>2, <2>3
  <2> QED
    BY <1>3, <2>2, <2>4
<1>6. WholeBytes(bytes, m) = Cardinality(AcceptedIn(q, whole))
  BY <1>1, <1>5, WholeBytesCounted
<1>2. Queries!count_packed_true(bytes, n) = Cardinality(AcceptedIn(q, whole)) + tail
  BY <1>6, CountParts
<1>7. CASE n % w = 0
  <2>1. AcceptedIn(q, whole) = all
    BY <1>4, <1>7 DEF AcceptedIn
  <2>2. {} \cap whole = {}
    OBVIOUS
  <2>3. Cardinality(AcceptedIn(q, whole)) \in Nat
    BY <2>2, AcceptedParts
  <2>4. tail = 0
    BY <1>7
  <2> HIDE DEF tail, whole, all
  <2>5. Cardinality(AcceptedIn(q, whole)) + tail = Cardinality(all)
    BY <2>1, <2>3, <2>4
  <2> QED
    BY <1>2, <2>5 DEF all
<1>8. CASE n % w # 0
  <2>1. m \in DOMAIN buffer
    <3>1. n - 1 \in 0 .. n - 1 /\ n - 1 = w * m + ((n % w) - 1)
          /\ (n % w) - 1 \in 0 .. w - 1
      BY <1>1, <1>8
    <3>2. (n - 1) \div w = m
      BY <1>1, <3>1, PlaceOfBit
    <3> QED
      BY <1>3, <3>1, <3>2
  <2>2. bytes[m] \cap (0 .. (n % w) - 1) = bytes[m]
    <3> SUFFICES ASSUME NEW k \in bytes[m] PROVE k \in 0 .. (n % w) - 1
      OBVIOUS
    <3>1. k \in 0 .. w - 1 /\ w * m + k < n
      BY <2>1 DEF containsBatch
    <3> QED
      BY <1>1, <3>1
  <2>3. tail = Cardinality(AcceptedIn(q, {m}))
    <3>1. Cardinality(bytes[m]) = Cardinality(AcceptedIn(q, {m}))
      BY <1>1, <2>1, AcceptedInByte
    <3> QED
      BY <1>8, <2>2, <3>1
  <2>4. whole \cap {m} = {}
    BY <1>1
  <2>5. AcceptedIn(q, whole \cup {m}) = all
    BY <1>4 DEF AcceptedIn
  <2>6. Cardinality(AcceptedIn(q, whole \cup {m}))
          = Cardinality(AcceptedIn(q, whole)) + Cardinality(AcceptedIn(q, {m}))
    BY <2>4, AcceptedParts
  <2> HIDE DEF tail, whole, all, m
  <2>7. Cardinality(AcceptedIn(q, whole)) + tail = Cardinality(all)
    BY <2>3, <2>5, <2>6
  <2> QED
    BY <1>2, <2>7 DEF all
<1> QED
  BY <1>7, <1>8

\* Elements of a sequence without duplicates are counted once.
LEMMA CountedOnce ==
  ASSUME NEW q \in Seq(Sizes), IsInjective(q)
  PROVE  Cardinality({j \in 0 .. Len(q) - 1 : q[j + 1] \in positives})
           = Cardinality(positives \cap ToSet(q))
<1> DEFINE A == {j \in 0 .. Len(q) - 1 : q[j + 1] \in positives}
           B == positives \cap ToSet(q)
           f == [j \in A |-> q[j + 1]]
<1>1. Len(q) \in Nat /\ DOMAIN q = 1 .. Len(q) /\ ToSet(q) = {q[k] : k \in 1 .. Len(q)}
  BY DEF ToSet
<1>2. \A j \in A : j + 1 \in 1 .. Len(q) /\ j \in Int
  BY <1>1
<1>3. f \in [A -> B]
  BY <1>1, <1>2
<1>4. \A j, l \in A : f[j] = f[l] => j = l
  <2> SUFFICES ASSUME NEW j \in A, NEW l \in A, f[j] = f[l] PROVE j = l
    OBVIOUS
  <2>1. j + 1 = l + 1
    BY <1>1, <1>2 DEF IsInjective
  <2> QED
    BY <1>2, <2>1
<1>5. \A h \in B : \E j \in A : f[j] = h
  <2> SUFFICES ASSUME NEW h \in B PROVE \E j \in A : f[j] = h
    OBVIOUS
  <2>1. PICK k \in 1 .. Len(q) : q[k] = h
    BY <1>1
  <2>2. k - 1 \in 0 .. Len(q) - 1 /\ (k - 1) + 1 = k
    BY <1>1
  <2>3. k - 1 \in A
    BY <2>1, <2>2
  <2> QED
    BY <2>1, <2>2, <2>3
<1>6. IsFiniteSet(A)
  <2>1. IsFiniteSet(0 .. Len(q) - 1)
    BY <1>1, FS_Interval
  <2>2. A \subseteq 0 .. Len(q) - 1
    OBVIOUS
  <2> QED
    BY <2>1, <2>2, FS_Subset
<1> HIDE DEF A, B, f
<1>7. f \in Bijection(A, B)
  BY <1>3, <1>4, <1>5, Fun_IsBij
<1>8. Cardinality(B) = Cardinality(A)
  BY <1>6, <1>7, FS_Bijection, Fun_ExistsBij
<1> QED
  BY <1>8 DEF A, B

\* The largest of finitely many numbers.
LEMMA Greatest ==
  ASSUME NEW n \in Nat, NEW T \in SUBSET (1 .. n), T # {}
  PROVE  Max(T) \in T /\ \A k \in T : k <= Max(T)
<1> DEFINE D == {n - k : k \in T}
<1>1. D \in SUBSET Nat /\ D # {}
  <2>1. \A k \in T : n - k \in Nat
    OBVIOUS
  <2>2. PICK k \in T : TRUE
    OBVIOUS
  <2>3. n - k \in D
    OBVIOUS
  <2> QED
    BY <2>1, <2>3
<1>2. Min(D) \in D /\ \A d \in D : Min(D) <= d
  BY <1>1, Least
<1>3. PICK k \in T : Min(D) = n - k
  BY <1>2
<1> HIDE DEF D
<1>4. \A l \in T : l <= k
  <2> SUFFICES ASSUME NEW l \in T PROVE l <= k
    OBVIOUS
  <2>1. n - l \in D
    BY DEF D
  <2>2. n - k <= n - l
    BY <1>2, <1>3, <2>1, Zenon
  <2> QED
    BY <2>2
<1>5. \A l \in T : k >= l
  BY <1>4
<1> QED
  BY <1>4, <1>5 DEF Max

\* What the loop over contains has packed when it has passed the queries in T.
Packed(buffer, q, T) ==
  [b \in DOMAIN buffer |->
     {k \in 0 .. ByteBits - 1 :
        ByteBits * b + k + 1 \in T /\ q[ByteBits * b + k + 1] \in positives}]

\* One iteration of the loop.
LEMMA PackedStep ==
  ASSUME NEW q \in Seq(Sizes), NEW buffer,
         DOMAIN buffer = 0 .. result_bytes(Len(q)) - 1,
         NEW T \in SUBSET (1 .. Len(q)), NEW k \in T
  PROVE  Packed(buffer, q, T)
           = IF q[k] \in positives THEN setBit(Packed(buffer, q, T \ {k}), k - 1)
             ELSE Packed(buffer, q, T \ {k})
<1> DEFINE d == (k - 1) \div ByteBits
           r == (k - 1) % ByteBits
<1>1. Len(q) \in Nat /\ k - 1 \in 0 .. Len(q) - 1 /\ k - 1 \in Nat /\ k \in Nat
  OBVIOUS
<1>2. d \in DOMAIN buffer
  BY <1>1, BytesOfElements
<1>3. /\ ByteBits \in Nat /\ d \in Nat /\ r \in 0 .. ByteBits - 1
      /\ k - 1 = ByteBits * d + r
  BY <1>1, PackedPlace
<1>4. ASSUME NEW b \in DOMAIN buffer, NEW c \in 0 .. ByteBits - 1
      PROVE  ByteBits * b + c + 1 = k <=> b = d /\ c = r
  <2>1. result_bytes(Len(q)) \in Nat
    BY <1>1, PackedPlace
  <2>2. b \in Nat
    BY <2>1
  <2>3. /\ ByteBits * b + c \in Nat /\ (ByteBits * b + c) \div ByteBits = b
        /\ (ByteBits * b + c) % ByteBits = c
    BY <2>2, PlaceOfBit
  <2>4. ByteBits * b + c + 1 = k <=> ByteBits * b + c = k - 1
    BY <1>1, <2>3
  <2> HIDE DEF d, r
  <2>5. b = d /\ c = r => ByteBits * b + c = k - 1
    BY <1>3
  <2>6. ByteBits * b + c = k - 1 => b = d /\ c = r
    BY <2>3 DEF d, r
  <2> QED
    BY <2>4, <2>5, <2>6
<1> HIDE DEF d, r
<1> DEFINE P == Packed(buffer, q, T)
           Q == Packed(buffer, q, T \ {k})
<1>5. ASSUME NEW b \in DOMAIN buffer
      PROVE  P[b] = IF b = d /\ q[k] \in positives THEN Q[b] \cup {r} ELSE Q[b]
  <2>1. P[b] = {c \in 0 .. ByteBits - 1 :
                  ByteBits * b + c + 1 \in T /\ q[ByteBits * b + c + 1] \in positives}
    BY DEF Packed
  <2>2. Q[b] = {c \in 0 .. ByteBits - 1 :
                  /\ ByteBits * b + c + 1 \in T /\ ByteBits * b + c + 1 # k
                  /\ q[ByteBits * b + c + 1] \in positives}
    BY DEF Packed
  <2> HIDE DEF P, Q
  <2>3. ASSUME NEW c \in 0 .. ByteBits - 1
        PROVE  c \in P[b] <=>
                 c \in Q[b] \/ (b = d /\ c = r /\ q[k] \in positives)
    <3>1. CASE b = d /\ c = r
      <4>1. ByteBits * b + c + 1 = k
        BY <1>4, <3>1
      <4> QED
        BY <2>1, <2>2, <3>1, <4>1, Zenon
    <3>2. CASE ~(b = d /\ c = r)
      <4>1. ByteBits * b + c + 1 # k
        BY <1>4, <3>2
      <4> QED
        BY <2>1, <2>2, <3>2, <4>1, Zenon
    <3> QED
      BY <3>1, <3>2
  <2>4. P[b] \subseteq 0 .. ByteBits - 1 /\ Q[b] \subseteq 0 .. ByteBits - 1
    BY <2>1, <2>2
  <2> QED
    BY <1>3, <2>3, <2>4
<1>6. /\ DOMAIN P = DOMAIN buffer /\ DOMAIN Q = DOMAIN buffer
      /\ P = [b \in DOMAIN buffer |-> P[b]] /\ Q = [b \in DOMAIN buffer |-> Q[b]]
  BY DEF Packed
<1>7. setBit(Q, k - 1) = [Q EXCEPT ![d] = @ \cup {r}]
  BY DEF setBit, d, r
<1> HIDE DEF P, Q
<1>8. P = IF q[k] \in positives THEN [Q EXCEPT ![d] = @ \cup {r}] ELSE Q
  BY <1>2, <1>5, <1>6
<1>9. P = IF q[k] \in positives THEN setBit(Q, k - 1) ELSE Q
  BY <1>7, <1>8, Zenon
<1> QED
  BY <1>9, Zenon DEF P, Q

\* A loop over contains packs what containsBatch packs.
LEMMA ProbeScalar ==
  ASSUME NEW q \in Seq(Sizes), NEW buffer,
         DOMAIN buffer = 0 .. result_bytes(Len(q)) - 1
  PROVE  probe_scalar(buffer, q) = containsBatch(buffer, q)
<1> DEFINE D == 1 .. Len(q)
           zeros == [b \in DOMAIN buffer |-> {}]
           step(bytes, k) == IF q[k] \in positives THEN setBit(bytes, k - 1) ELSE bytes
           G == [T \in SUBSET D |-> Packed(buffer, q, T)]
           F == CHOOSE F : F = [T \in SUBSET D |->
                  IF T = {} THEN zeros
                  ELSE step(F[T \ {Max(T)}], [k \in D |-> k][Max(T)])]
<1>1. probe_scalar(buffer, q) = F[D]
  BY DOMAIN [k \in D |-> k] = D DEF probe_scalar, FoldLeft, MapThenFoldSet
<1>2. IsFiniteSet(D) /\ Len(q) \in Nat
  BY FS_Interval
<1>3. ASSUME NEW T \in SUBSET D, T # {} PROVE Max(T) \in T
  BY <1>2, <1>3, Greatest
<1>4. Packed(buffer, q, {}) = zeros
  BY DEF Packed
<1>5. ASSUME NEW T \in SUBSET D, NEW k \in T
      PROVE  G[T] = step(G[T \ {k}], [l \in D |-> l][k])
  <2>1. T \ {k} \in SUBSET D /\ k \in D
    OBVIOUS
  <2>2. G[T] = Packed(buffer, q, T) /\ G[T \ {k}] = Packed(buffer, q, T \ {k})
        /\ [l \in D |-> l][k] = k
    BY <2>1
  <2>3. Packed(buffer, q, T) = step(Packed(buffer, q, T \ {k}), k)
    BY PackedStep
  <2> HIDE DEF G, step
  <2> QED
    BY <2>2, <2>3
<1> HIDE DEF zeros, step
<1>6. G = [T \in SUBSET D |->
             IF T = {} THEN zeros
             ELSE step(G[T \ {Max(T)}], [k \in D |-> k][Max(T)])]
  <2>1. G = [T \in SUBSET D |-> G[T]] /\ G[{}] = zeros
    BY <1>4
  <2> HIDE DEF G, D
  <2> QED
    BY <1>3, <1>5, <2>1
<1> HIDE DEF G
<1>7. F = [T \in SUBSET D |->
             IF T = {} THEN zeros
             ELSE step(F[T \ {Max(T)}], [k \in D |-> k][Max(T)])]
  BY <1>6
<1> HIDE DEF F, D
<1>8. F[D] = G[D]
  <2>1. F[{}] = G[{}]
    BY <1>6, <1>7
  <2>2. ASSUME NEW T \in SUBSET D, T # {}
        PROVE  \E k \in T : F[T \ {k}] = G[T \ {k}] => F[T] = G[T]
    <3> DEFINE k == Max(T)
    <3>1. k \in T
      BY <1>3, <2>2
    <3>2. F[T] = step(F[T \ {k}], [l \in D |-> l][k])
      BY <1>7, <2>2
    <3>3. G[T] = step(G[T \ {k}], [l \in D |-> l][k])
      BY <1>6, <2>2
    <3> HIDE DEF k
    <3> QED
      BY <3>1, <3>2, <3>3
  <2> QED
    BY <1>2, <2>1, <2>2, FoldsAgree
<1>9. Packed(buffer, q, D) = containsBatch(buffer, q)
  <2>1. ASSUME NEW b \in DOMAIN buffer, NEW k \in 0 .. ByteBits - 1
        PROVE  ByteBits * b + k + 1 \in D <=> ByteBits * b + k < Len(q)
    <3>1. result_bytes(Len(q)) \in Nat
      BY <1>2, PackedPlace
    <3>2. b \in Nat
      BY <3>1
    <3>3. ByteBits * b + k \in Nat
      BY <3>2, PlaceOfBit
    <3> QED
      BY <1>2, <3>3 DEF D
  <2> QED
    BY <2>1 DEF Packed, containsBatch
<1> QED
  BY <1>1, <1>8, <1>9 DEF G

-----------------------------------------------------------------------------
(* The answers that are counted and packed                                 *)

\* The filter accepts no hash of a third set; while it is probed the count is
\* that of its false positives, the buffer has a bit for every query, and what
\* a measured section leaves in it are the answers.
AnswersInv ==
  /\ phase = "count" => positives \subseteq ToSet(to_insert) \cup ToSet(not_present)
  /\ stage \in Probes =>
       /\ false_positives = Cardinality(positives \ members)
       /\ DOMAIN probe_result = 0 .. result_bytes(Len(queries(stage))) - 1
       /\ phase = "stop" => probe_result = containsBatch(probe_result, queries(stage))

\* The queries of every probing stage, and the buffer for them.
LEMMA QueriesAreSizes ==
  ASSUME TypeOK, NEW s \in Probes
  PROVE  queries(s) \in Seq(Sizes)
<1>1. {to_insert, not_present, mixed} \subseteq Seq(Sizes)
  BY HashesAreSizes DEF TypeOK, Queries!TypeOK
<1> QED
  BY <1>1 DEF queries, Probes

\* fp_rate: the reply to the queries for not_present, counted.
LEMMA FalsePositives ==
  ASSUME IndInv, AnswersInv, CountFalsePositives
  PROVE  false_positives' = Cardinality(positives \ members)
<1>1. /\ phase = "count" /\ members = ToSet(to_insert) /\ members \subseteq positives
      /\ positives \subseteq ToSet(to_insert) \cup ToSet(not_present)
      /\ IsInjective(not_present) /\ ToSet(to_insert) \cap ToSet(not_present) = {}
      /\ not_present \in Seq(Sizes)
  <2>1. phase = "count" /\ TypeOK /\ StageInv /\ SetsInv
    BY DEF IndInv, CountFalsePositives
  <2>2. not_present \in Seq(Sizes)
    BY <2>1, HashesAreSizes DEF TypeOK, Queries!TypeOK
  <2> QED
    BY <2>1, <2>2 DEF AnswersInv, StageInv, SetsInv
<1> DEFINE n     == Len(not_present)
           zeros == [b \in 0 .. result_bytes(n) - 1 |-> {}]
           bytes == containsBatch(zeros, not_present)
<1>2. false_positives' = Queries!count_packed_true(bytes, n)
  BY DEF CountFalsePositives
<1>3. DOMAIN zeros = 0 .. result_bytes(n) - 1
  OBVIOUS
<1> HIDE DEF zeros
<1>4. Queries!count_packed_true(bytes, n)
        = Cardinality({j \in 0 .. n - 1 : not_present[j + 1] \in positives})
  BY <1>1, <1>3, PackedCount
<1>5. Cardinality({j \in 0 .. n - 1 : not_present[j + 1] \in positives})
        = Cardinality(positives \cap ToSet(not_present))
  BY <1>1, CountedOnce
<1>6. positives \cap ToSet(not_present) = positives \ members
  BY <1>1
<1> QED
  BY <1>2, <1>4, <1>5, <1>6

\* A section keeps the buffer's bytes, and a probe packs the answers.
LEMMA SectionPacks ==
  ASSUME IndInv, AnswersInv, stage \in Probes, NEW base, Section(base)
  PROVE  /\ UNCHANGED members
         /\ probe_result' = containsBatch(probe_result, queries(stage))
         /\ DOMAIN probe_result' = DOMAIN probe_result
         /\ probe_result' = containsBatch(probe_result', queries(stage))
<1>1. /\ queries(stage) \in Seq(Sizes)
      /\ DOMAIN probe_result = 0 .. result_bytes(Len(queries(stage))) - 1
  BY QueriesAreSizes DEF IndInv, AnswersInv
<1>2. /\ UNCHANGED members
      /\ probe_result' = IF Benchmarks[benchmark] = "scalar"
                         THEN probe_scalar(probe_result, queries(stage))
                         ELSE containsBatch(probe_result, queries(stage))
  BY DEF Section, Probes
<1>3. probe_result' = containsBatch(probe_result, queries(stage))
  BY <1>1, <1>2, ProbeScalar
<1>4. DOMAIN probe_result' = DOMAIN probe_result
  BY <1>3 DEF containsBatch
<1>5. containsBatch(probe_result', queries(stage))
        = containsBatch(probe_result, queries(stage))
  BY <1>4 DEF containsBatch
<1> QED
  BY <1>2, <1>3, <1>4, <1>5

\* A stage begins with a buffer for its queries.
LEMMA BufferEntered ==
  ASSUME NEW s \in Probes, UNCHANGED setVars, Enter(s), stage' = s
  PROVE  DOMAIN probe_result' = 0 .. result_bytes(Len(queries(stage)')) - 1
<1>1. queries(stage)' = queries(s)
  BY DEF queries, setVars, Probes
<1>2. probe_result' = [b \in 0 .. result_bytes(Len(queries(s))) - 1 |-> {}]
  BY DEF Enter
<1> QED
  BY <1>1, <1>2

LEMMA AnswersOfRunning ==
  ASSUME IndInv, AnswersInv, Running
  PROVE  AnswersInv'
<1>1. /\ UNCHANGED setVars /\ UNCHANGED <<to_insert, not_present, mixed>>
      /\ stage \in {"build", "insert", "refill"} \cup Probes
      /\ phase \in {"refill", "count"} => stage = "refill"
      /\ phase = "next" => stage = "build"
  BY RunningFrame, TypeParts DEF IndInv, RunTypeOK, StageInv, setVars
<1>2. ASSUME stage' = stage PROVE queries(stage)' = queries(stage)
  BY <1>1, <1>2 DEF queries
\* A step that goes on with the stage and leaves its reply alone.
<1>3. ASSUME /\ UNCHANGED <<stage, members, positives, false_positives, probe_result>>
             /\ phase' # "stop" /\ phase' # "count"
      PROVE  AnswersInv'
  BY <1>2, <1>3 DEF AnswersInv
\* A step of a stage that does not probe.
<1>4. ASSUME stage' \notin Probes, phase' # "count"
      PROVE  AnswersInv'
  BY <1>4 DEF AnswersInv
<1>5. CASE WarmUp
  <2>1. /\ phase = "warmup" /\ UNCHANGED <<phase, stage, positives, false_positives>>
        /\ Section({})
    BY <1>5 DEF WarmUp, argVars
  <2>2. CASE stage \in Probes
    <3>1. UNCHANGED members /\ DOMAIN probe_result' = DOMAIN probe_result
      BY <2>1, <2>2, SectionPacks
    <3> QED
      BY <1>2, <2>1, <3>1 DEF AnswersInv
  <2> QED
    BY <1>4, <2>1, <2>2
<1>6. CASE EndWarmUp
  BY <1>3, <1>6 DEF EndWarmUp, GoTo, Throw, runVars
<1>7. CASE StartRun
  <2>1. /\ phase' = "measure"
        /\ UNCHANGED <<stage, positives, false_positives, probe_result>>
        /\ stage # "insert" => UNCHANGED members
    BY <1>7 DEF StartRun, GoTo
  <2> QED
    BY <1>3, <1>4, <2>1 DEF Probes
<1>8. CASE Measure
  <2>1. /\ phase' = "stop" /\ UNCHANGED <<stage, positives, false_positives>>
        /\ Section(members)
    BY <1>8 DEF Measure, GoTo
  <2>2. CASE stage \in Probes
    <3>1. /\ UNCHANGED members /\ DOMAIN probe_result' = DOMAIN probe_result
          /\ probe_result' = containsBatch(probe_result', queries(stage))
      BY <2>1, <2>2, SectionPacks
    <3>2. containsBatch(probe_result, queries(stage))'
            = containsBatch(probe_result', queries(stage))
      BY <1>2, <2>1 DEF containsBatch
    <3> QED
      BY <1>2, <2>1, <2>2, <3>1, <3>2 DEF AnswersInv
  <2> QED
    BY <1>4, <2>1, <2>2
<1>9. CASE StopRun
  BY <1>3, <1>9 DEF StopRun, GoTo, runVars
<1>10. CASE RecordRun
  BY <1>3, <1>10 DEF RecordRun, GoTo
<1>11. CASE EndStage
  <2>1. /\ phase = "hot" /\ UNCHANGED <<members, positives, false_positives>>
        /\ \/ stage' \notin Probes /\ phase' # "count"
           \/ /\ stage \in Probes /\ stage' \in Probes /\ phase' = "warmup"
              /\ Enter(stage')
    <3>1. stage \in {"build", "insert", "hit", "miss", "mixed"} /\ phase = "hot"
      BY <1>1, <1>11 DEF EndStage, Probes, IndInv, StageInv
    <3> QED
      BY <1>11, <3>1 DEF EndStage, GoTo, Enter, Probes
  <2>2. CASE stage' \in Probes
    <3>1. DOMAIN probe_result' = 0 .. result_bytes(Len(queries(stage)')) - 1
      BY <1>1, <2>1, <2>2, BufferEntered
    <3> QED
      BY <2>1, <2>2, <3>1 DEF AnswersInv
  <2> QED
    BY <1>4, <2>1, <2>2
<1>12. CASE Refill
  <2>1. /\ phase' = "count" /\ stage' = stage /\ phase = "refill"
        /\ \E more \in SUBSET ToSet(not_present) :
             positives' = ToSet(to_insert) \cup more
    BY <1>12 DEF Refill, GoTo
  <2>2. positives' \subseteq ToSet(to_insert)' \cup ToSet(not_present)'
    BY <1>1, <2>1
  <2> QED
    BY <1>1, <2>1, <2>2 DEF AnswersInv, Probes
<1>13. CASE CountFalsePositives
  <2>1. /\ phase' = "warmup" /\ UNCHANGED <<members, positives>>
        /\ Enter("hit") /\ stage' = "hit" /\ "hit" \in Probes
    BY <1>13 DEF CountFalsePositives, GoTo, Enter, Probes
  <2>2. false_positives' = Cardinality(positives \ members)
    BY <1>13, FalsePositives
  <2>3. DOMAIN probe_result' = 0 .. result_bytes(Len(queries(stage)')) - 1
    BY <1>1, <2>1, BufferEntered
  <2> QED
    BY <2>1, <2>2, <2>3 DEF AnswersInv
<1>14. CASE NextBenchmark
  <2>1. phase = "next" /\ phase' # "count" /\ stage' = stage
    BY <1>14 DEF NextBenchmark, GoTo
  <2> QED
    BY <1>1, <1>4, <2>1 DEF Probes
<1>15. CASE Report
  BY <1>3, <1>15 DEF Report, GoTo, Throw, runVars
<1> QED
  BY <1>5, <1>6, <1>7, <1>8, <1>9, <1>10, <1>11, <1>12, <1>13, <1>14, <1>15
     DEF Running

LEMMA AnswersStep ==
  ASSUME IndInv, AnswersInv, [Next]_vars
  PROVE  AnswersInv'
<1>1. CASE Parse \/ Preparing
  <2>1. UNCHANGED runVars /\ phase \in {"args", "parsed", "counters", "to_insert",
                                        "not_present"}
    BY <1>1, ParseFrame, PreparingFrame
  <2>2. stage' = "build"
    BY <2>1 DEF IndInv, StageInv, runVars
  <2>3. phase' # "count"
    BY <2>2, StageStep DEF StageInv
  <2> QED
    BY <2>2, <2>3 DEF AnswersInv, Probes
<1>2. CASE Running
  BY <1>2, AnswersOfRunning
<1>3. CASE UNCHANGED vars
  <2>1. /\ UNCHANGED <<phase, stage, members, positives, probe_result,
                       false_positives, to_insert, not_present, mixed>>
    BY <1>3 DEF vars, argVars, setVars, runVars
  <2>2. queries(stage)' = queries(stage)
    BY <2>1 DEF queries
  <2>3. containsBatch(probe_result, queries(stage))'
          = containsBatch(probe_result, queries(stage))
    BY <2>1, <2>2 DEF containsBatch
  <2> QED
    BY <2>1, <2>2, <2>3 DEF AnswersInv
<1> QED
  BY <1>1, <1>2, <1>3, StepCases

\* What the invariant says of the count and of a reply is what is promised.
LEMMA AnswersPromised ==
  ASSUME IndInv, AnswersInv
  PROVE  AnswersCounted
<1>1. stage \in Probes => false_positives = Cardinality(positives \ members)
  BY DEF AnswersInv
<1>2. ASSUME stage \in Probes, phase = "stop",
             NEW b \in DOMAIN probe_result, NEW k \in 0 .. ByteBits - 1
      PROVE  packed_result_bit(probe_result, ByteBits * b + k) <=>
               /\ ByteBits * b + k < Len(queries(stage))
               /\ queries(stage)[ByteBits * b + k + 1] \in members \cup positives
  <2>1. /\ queries(stage) \in Seq(Sizes)
        /\ DOMAIN probe_result = 0 .. result_bytes(Len(queries(stage))) - 1
        /\ probe_result = containsBatch(probe_result, queries(stage))
        /\ members \subseteq positives
    BY <1>2, QueriesAreSizes DEF IndInv, AnswersInv, StageInv
  <2>2. result_bytes(Len(queries(stage))) \in Nat
    <3>1. Len(queries(stage)) \in Nat
      BY <2>1
    <3> QED
      BY <3>1, PackedPlace
  <2>3. b \in Nat
    BY <2>1, <2>2
  <2>4. /\ (ByteBits * b + k) \div ByteBits = b
        /\ (ByteBits * b + k) % ByteBits = k
    BY <2>3, PlaceOfBit
  <2>5. packed_result_bit(probe_result, ByteBits * b + k) <=> k \in probe_result[b]
    BY <2>4 DEF packed_result_bit
  <2>6. probe_result[b]
          = {c \in 0 .. ByteBits - 1 :
               /\ ByteBits * b + c < Len(queries(stage))
               /\ queries(stage)[ByteBits * b + c + 1] \in positives}
    BY <2>1, Zenon DEF containsBatch
  <2>7. members \cup positives = positives
    BY <2>1
  <2> QED
    BY <2>5, <2>6, <2>7, Zenon
<1> QED
  BY <1>1, <1>2, Zenon DEF AnswersCounted

\* The false positives that are counted in the packed reply are the hashes never
\* inserted that the filter accepts, and both ways of probing leave every
\* query's answer, and nothing else, in the buffer: BENCH_probeFilters and
\* count_packed_true, for every number of queries and every width.
THEOREM AnswersExact == Spec => []AnswersCounted
<1>1. Init => AnswersInv
  BY DEF Init, ArgsInit, AnswersInv, Probes
<1>2. IndInv /\ AnswersInv /\ [Next]_vars => AnswersInv'
  BY AnswersStep
<1>3. IndInv /\ AnswersInv => AnswersCounted
  BY AnswersPromised
<1> QED
  BY Invariance, <1>1, <1>2, <1>3, PTL DEF Spec
=============================================================================
