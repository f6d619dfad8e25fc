----------------------------- MODULE PerfEvent -----------------------------
(***************************************************************************)
(* util/PerfEvent.h as the benchmark uses it: a vector of hardware         *)
(* counters opened together, started and stopped together, of which the    *)
(* benchmark reads "cycle".  The kernel's side (perf_event_open, ioctl,    *)
(* read) is modelled as the code relies on it: a counter counts at an even *)
(* rate while it is scheduled on the CPU, and keeps the time for which it  *)
(* was enabled and that for which it was scheduled; opening and reading may*)
(* fail.  Time passes between start and stop, not in them.                 *)
(*                                                                         *)
(* A component: the modules that use it INSTANCE it, and its operators are *)
(* conjuncts of their actions.                                             *)
(***************************************************************************)
EXTENDS Integers

CONSTANTS EventNames,  \* the counters the machine offers, "cycle" among them
          CounterBits, \* width of what read returns: 64 in the code
          MaxReadErrors \* bound: reads that fail

VARIABLES events,    \* the names in the vector events
          open,      \* the names whose file descriptor is open
          cycle,     \* the kernel's record of the counter "cycle"
          enabled,   \* whether the counters are enabled
          prev,      \* event.prev of "cycle": what startCounters read
          data,      \* event.data of "cycle": what stopCounters read
          duration,  \* time since startTime, and up to stopTime
          reported,  \* an error was printed since the counters were started
          errors     \* errors printed in all

perfVars == <<events, open, cycle, enabled, prev, data, duration, reported, errors>>

Count == 0 .. 2^CounterBits - 1

\* A read_format; id is left out.
ReadFormat == [value : Count, time_enabled : Count, time_running : Count]

plus(a, b)  == (a + b) % 2^CounterBits
minus(a, b) == (a - b) % 2^CounterBits

Init ==
  /\ events = {} /\ open = {}
  /\ cycle = [value |-> 0, time_enabled |-> 0, time_running |-> 0]
  /\ prev = cycle /\ data = cycle
  /\ enabled = FALSE
  /\ duration = 0
  /\ reported = FALSE /\ errors = 0

\* A read succeeds or not; a failure is printed.
Read(read_ok) ==
  /\ read_ok \/ errors < MaxReadErrors
  /\ errors' = IF read_ok THEN errors ELSE errors + 1

\* The constructor.  If one counter cannot be opened, it closes all and clears
\* the vector.
PerfEvent(opened) ==
  /\ events' = IF opened = EventNames THEN EventNames ELSE {}
  /\ open' = IF opened = EventNames THEN opened ELSE {}
  /\ UNCHANGED <<cycle, enabled, prev, data, duration, reported, errors>>

\* The destructor.
Close ==
  /\ open' = open \ events
  /\ UNCHANGED <<events, cycle, enabled, prev, data, duration, reported, errors>>

\* Mutant: the times before the start are taken to be zero.
startCounters_no_prev(read_ok) ==
  /\ Read(read_ok)
  /\ cycle' = [cycle EXCEPT !.value = 0]
  /\ enabled' = TRUE
  /\ prev' = [value |-> 0, time_enabled |-> 0, time_running |-> 0]
  /\ duration' = 0
  /\ reported' = ~read_ok
  /\ UNCHANGED <<events, open, data>>

\* Reset (of the value alone), enable, read.  When the read fails an error is
\* printed and prev keeps what it was.
startCounters(read_ok) ==
  /\ Read(read_ok)
  /\ cycle' = [cycle EXCEPT !.value = 0]
  /\ enabled' = TRUE
  /\ prev' = IF read_ok THEN cycle' ELSE prev
  /\ duration' = 0
  /\ reported' = ~read_ok
  /\ UNCHANGED <<events, open, data>>

\* Time and cycles pass, n of each; the counter is scheduled for r of them.
Elapse(n, r) ==
  /\ cycle' = IF enabled
              THEN [value        |-> plus(cycle.value, r),
                    time_enabled |-> plus(cycle.time_enabled, n),
                    time_running |-> plus(cycle.time_running, r)]
              ELSE cycle
  /\ duration' = IF enabled THEN duration + n ELSE duration
  /\ UNCHANGED <<events, open, enabled, prev, data, reported, errors>>

\* Read, disable.
stopCounters(read_ok) ==
  /\ Read(read_ok)
  /\ data' = IF read_ok THEN cycle ELSE data
  /\ enabled' = FALSE
  /\ reported' = (reported \/ ~read_ok)
  /\ UNCHANGED <<events, open, cycle, prev, duration>>

\* The value with multiplexingCorrection, as a fraction: with a denominator of
\* 0 the code gets a NaN or an infinity.
readCounter ==
  [numerator   |-> minus(data.value, prev.value)
                     * minus(data.time_enabled, prev.time_enabled),
   denominator |-> minus(data.time_running, prev.time_running)]

TypeOK ==
  /\ events \in {{}, EventNames}
  /\ open \in {{}, EventNames}
  /\ {cycle, prev, data} \subseteq ReadFormat
  /\ enabled \in BOOLEAN
  /\ duration \in Nat
  /\ reported \in BOOLEAN
  /\ errors \in 0 .. MaxReadErrors
=============================================================================
