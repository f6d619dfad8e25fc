----------------------------- MODULE ParseArgs -----------------------------
(***************************************************************************)
(* parse_args of the benchmark: the loop over the command line and the     *)
(* checks after it.  The command line is the environment's: its length is  *)
(* chosen in the initial state and each argument when the loop looks at    *)
(* it.  The text of a number is the integer it denotes.                    *)
(***************************************************************************)
EXTENDS Integers

CONSTANTS HashBits,             \* width of std::size_t: 64
          default_rows,         \* 720721
          default_hot_runs,     \* 10
          default_warmup_runs,  \* 1
          RowTexts,             \* the numbers passed after -nr,
          RunTexts,             \* after -r
          WarmupTexts,          \* and after -wr
          MaxArgs               \* bound: arguments on the command line

Sizes == 0 .. 2^HashBits - 1

ASSUME ParseAssumption ==
  /\ HashBits \in Nat
  /\ {default_rows, default_hot_runs, default_warmup_runs} \subseteq Sizes
  /\ default_rows > 0 /\ default_hot_runs > 0
  /\ RowTexts \cup RunTexts \cup WarmupTexts \subseteq Int
  /\ MaxArgs \in Nat

VARIABLES phase,      \* what main is doing; "args" while it parses
          args_left,  \* argc - i: arguments the loop has not looked at
          config,     \* the configuration parsed so far
          thrown      \* the exception that ends main, or "none"

argVars == <<phase, args_left, config, thrown>>

ArgsInit ==
  /\ phase = "args"
  /\ args_left \in 0 .. MaxArgs
  /\ config = [rows             |-> default_rows,
               negative_queries |-> default_rows,
               hot_runs         |-> default_hot_runs,
               warmup_runs      |-> default_warmup_runs,
               csv_path         |-> FALSE]
  /\ thrown = "none"

\* An exception leaves main: nothing catches it.
Throw(what) ==
  /\ phase' = "exited"
  /\ thrown' = what

\* Mutant: a negative number is not converted.
parse_number_signed(text) == text

\* std::stoull accepts a minus sign and negates the value as an unsigned one;
\* it throws when the digits denote a number that has more than HashBits bits.
IsNumber(text)     == -(2^HashBits) < text /\ text < 2^HashBits
parse_number(text) == text % 2^HashBits

\* Look at the next n arguments, of which there must be as many.
Take(n) ==
  /\ phase = "args"
  /\ args_left >= n
  /\ args_left' = args_left - n

SetRows(text) ==
  /\ IsNumber(text)
  /\ Take(2)
  /\ config' = [config EXCEPT !.rows = parse_number(text),
                              !.negative_queries = parse_number(text)]
  /\ UNCHANGED <<phase, thrown>>

SetHotRuns(text) ==
  /\ IsNumber(text)
  /\ Take(2)
  /\ config' = [config EXCEPT !.hot_runs = parse_number(text)]
  /\ UNCHANGED <<phase, thrown>>

SetWarmupRuns(text) ==
  /\ IsNumber(text)
  /\ Take(2)
  /\ config' = [config EXCEPT !.warmup_runs = parse_number(text)]
  /\ UNCHANGED <<phase, thrown>>

\* Of the path it matters whether there is one: "-f ''" is accepted.
SetPath ==
  /\ Take(2)
  /\ \E is_path \in BOOLEAN : config' = [config EXCEPT !.csv_path = is_path]
  /\ UNCHANGED <<phase, thrown>>

\* std::exit(0), whatever follows on the command line.
Help ==
  /\ Take(1)
  /\ phase' = "done"
  /\ UNCHANGED <<config, thrown>>

\* An option at the end that needs a value, a value that is not a number, an
\* argument that is no option.
Reject ==
  /\ \/ args_left = 1 /\ Take(1) /\ Throw("Missing value")
     \/ Take(2) /\ Throw("Invalid value")
     \/ Take(1) /\ Throw("Unknown option")
  /\ UNCHANGED config

\* The checks after the loop.
Accept ==
  /\ phase = "args" /\ args_left = 0
  /\ config.rows > 0 /\ config.hot_runs > 0
  /\ phase' = "parsed"
  /\ UNCHANGED <<args_left, config, thrown>>

RejectZero ==
  /\ phase = "args" /\ args_left = 0
  /\ config.rows = 0 \/ config.hot_runs = 0
  /\ Throw("-r cannot be zero")
  /\ UNCHANGED <<args_left, config>>

ParseStep ==
  \/ \E text \in RowTexts : SetRows(text)
  \/ \E text \in RunTexts : SetHotRuns(text)
  \/ \E text \in WarmupTexts : SetWarmupRuns(text)
  \/ SetPath
  \/ Help
  \/ Reject
  \/ Accept
  \/ RejectZero

ParseSpec == ArgsInit /\ [][ParseStep]_argVars

-----------------------------------------------------------------------------
(* Properties *)

ArgsTypeOK ==
  /\ args_left \in 0 .. MaxArgs
  /\ config \in [rows : Sizes, negative_queries : Sizes, hot_runs : Sizes,
                 warmup_runs : Sizes, csv_path : BOOLEAN]

\* The exception "-r cannot be zero." (bench.cpp:148 and 151) is about the number
\* of hot runs, which is what -r sets (README.md:64).
ZeroMessageIsAboutRuns ==
  thrown = "-r cannot be zero" => config.hot_runs = 0
=============================================================================
