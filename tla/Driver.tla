--------------------------------- MODULE Driver ---------------------------------
(***************************************************************************)
(* The driver: main reads its arguments, loads files and compiles them       *)
(* (src/main.cpp, compiler.cpp), with the profiler as the stack of the       *)
(* blocks that are open (profiler.cpp).  What the phases do is left to the   *)
(* modules about them: here each ends well or not.                           *)
(***************************************************************************)
EXTENDS Integers, Sequences, SequencesExt

CONSTANT MaxArguments  \* bound of the model

ASSUME ArgumentsAssumption == MaxArguments \in Nat

\* argument_type_t; OPTION stands for the three that only set a flag, NAME for
\* what is no option.
Arguments == {"ERROR", "HELP", "VERSION", "OPTION", "OUTPUT", "NAME"}

VARIABLES
  arguments, \* argv, without the name of the program
  stage,        \* "load" with the number of the argument in next; "compile" with the
             \* number of the step; "end", "done"
  next,
  status, at_least_one_file_loaded, wait_for_output_filename,
  loads,     \* the outcomes of load_and_process_file
  filename,  \* the argument the output is named after, 0 when there is none
  block_stack, \* names of the blocks of the profiler
  mismatched,  \* a pop was for another block than the one on top, or the end found more than one
  failed     \* a phase of the compiler failed

mainVars == <<arguments, status, at_least_one_file_loaded, wait_for_output_filename, loads, filename>>
driverVars == <<mainVars, stage, next, block_stack, mismatched, failed>>

--------------------------------------------------------------------------------
(* Profiler.                                                                      *)

profiler_push(name) == block_stack' = Append(block_stack, name) /\ UNCHANGED mismatched

\* The block on top ends, whatever its name: another one is an assertion.
profiler_pop(name) ==
  /\ block_stack' = Front(block_stack)
  /\ mismatched' = (mismatched \/ Last(block_stack) # name)

\* The block of profiler_begin is the only one left, or that is an assertion.
profiler_end ==
  /\ block_stack' = Front(block_stack)
  /\ mismatched' = (mismatched \/ Len(block_stack) # 1)

--------------------------------------------------------------------------------
(* main, up to compile.                                                           *)

DriverInit ==
  /\ arguments \in UNION {[1 .. n -> Arguments] : n \in 1 .. MaxArguments}
  /\ stage = "load" /\ next = 1
  /\ status = TRUE
  /\ at_least_one_file_loaded = FALSE /\ wait_for_output_filename = FALSE
  /\ loads = <<>> /\ filename = 0
  /\ block_stack = <<"PROF", "Compilation", "Load and process">>
  /\ mismatched = FALSE /\ failed = FALSE

Argument == arguments[next]

Reads == stage = "load" /\ status /\ next <= Len(arguments)

\* An unknown option, --help and --version end the loop.
StopsAtOption ==
  /\ Reads /\ Argument \in {"ERROR", "HELP", "VERSION"}
  /\ status' = FALSE
  /\ UNCHANGED <<arguments, at_least_one_file_loaded, wait_for_output_filename, loads, filename,
                 stage, next, block_stack, mismatched, failed>>

TakesOption ==
  /\ Reads /\ Argument \in {"OPTION", "OUTPUT"}
  /\ wait_for_output_filename' = (wait_for_output_filename \/ Argument = "OUTPUT")
  /\ next' = next + 1
  /\ UNCHANGED <<arguments, status, at_least_one_file_loaded, loads, filename, stage, block_stack,
                 mismatched, failed>>

\* Mutant: main goes on to wait for a name.
NamesOutput_StillWaits ==
  /\ Reads /\ Argument = "NAME" /\ wait_for_output_filename
  /\ filename' = next
  /\ next' = next + 1
  /\ UNCHANGED <<arguments, wait_for_output_filename, status, at_least_one_file_loaded, loads, stage,
                 block_stack, mismatched, failed>>

NamesOutput ==
  /\ Reads /\ Argument = "NAME" /\ wait_for_output_filename
  /\ filename' = next
  /\ wait_for_output_filename' = FALSE
  /\ next' = next + 1
  /\ UNCHANGED <<arguments, status, at_least_one_file_loaded, loads, stage, block_stack, mismatched,
                 failed>>

LoadsFile(loaded) ==
  /\ Reads /\ Argument = "NAME" /\ ~wait_for_output_filename
  /\ at_least_one_file_loaded' = (at_least_one_file_loaded \/ loaded)
  /\ status' = loaded
  /\ loads' = Append(loads, loaded)
  /\ next' = IF loaded THEN next + 1 ELSE next
  /\ UNCHANGED <<arguments, wait_for_output_filename, filename, stage, block_stack, mismatched,
                 failed>>

\* Mutant: the block of loading is left open unless compile is called.
EndsLoading_PopsOnSuccess ==
  /\ stage = "load" /\ (~status \/ next > Len(arguments))
  /\ status' = (status /\ ~wait_for_output_filename /\ at_least_one_file_loaded)
  /\ IF status' THEN profiler_pop("Load and process") ELSE UNCHANGED <<block_stack, mismatched>>
  /\ stage' = IF status' THEN "compile" ELSE "end"
  /\ next' = 1
  /\ UNCHANGED <<arguments, at_least_one_file_loaded, wait_for_output_filename, loads, filename,
                 failed>>

\* Behind the loop: compile is called, or not.
EndsLoading ==
  /\ stage = "load" /\ (~status \/ next > Len(arguments))
  /\ profiler_pop("Load and process")
  /\ status' = (status /\ ~wait_for_output_filename /\ at_least_one_file_loaded)
  /\ stage' = IF status' THEN "compile" ELSE "end"
  /\ next' = 1
  /\ UNCHANGED <<arguments, at_least_one_file_loaded, wait_for_output_filename, loads, filename,
                 failed>>

--------------------------------------------------------------------------------
(* compile.                                                                       *)

Push(name) == [op |-> "push", name |-> name]
Pop(name) == [op |-> "pop", name |-> name]

\* A phase; when it fails its block is popped, and compile returns.
Phase(name) == [op |-> "try", name |-> name, pops |-> TRUE]

\* A test behind the block of the phase, which returns only.
Check(name) == [op |-> "try", name |-> name, pops |-> FALSE]

\* What compile does to the profiler, with the places at which it may return.
Steps ==
  <<Push("Internal"),
    Push("Preload all files"), Phase("Preload all files"), Pop("Preload all files"),
    Push("Analyze"), Phase("Analyze"), Pop("Analyze"),
    Push("IR gen"), Pop("IR gen"), Check("is_valid"),
    Push("Interpretation"), Pop("Interpretation"), Check("interp_state"),
    Pop("Internal"),
    Push("External"),
    Push("Nasm backend generation"), Pop("Nasm backend generation"),
    Push("Assembling"), Phase("Assembling"), Pop("Assembling"),
    Push("Linking"), Phase("Linking"), Pop("Linking"),
    Pop("External")>>

Compiles == stage = "compile" /\ next <= Len(Steps)

Pushes ==
  /\ Compiles /\ Steps[next].op = "push"
  /\ profiler_push(Steps[next].name)
  /\ next' = next + 1
  /\ UNCHANGED <<mainVars, stage, failed>>

Pops ==
  /\ Compiles /\ Steps[next].op = "pop"
  /\ profiler_pop(Steps[next].name)
  /\ next' = next + 1
  /\ UNCHANGED <<mainVars, stage, failed>>

Succeeds ==
  /\ Compiles /\ Steps[next].op = "try"
  /\ next' = next + 1
  /\ UNCHANGED <<mainVars, stage, block_stack, mismatched, failed>>

Fails ==
  /\ Compiles /\ Steps[next].op = "try"
  /\ IF Steps[next].pops THEN profiler_pop(Steps[next].name)
                         ELSE UNCHANGED <<block_stack, mismatched>>
  /\ failed' = TRUE
  /\ stage' = "end"
  /\ UNCHANGED <<mainVars, next>>

Compiled ==
  /\ stage = "compile" /\ next > Len(Steps)
  /\ stage' = "end"
  /\ UNCHANGED <<mainVars, next, block_stack, mismatched, failed>>

\* main pops its own block, and returns zero, whether compile failed or not.
PopsCompilation ==
  /\ stage = "end"
  /\ profiler_pop("Compilation")
  /\ stage' = "popped"
  /\ UNCHANGED <<mainVars, next, failed>>

Ends ==
  /\ stage = "popped"
  /\ profiler_end
  /\ stage' = "done"
  /\ UNCHANGED <<mainVars, next, failed>>

DriverNext ==
  \/ StopsAtOption \/ TakesOption \/ NamesOutput \/ EndsLoading
  \/ \E loaded \in BOOLEAN : LoadsFile(loaded)
  \/ Pushes \/ Pops \/ Succeeds \/ Fails \/ Compiled
  \/ PopsCompilation \/ Ends

DriverSpec == DriverInit /\ [][DriverNext]_driverVars

--------------------------------------------------------------------------------
(* Properties.                                                                    *)

\* "assert(false)" behind a comparison of the names (src/src/profiler.cpp:90) and
\* "assert(profiler_ctx.block_stack.count == 0)" (src/src/profiler.cpp:99): each
\* block of the profiler is closed by its own name, and none is left at the end
\* (profiler_pop_impl, profiler_end_impl).
TimersMatch == ~mismatched /\ (stage = "done" => block_stack = <<>>)

\* The blocks of the profiler are closed in the order they were opened in, each by
\* its name, and none is left, on every way through main and compile on which no
\* phase fails: with options that end the loop, files that do not load, names that
\* are missing, and all the phases (main, compile).
TimersMatchOnSuccess == ~failed => TimersMatch

\* The arguments an output is named by: the first name behind --output.
IsOutputName(i) ==
  /\ arguments[i] = "NAME"
  /\ \E j \in 1 .. i - 1 : /\ arguments[j] = "OUTPUT"
                           /\ \A k \in j + 1 .. i - 1 : arguments[k] # "NAME"

\* What was given makes sense: no argument is an unknown option or a question, each
\* name is a file that loads, or names the output, there is a file, and every
\* --output has its name.
MakesSense ==
  LET names == {i \in DOMAIN arguments : arguments[i] = "NAME"}
      outputs == {i \in names : IsOutputName(i)}
  IN  /\ \A i \in DOMAIN arguments : arguments[i] \notin {"ERROR", "HELP", "VERSION"}
      /\ names # outputs
      /\ loads = [k \in 1 .. Len(loads) |-> TRUE]
      /\ \A i \in DOMAIN arguments :
           arguments[i] = "OUTPUT" => \E j \in outputs : j > i
      /\ \A i \in outputs : (\A j \in outputs : j <= i) => filename = i

\* main compiles if, and only if, all that it was given makes sense (main,
\* parse_argument).
CompilesWhenAsked == stage \in {"compile", "done"} => (status <=> MakesSense)

================================================================================
