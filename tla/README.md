# A verification development for the Solum compiler

Solum is a compiler written in C++: it reads modules of a small language, runs
the initializers of global variables while compiling, and writes assembler for
nasm.  This directory holds TLA+ models of its parts, the TLC configurations
that check them on small instances, and theorems about them that TLAPS checks
for every value of the constants.

Paths below are relative to the repository: `src/src/ir.cpp` is the code
generator, `src/include/hashmap.h` the hash table.

## 1. The system

The compiler is one sequential process.  `main.cpp` reads the arguments,
`compile()` in `compiler.cpp` runs the phases one after the other:

    files --(scanner, parser)--> syntax trees --(analyzer)--> scopes, types
          --(ir.cpp)--> opcodes --(interop.cpp)--> values of globals
          --(nasm_backend.cpp)--> assembler --> nasm, linker

There are no threads, no messages and no persistent state.  What is hard here
is *shared mutable structure across phases*: tables that are walked over while
they grow, pointers into them that are kept, stacks that have to balance on
every path (search scopes, operands, blocks, frames), and offsets counted by
one phase that another one has to reproduce.

| Part | State it keeps | Operations | What makes it correct |
|---|---|---|---|
| hash table (`hashmap.h`) | entries with `occupied`, `deleted`; `load`, `capacity` | create, get, add (with rebuild), remove, clear, delete, clone | it is a map; lookups reach every live key; a rebuild loses nothing |
| loader (`analyzer.cpp` 1588-1689, 1912-1961) | `compiler->files`, loaded flags | preload until nothing is added | every file that is used is loaded once, in spite of the table growing under the walk |
| scanner (`scanner.cpp`) | cursor, current token | advance, peek, consume | a peek changes nothing; positions only grow |
| parser (`parser.cpp`) | trees, error flag | one function per construct, `panic_skip` | precedence; recovery makes progress |
| analyzer (`analyzer.cpp`) | scopes, `search_scopes`, `internal_deps`, `current_search_stack` | passes over global statements; expressions, statements | every pass leaves its stacks as it found them; everything definable gets defined; break and continue in loops only |
| code generator (`ir.cpp`) | code of the current function, `stack_index`, offsets in the scopes, pending jumps, `reverse` | statements, expressions, functions, globals | the code means what the source means; offsets agree with the blocks at run time |
| interpreter (`interop.cpp`) | operands, data stack, blocks, frames, return addresses, globals | one per opcode | blocks tile the memory; frames nest; calls leave one result; it ends |
| nasm backend (`nasm_backend.cpp`) | output buffer | one per opcode | same meaning as the interpreter |
| allocators (`arena.cpp`, `talloc.cpp`, `allocator.cpp`) | chunks, position | allocate, reset, free | what is handed out does not overlap and lies in the buffer |
| containers (`stack.h`, `array.h`, `list.h`) | storage, size, growth | push, pop, add, get, grow | contents survive growth; array elements never move |
| sorter (`sorter.cpp`) | the data | `quick_sort` | sorted permutation |
| profiler (`profiler.cpp`) | tree and stack of blocks | push, pop | every push has its pop |
| driver (`main.cpp`, `compiler.cpp`, `arg_parser.cpp`) | options, phase results | phases | a failed phase stops the rest |
| logger, strings, platform layers | output | formatting, system calls | nothing depends on them |

How they touch: the analyzer and the generator share `compiler->scopes` (hash
tables of `scope_entry_t`; the generator writes `offset` and `on_stack` into
them); the generator hands `ir_t` (a hash table of functions, an array of
globals) to the interpreter, which writes the globals; then
`__internal_compile_globals` is removed from the table and the backend walks
over what is left.  Nearly every phase uses the hash table, which is why it is
modelled first and proved correct.

## 2. Modules

| Module | Models | Used by |
|---|---|---|
| `Dictionary` | what a map promises | `Hashmap` |
| `Hashmap` | `hashmap_t` | `MCHashmap`, `Loader`, proofs |
| `HashmapProofs` | theorems: invariants of `Hashmap`; it implements `Dictionary` | `LoaderProofs` |
| `MCHashmap` | tables for TLC | |
| `Loader`, `MCLoader` | files of the command line and the modules they use, over `Hashmap` | `MCParts` |
| `LoaderProofs` | theorems: what is loaded, why loading fails, what stays, for every project | |
| `Scanner` | characters to tokens | `Lexemes`, `Parser` |
| `Lexemes` | what the tokens of a text are, without a cursor | `MCFrontEnd` |
| `Parser` | tokens to trees, with its recovery | `Grammar` |
| `Grammar` | how trees are written, by a table of precedence | `MCFrontEnd` |
| `MCFrontEnd` | texts and damaged programs for TLC | |
| `Analyzer` | scopes, passes, dependencies, jumps | `MCAnalyzer` |
| `AnalyzerMeaning` | lexical scoping and the flaws of a program, without the state of the analyzer | `MCAnalyzer` |
| `MCAnalyzer` | families of programs for TLC, and what the verdict on them promises | `MCParts` |
| `IrCodegen` | the code generator, a function from syntax to code | `MCIr` |
| `IrMachine` | the interpreter | `IrCode` |
| `IrCode` | which code the interpreter can be trusted with: scopes, operands and blocks that agree on every way through it | `MCIr`, proofs |
| `IrMachineProofs`, `IrVariableProofs` | theorems: memory, operands and variables of the interpreter, for all code of that kind | `NasmProofs` |
| `IrMeaning` | reference semantics of the language | `MCIr` |
| `MCIr` | generator, interpreter and reference composed over families of programs | `MCNasm` |
| `NasmMachine` | the processor with the code of the backend | `Lockstep` |
| `Lockstep` | interpreter and processor side by side, and what they agree on | `MCNasm`, `NasmProofs` |
| `NasmProofs` | theorem: the code of the backend does what the interpreter does, for all code of that kind | |
| `MCNasm` | the two over the programs both can handle | |
| `Memory` | arena and temporary buffer | `Containers` |
| `Collections` | an array and a stack as sequences | `Containers` |
| `Containers` | `list_t` as the generated text, `array_t`, `stack_t` | `MCParts` |
| `ContainersProofs` | theorems: what the allocators hand out does not overlap, the text ends, arrays and stacks implement `Collections`, for all sizes | |
| `Sorter` | `quick_sort` | `MCParts` |
| `SorterProofs` | theorem: it sorts arrays of different elements, of any length | |
| `Driver` | `main`, the phases of `compile`, the profiler | `MCParts` |
| `DriverProofs` | theorems: the blocks of the profiler, and when `main` compiles, for any number of arguments | |
| `MCParts` | instances of these, the loader and the analyzer for TLC, side by side | |

### Hashmap

`map` is the table; while `rebuild_map` runs, `old` is the local copy
`old_map`, `cursor` its loop variable, `pending` the arguments of the add that
started the rebuild and `pc = "rebuild"`.  A rebuild takes one step per entry
(`Reinsert`), each the whole nested `hashmap_add`; the nested add would start
another rebuild if the new table were over the limit, and `RebuildHasRoom` says
it never is.  `Hash` is the hash of each key, `u32` modulo the capacity as in
the code.  `create_map_if_needed` is part of get, add and remove (`Ensured`).

Two parameters open the model up: `AllocMayFail` lets a rebuild fail to allocate,
in which case the code logs and goes on; `AddAfterRemove` allows an add while
the table has tombstones.  The compiler itself never does the latter: its only
`hashmap_remove` (`compiler.cpp:109`) takes the last function it needs out of a
table nothing is added to afterwards, and `hashmap_clear` zeroes the entries.
With it, the table is not a map (run `table_removed_key`).

Not modelled: an allocation failure of the *first* table (the code then divides
by a null capacity or follows a null pointer), `hashmap_clone`, which reads one
table and fills a new one, and custom comparison functions.

### Loader

`Loader` composes `load_and_process_file` and its two callers, the loop of
`main` over the arguments and `analyzer_preload_all_files`, with `Hashmap`: its
actions contain `AddDirectly`, `StartRebuild`, `Reinsert` and `FinishAdd` of the
table `compiler->files`, and `ParseFile` looks the file up as `hashmap_get`
does.  `pair` is the copy of an entry the walk works on, `Roots` what that copy
knows of the file.  The value of an entry is "new" until `parse_file` has
filled it through its pointer.  `project` holds the program: arguments, uses
(each as the names `find_and_add_file` tries, in turn) and what is on disk.
The text of a file is abstracted to its uses and to whether it parses.  Names
are compared, not the files behind them: `x` and `./x` would be two.

The reference for it is reachability: `Reached` is the smallest set of files
closed under uses, `IsForest` says that every file of it is in order and asked
for once.  The code takes a second request for an error, so two modules cannot
use a third; `FailsForAReason` states exactly that.

### Scanner, Lexemes, Parser, Grammar, MCFrontEnd

`Scanner` has the functions of `scanner.cpp` on a cursor of index, line and
column.  `peek_token` scans and puts the whole cursor back, so the tokens of a
file are those of a row of `advance_token`, one action each.  Characters are
strings of one, words and numbers sequences of them.  `Lexemes` says what comes
out without a cursor: the text is cut into the longest lexemes, and each token
is at the place where counting newlines from the start of the file puts it.

`Parser` has one operator per `parse_` function, from a position to a tree, a
position and whether something was printed; they are recursive, as the
functions are, and one statement of the file is one action.  The binding powers
are numbers as in the code.  `Grammar` goes the other way: it writes a tree as
tokens, with brackets where a table of precedence levels asks for them, so that
`RoundTrip` compares two descriptions of the language that share nothing.

What the models show the code to do, and the properties leave room for:

* A `}` at file level is taken by nobody: `parse_file` adds ERROR roots for
  ever.  `MovesOnExceptAtBrace` says that this is the only token with that
  effect, which is why it is a property of steps and not of liveness.
* An error in a block, a list or parameters is printed, and `parse_file`
  returns success.  `x : u8 = ;` and `if x y` fail without a message.
* A TOKEN_ERROR where a statement begins ends the file as valid, and so do an
  unterminated comment or string and a zero byte.  `1.` gets its first
  character as its type.
* `a[0], b = x, y` is a list with an assignment in it, and `a, b[0] = x, y` a
  syntax error.  A unary minus accepts an empty operand.  A missing brace leaves
  a node with a null child, on which the analyzer asserts.

### Analyzer, AnalyzerMeaning, MCAnalyzer

One action per global statement of a pass, per end of a file and of a pass, and
per entry `analyze_code` visits, in any order of the table; inside them the
functions of `analyzer.cpp` on `st`, the fields of `analyzer_state_t`.  Of an
expression only the identifiers it mentions matter.  `analyze_struct`, `_union`
and `_enum` return at once in the code, so that no name is ever a type.

`AnalyzerMeaning` resolves names by the nesting of the text, lists the flaws
that are no matter of jumps (`Flawed`), and models the second search, the
one of the generator in the finished tables.  The reference is sharp where the
code is, and says what the code does where that is odd:

* Of circles of initializers those of one and two names are refused; three
  globals that need each other in a ring are accepted (`ShortCycle`).
* A name that is mentioned as the length of its own array, or after a
  declaration of several names that failed, stops a debug build.
* A name declared further down in a block is taken by the generator for uses
  before it, which the analyzer resolved further out (`Later`).

Jumps are a question of their own.  The message of the analyzer says that break and
continue stand in loops only (`JumpsInLoopsOnly`), the code refuses them in the
block of a loop and accepts them in any block nested in it, or in none: finding 5.
`RejectsForAReason` therefore asks only programs without jumps for the reason of a
rejection, while all other properties are about programs with jumps as well.

### IrMachine, IrCodegen, IrMeaning and MCIr

`IrMachine` has one action per opcode or per group of opcodes that one macro
defines.  Its variables are the fields of `interpreter_state_t`; `freeing` is
the parameter `size` of `free_memory`, whose loop is the action `FreeBlock`.
Three additions serve the properties only: `heights`, the number of operands
below the arguments of each call; the `name` of a block or opcode, the variable
it was made for; `reads`, a bound on input.  `status` tells how a run ended: a
null pointer, a trap and an address in no block are crashes in the code.

`IrCodegen` is written in the functions of `ir.cpp`, each from generator state
to generator state, because generation is sequential and its hazards are in
what it produces.  A syntax tree is a record with the fields a node type needs.
Names in a program are unique, so the search through scopes is an application
of `offset`; shadowing is therefore not modelled.  The stack `reverse` that all
lists share is modelled, and with it the null pointer the generator follows.
`compile_globals` takes the globals in a given order, which stands for the order
of the hash table.

`IrMeaning` gives values to programs without stacks or jumps.  `MCIr` compiles
families of programs and runs them:

* `RegularPrograms`: 36 expressions with one operator and every way to put them
  under a second operator, a call or an argument list; loops around seven
  bodies (nested blocks, else-if, returns, inner loops, pointers, two
  declarations at once, a call without result) with no, one or two variables
  of the loop's own, one of them an array; loops left by a break; factorial.
* `LeakySources`, `ContinueSources`, `LeftoverSources`, `OddSources`: what the
  analyzer lets through and the generator or the interpreter does not get right.
* `ListSources`: every pair of arguments with calls, array accesses and sums
  of them up to depth two.

`IrCode` is the seam between the generator and the interpreter.  The interpreter
checks nothing of what it is given: `IR_FREE` counts words, `IR_RET` looks at no
operands, a variable is an offset.  `IrCode` says what code has to be like for
that to work, as a verifier of byte code does: to every index that can be reached
a *view* is assigned, the same whatever way leads there, and each opcode says what
it does to it.  There are three views, from weak to strong:

* `Scoped`: the sizes of the frame in front of each open scope.  A way may bring
  more than that (what a break leaves behind), never less.
* `Balanced`: the number of operands of the running call.
* `Tidy`: the blocks of the frame, with the name of the variable of each.

The run `ir_any` checks `CodeIsSound`: all code the generator emits is `Scoped`,
and that of `BalancedSources` is `Balanced` and `Tidy` (`Views` in `MCIr` follows
the code to find the views).  The theorems of section 5 are about every program
that is, whoever generated it.  A program that leaves the value of an expression
statement behind is not `Balanced`: the code is wrong there (section 4), and no run
is about it.

### NasmMachine, Lockstep, MCNasm

`NasmMachine` is what a processor does with the text written for an opcode.  It
has one stack, `memory` with `rsp` and `rbp`, for variables, saved frames and
return addresses, and operands of its own at `r14`.  An address is a depth, the
number of words pushed before it; words remember whether they are a number, an
address or a return address, so that a confusion of them would show.

`Lockstep` runs it with `IrMachine`: whenever an initializer calls a
function, the processor enters it as `mainCRTStartup` enters `main`.
`BackendAgrees` is the relation of the two: same opcode, same operands, every
variable at its place from `rbp`, and `rsp` behind the last block, plus two
words for every call.  It is an invariant of every reachable pair of states, so
each action of one machine is simulated by the other.

An address of the interpreter is an index of its data stack, one of the processor
a place between saved frames.  The two are only comparable as long as a program
uses pointers as the language means them, and `PointersBehave` says what that is:
no variable and no operand keeps the address of a variable that is gone, nothing is
computed with addresses, a value is read through the address of a variable of one
word.  `Native_` is what the backend needs of a program besides: constants that fit
in an instruction, no function with the label of the startup code, and neither
variables nor stores in the function that computes the globals, which the processor
never runs.  `PortablePrograms` are
`RegularPrograms` and programs with input, pointers to pointers, and divisions
that stop.  Outside of them the two differ: the backend really reads and
stores globals, has no IR_SETUP_GLOBAL (an assertion), divides by zero with a
trap where the interpreter yields 0, zeroes only the last word of a block,
takes constants of 32 bits, and counts array elements in bytes, eight apart,
which the interpreter takes for words (`ir.cpp:397`: "it breaks interop rn").
A call of any other external function than `getchar`, `putchar` and
`debug_break` is an undefined label, and `compile` ignores whether the backend
was content.

### Memory, Containers, Sorter, Driver, MCParts

`Memory`: `arena_allocate` calls itself for the next chunk, one step per call
with `request` as its arguments.  `temp_allocate` warns about a wrap *before* it
moves the position, and the warning allocates in the same buffer: `calls` is
the stack of these nested calls.  What follows from it: the block that crosses
the end is handed out where it crosses it; it is always longer than the warning,
because for a shorter one the warning does not fit either and warns about itself
until the stack overflows; it is not zeroed; and a request for exactly the rest
leaves the position at 0.  One for the whole buffer behind another leaves the position
at the end of the buffer, which the code asserts never happens (section 4); the model
goes on as a build without assertions does.

`Containers` has the text of the backend (`list_allocate`, `list_fill`,
`list_grow`, alone in an arena of `Memory`), and `array_t` and `stack_t`, which
implement `Collections`.  `compile` takes the length of the text with
`c_string_length`, and nothing writes a zero behind it.  `TextIsTerminated` says
why that works: `list_allocate` grows only when the text does not fit at all, so
it may fill its block exactly; but each block is twice the one before, the chunks
of the arena are too, and the first chunk is 16 times the first block, so that no
block ever ends where its chunk does.  A byte of memory follows that was never
handed out.  (`ContainersAssumption` names the ratio of 1024 and PG(4), 16.)  The walk
of `array_t` over its entries is `Before`, the elements in front of each entry, and
`Locate`, the first entry the walk stays in.

`Sorter` is the loop of `quick_sort`, one comparison per step, and its two calls
as a list of parts.  Elements that are equal are stepped over without following
the pivot: 0, 1, 0 stays as it is.  So `SortsDistinct`, which passes, asks for the
order of different elements only, and for all arrays that nothing is lost; the tests
expect arrays with equal elements in order as well (section 4).

`Driver` reads every list of up to four arguments, then runs the phases of
`compile`, each of which may fail, over the stack of the profiler.  A failed
phase returns with an outer block open, which `main` then closes in place of its
own: `TimersMatch`, what the assertions of the profiler say, is violated (finding
6), and `TimersMatchOnSuccess` says that this is the only way to it.  `main`
returns 0 in any case.

## 3. Runs

| Run | Configuration | Shows |
|---|---|---|
| `table` | `MCHashmap.cfg` | 3 keys, 2 values: table is a `Dictionary`, keys unique, rebuild has room and keeps pairs |
| `table_any_order` | `MCHashmapAnyOrder.cfg` | adds after removes and failing rebuilds: load exact, lookups right |
| `table_removed_key` | `MCHashmapRemove.cfg` | violation: a removed key is still there |
| `front_end` | `MCFrontEnd.cfg` | texts are cut into lexemes, programs are read as written, nothing is lost silently, recovery stays in its statement |
| `parts` | `MCParts.cfg` | loader: the walk over a growing table loads everything, fails only with a reason, ends; analyzer: what is accepted is sound, what is rejected without a jump is flawed, two passes do, the generator resolves as the analyzer did; allocators, text, containers, sorting, profiler and arguments |
| `analyzer_jumps` | `MCPartsJumps.cfg` | violation: a break outside of any loop is accepted, one in the block of a loop refused |
| `ir_meaning` | `MCNasm.cfg` | regular programs mean what they should and end, and the backend's code does the same |
| `ir_any` | `MCIrAny.cfg` | memory and frames stay in order for all families; the generator emits only code the theorems apply to; which programs crash it |
| `ir_break` | `MCIrBreak.cfg` | violation: variables after a loop left by break |
| `ir_continue` | `MCIrContinue.cfg` | violation: continue leaves the loop |
| `ir_globals` | `MCIrGlobals.cfg` | violation: globals at compile time |
| `driver_timers` | `MCPartsTimers.cfg` | violation: blocks of the profiler after a phase that failed |

`parts` is one run for several components that share no state while they run: `part`
is chosen in the initial state, the others stand still, so its states are those of each
of them alone, one after the other.  (The parts that do share state have modules that
compose them: `Loader` with `Hashmap`, the text with its arena, `Lockstep`.)

Bounds.  Tables have 1, 2, 4 or 8 slots (`StandardSize` is 2 instead of 16).
The hashes put two keys on the last slot, so probes wrap, and a third on the
first, so runs overlap; three keys fill a table of four up to the point where
the next add rebuilds, and a table of one and of two over it.  Loading: three
files and a name that is never there, up to two uses in the first file and one
in the others; the table starts with two slots, so the third file makes it grow
during the walk, and the hashes put files in front of the walk and behind it.

A word has 6 bits, so products and shifts overflow, while the values of
`RegularPrograms` stay inside, where `IrMeaning` is defined; a constant in an
instruction has 4 (32 of 64 in the program), and portable programs have no
longer ones.  `GLOBALS_OFFSET` (24) is above the data stack of every program,
as 0x20000000 is in the code.  `MaxCalls` is never reached (factorial needs 5).
An array has 2 words instead of 10000.

The scanner reads every text of seven alphabets, each with what one rule of the
scanner cares about (comments, numbers, keywords, fractions, strings,
operators, blanks), up to the length at which that rule can be entered, left
and entered again (3 to 7).  Identifiers have at most 3 characters
(`MAX_IDENT_SIZE` 4), constants 3 digits (`MAX_INT_CONST_SIZE` 5) in words of 3
bits, so each limit is passed and the values wrap.  The parser reads all
operators under all levels, on both sides, and every statement form, intact and
with each token removed or one of nine put in front of it; a file has at most
`MaxRoots` (4) statements, one more than any of these, which is where the
endless rows of ERROR are cut off.

The analyzer has the program's ten passes.  Its programs are three globals that
need each other in all ways, across two files; two statements of eleven kinds
or a nested one in a function, with the global before or after it; every type in
every place; jumps in all nestings of three.

The arena has 32 bytes, requests lie around that and go to the second and the
third chunk, with up to six blocks.  The buffer has 6 bytes and the warning 2,
so requests are shorter, longer and as long as it, and the buffer wraps more
than once; four calls deep the stack overflows.  The text grows from 2 cells to
40, through four doublings and into the second chunk.  Arrays and stacks have
up to five elements, which takes an array through its second entry, and a stack
of one through three growths.  Lists to sort: all of up to five of three values,
and all orders of five.  The runs that are violated have the bounds of `table`, of
`ir_any` (with fewer programs) and of `parts`.

Programs stop and so do the loader, the driver and the sorter, so these runs do
not check for deadlock; `Terminates` says that loading and interpreting stop by
ending.

Fairness.  `IrMachine` has weak fairness of `Next`: the loop of `interop_func`
runs until `running` is false and nothing else runs; `Lockstep` has the same for
the pair, and `Loader`, and with it `parts`, for the only thing the process does.  The table, the
allocators and the containers need none: their properties are safety, and their
caller may stop calling.  The front end is not asked to end, because with a
stray brace it does not; `MovesOnExceptAtBrace` is the step from which it would
follow otherwise, every statement leaves the position further on.

## 4. Findings

1. `hashmap_add` (hashmap.h:220) takes the first tombstone on its path without
   looking for the key behind it.  The key is then stored twice, and removing
   it brings the older value back, against the tests (hashmap.cpp:117).
2. `break` (ir.cpp:651) frees the variables of its own block only.  With the
   analyzer's rules a break sits in a nested block, so every variable the loop
   body declares before it leaks; `read_number` of the core module does so.
   Variables declared after the loop are then read from the leaked word.
3. `continue` is patched like `break` (ir.cpp:630) and leaves the loop.
4. `IR_PUSH_GLOBAL` (interop.cpp:195) pushes the offset of the global, and
   `IR_STORE` (interop.cpp:244) pushes a global instead of storing to one, so
   functions run at compile time neither see nor change globals.
5. The check of a jump in a block (analyzer.cpp:1731) is the wrong way round, and
   `in_loop` is not handed on to the statements of a block: `{ break; }` outside of
   any loop is accepted, `while c { break; }` refused as "outside of loop".
6. A phase that fails (compiler.cpp:80) leaves a block of the profiler open.  `main`
   closes it under the name of its own, and the end finds one too many; both are
   assertions (profiler.cpp:90, 99).

Four more disagreements came up that no run looks for; properties and families of
programs leave room for them as said:

* An expression statement (ir.cpp:663) leaves its value on the operand stack, under
  the result of the function.  With `f` doing so, `f(1) - 2` subtracts that value,
  although the operands of an operator are its left and its right one (ir.h:53).
  `BalancedSources`, which `OperandsBalance` and the operands in `CodeIsSound` are
  about, has no such statement.
* A function with a result that ends without a return (ir.cpp:724) is accepted, and
  executing it at compile time ends in IR_INVALID, where the interpreter has
  `assert(false)` (interop.cpp:299).  `ReturnsClean` is about runs that end otherwise.
* A request for all of the temporary buffer that wraps (talloc.cpp:79) leaves the
  position at its end, and the next request or reset fails
  `assert(TEMP_MEM_SIZE > position)` (59 and 90).  `TempBlocksApart` holds all the same.
* `quick_sort` (sorter.cpp:90) steps over equal elements without exchanging them or
  following the pivot: 0, 1, 0 stays as it is.  The tests expect arrays with equal
  elements in order (142) and pass, on ones it happens to sort.  `SortsDistinct` asks
  no order of equal elements.

`ir_any` passes and still tells of a bug: `f(a, g(b))` crashes the generator,
`f(g(b), a)` does not (`CrashesOnLateLists`).  No comment, test or assertion of the
repository says otherwise, so the property says for which programs the code does so,
and it would have to change with the code.  For the other oddities section 2 lists no
statement that contradicts them was found either, except that some programs which are
wrong anyway stop a debug build with an assertion of the analyzer: when a missing brace
left a null child, and when a name is mentioned as the length of its own array or after
a declaration that failed (`RejectsForAReason` has `st.asserted` for the last two).

## 5. Proofs

All proofs are checked by tlapm without assumptions other than the named ones
in the modules: sizes are positive, zero is a key and a value, hashes are
natural numbers, names of files are finitely many.  TLC evaluates them in the runs of
the modules that state them.

`HashmapProofs` proves one invariant after the other, each from those before:

* `TypeCorrect`: types of all variables.
* `LoadCountsLiveEntries`: `load` is the cardinality of the live slots.  An
  insertion adds one slot to that set, a removal takes one out; the unsigned
  `load--` cannot wrap because the removed slot was counted.
* `NoProbeBreaks`: no unused slot on the path of a live key.  Insertion lands
  on the first free slot of the path, so everything in front is occupied, and no
  action clears `occupied` except by clearing the table.
* `LookupCorrect`: from that, the least offset at which a lookup stops exists
  and is at the key.
* `RebuildNeverFull`: the new table of twice the size holds at most as many
  entries as the cursor has passed; needs `LoadExact` and that the old table has
  at most `capacity` live slots.
* `KeysStoredOnce` (assuming no add after a remove): the probe stops at the key
  before it stops at a free slot.  The strengthening is that a table that is
  added to has no tombstone, together with `Reachable`.

* `RebuildCopiesPairs` (same assumption), and from it `TableIsDictionary`: under
  the mapping `dict <- Contents(Current)` every step of a rebuild is a stutter
  except the last, which is the abstract add.

`LoaderProofs` proves three theorems about `Loader`, for every set of projects over
finitely many names, every hash and every size of the table:

* `LoadsAll`: `LoadsEverything`; `FailuresHaveReasons`: `FailsForAReason`;
  `ParsedStay`: `ParsedFilesStay`.

It takes the lemmas of `HashmapProofs` for the table of files (`P`, an instance whose
assumptions `TableConstants` shows to hold) and turns them into what each call does to
the set of pairs the table stores: an add that is `Added`, at once or at the end of a
rebuild, puts the new file there unless it is there already, a rebuild changes nothing,
`parse_file` changes one value.  From there on the slots matter in one place only.
The inductive invariant `LoaderInv` says:

* all files but the one that is being loaded are parsed (`Adding`), so that the copy of
  an entry the walk works on is never out of date (`AtNode`);
* no more is loaded than the program needs (`Needed`), and as long as nothing went wrong
  every argument and node so far has its file, each file asked for once (`WellSoFar`):
  a file that is not there was not asked for (`FirstRequest`), one that is there is
  asked for a second time (`SecondRequest`), which counts against `IsForest`
  (`HasReason`);
* while `not_finished` is unset nothing was added since the walk began, so no entry
  moved, and the nodes of all live slots behind it are done (`WalkedOver`).  A step that
  adds a file sets `not_finished`: what it puts behind the walk is left to the next one.

When a walk ends with the flag unset the loaded files are closed under uses, hence all
of `Reached`.  No theorem needs a bound on the table: where `MaxCapacity` stops a
rebuild the run only ends there.

`ContainersProofs` proves two theorems about `MemorySpec`, in which requests have any
size, for every size of the arena, the buffer and the warning:

* `ArenaIsSound`: `ArenaBlocksApart`.  A block never moves, and the ones of a
  chunk lie in front of its `index`, which only grows (`BlocksBehindIndex`); a new
  one begins there.  Chunks are only appended, so the places of old blocks keep
  their meaning.
* `TemporaryIsSound`: `TempBlocksApart`.  The strengthening is about the stack of
  nested calls: all but the innermost have warned, from the position that is
  still the current one, and their warnings are of `WarningSize` (`CallsNest`);
  blocks of the current lap lie in front of the position (`BlocksInFront`).  A
  warning that fits has moved the position when its caller goes on, but that one
  then sets it anew and begins another lap; one that does not fit warns in turn,
  and none of these calls returns before the innermost has, so that the only
  block that crosses the end is longer than the warning.

and one about each half of `Containers`:

* `TextEnds`: `TextIsTerminated` of `TextSpec`, for every initial size of the text
  and writes of any length, provided that the first chunk is 16 times that size.
  `TextInv` has `ArenaInv`, the shape of the list (`TextOK`) and where its blocks are
  (`Placed`).  That is the argument the code leaves to chance: between two requests the
  block of size `s` is the last of the last chunk, and that one either is the first
  chunk, with `2s - TextSize` of its `16 TextSize` used, or holds this block only and is
  twice as large (`Settled`); a chunk that was just appended is empty and four times as
  large (`Opened`); and no earlier chunk has room for the next block (`NoRoomBefore`),
  so that the text never goes back into one.
* `CollectionsAreCollections`: `ImplementsCollections` of `CollectionsSpec`, for every
  initial size and any number of elements, the refinement step by step.
  `CollectionsInv` says that a living array has at least `count` places and can grow, and
  that a stack's `grow_size` is twice its data (`ArrayReady`, `StackReady`).  What carries
  the proof is the place of an index: the walk stays in an entry (`Located`), where
  the elements in order have their element of that index (`FlatAtPlace`), so that
  `array_add` changes the element behind the last one and no other (`Added`), in an
  entry it may have appended.  `Before` and `FlattenSeq` are defined by recursion over
  the entries: that such functions exist, and what they do (`BeforeGoesUp`,
  `FlatHolds`), is proved from least elements of sets of numbers (`LeastNumber`,
  `Induction`), which the well-founded order of `Nat` has.

Two modules prove what holds of the interpreter (`IrMachine`) for every program
whose code is as `IrCode` says, of any size, for all input, any depth of calls and
any width of words.  `CodeIsSound` is what ties this to the generator: TLC checks it
of the families of programs, so the hypotheses are met, and by all the code the
runs know.

* `MemoryIsSound`, `ReturnsAreClean` (`IrMachineProofs`; programs are `Scoped`):
  `MemoryNests`, `ReturnsClean`.  The inductive invariant `MemoryInv` says that the
  blocks tile the data stack (`Tiles`), that each frame begins where a block does
  and not before the one below it (`FramesNest`), and that in every running call,
  the suspended ones included, the levels of the scopes the code knows of at that
  opcode are ends of blocks inside the frame of the call (`FramesPlaced`).  A call
  that has its frame holds one more than it has return addresses, and so on down the
  stack.  The invariant has to speak of the middle of `free_memory` as well, where
  blocks are gone that the opcode has not finished with: `Words` is what will be left.
* `OperandsAreBalanced` (`IrMachineProofs`; programs are `Balanced`):
  `OperandsBalance`.  `OperandsPlaced` gives each call of the stack the number of
  operands its code says, above the height it was called at; a suspended call has
  already given up its arguments and waits for its result.  The theorem assumes
  `[]StoresNoGlobal` of the run: a store to a global pushes where it should have
  stored (finding 4), which no generator can count.
* `FreesAreWhole`, `VariablesAreFound` (`IrVariableProofs`; programs are `Scoped` and
  `Tidy`): `FreesWholeBlocks`, `VariablesResolve`.  On top of `MemoryInv`, the blocks
  between two frames are exactly those the code says, in their order, moved by the
  place of the frame (`BlocksPlaced`), and what is being given back ends where a block
  begins.  A loop left by a break in the sense of finding 2 is not `Tidy`.

`NasmProofs` proves `BackendIsRight`: `BackendAgrees` of `BothSpec`, for every program
that is `Scoped`, `Tidy`, `Balanced` and `Native_`, for all input, any depth of calls
and any width of words, and for runs of which `[]PointersBehave` holds.  That last one
cannot follow from the code: it is about what the program does with its pointers, as in
C, and TLC checks it of all runs of `PortablePrograms`.

The inductive invariant `BackendInv` has `VariablesInv`, `OperandsInv` as long as no
exception stopped the processor, and `NativeInv`, whose core is `Linked`: the words of
the processor's stack are, each at a depth of its own (`PlacesApart`), the variables,
the saved `rbp` of every frame (`Base`) and the return address of every call
(`ReturnAt`).  The depth of a word of the data stack is its index and two more for each
frame that begins at it or in front of it (`DepthIn`); it rises with the index, so that
different words have different depths (`DepthsDiffer`), and pushing a frame changes the
depth of nothing below.  A word of the processor *stands firmly* for a value of the
interpreter (`Firm`) if it is that number, or the address of the depth of that index.
With `Firm` instead of the `Stands` of the property, a word keeps its meaning while
frames and blocks come and go; what goes is no longer pointed to, which is where
`PointersBehave` is needed in the state behind the step (`FreesTogether`,
`FramePopTogether`).  The processor gives a block back at once, the interpreter one
round of `free_memory` at a time, so `Linked` compares with `Words`, what will be left.
A variable is found at `rbp + arg` because the offsets the code counts are those of its
blocks (`BlocksPlaced`) and rbp is the base of the last frame (`VariablePlace`).  There
is one lemma per opcode, or group of them (`PushesTogether` to `FramePopTogether`).

`DriverProofs` proves two theorems about `DriverSpec`, for any number of arguments:

* `TimersAreMatched`: `TimersMatchOnSuccess`.  `OpenAt` says which blocks are open in
  front of each of the 24 steps of `compile`; every step takes one to the next, and a
  phase that fails leaves main's blocks and one half (`TimersInv`, which also says what
  main makes of that one).
* `CompilesIfItMakesSense`: `CompilesWhenAsked`.  The flags of `main` are what a look
  back at the arguments read so far says: `wait_for_output_filename` is set while the
  last `--output` has no name behind it (`ReadSoFar`, `ArgumentsInv`).

`SorterProofs` proves `SortsDistinctArrays`: `SortsDistinct` of `SorterSpec`, for sets
of integer arrays of any length.  The array is always the given one under a bijection
of its indices (`Rearranged`), which keeps the number of occurrences and, when the
given elements differ, the difference.  Two elements are in order or in the same part
that is still to be sorted (`OrderedApart`); exchanging inside a part changes nothing
of that.  In a running call the elements before `begin_index` are less than the pivot,
those behind `end_index` greater, and the pivot, followed by its index, is between
(`Partitioned`), so where the indices meet the part is divided at it.  `StepBoth`,
which breaks this for equal elements, never fires for different ones.

The theorems about the allocators, the containers, the driver and the sorter are about
their own specifications, whose next-state relations the run `parts` puts side by side.

Only model-checked: that loading ends (`Terminates`); what is recursive over data (scanner,
parser, analyzer, generator, and with them `CodeIsSound` and `GlobalsHaveMeaning`), whose
modules have recursive operators, which the provers do not take; `PointersBehave`,
which is a property of the programs; and all liveness.

## 6. Not modelled, and the plan

* Globals and array elements in the code of the backend: the interpreter, which
  the backend is compared with, gives them another meaning (finding 4).  They
  would need a reference of their own.  The stack probe is an idiom of the
  operating system.
* Generator: member access, constants that are not integers, types used as
  expressions (IR_INVALID or nothing is emitted), functions declared in the body
  of a function, shadowed names (covered from
  the analyzer's side by `GeneratorAgrees`).
* Values of floating point constants, the text of messages, `get_expression_string`.
* Modules that reach themselves over a parent directory, under a new name each
  time: names in `Loader` are a finite set.
* Creation that fails for lack of memory: the code goes on with null pointers.
* Formatting, colors, consoles, files and processes (`logger.cpp`, `strings.cpp`,
  the platform layers), and the visualisation of the profile.

