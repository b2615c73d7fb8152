------------------------------ MODULE DriverProofs ------------------------------
(***************************************************************************)
(* Proofs about the driver, for any number of arguments: what compile and    *)
(* main do to the blocks of the profiler, and which arguments are compiled.  *)
(***************************************************************************)
EXTENDS Driver, SequenceTheorems, TLAPS

--------------------------------------------------------------------------------
(* The blocks of the profiler.                                                    *)

\* A block is opened over the others.
Over(stack, name) == Append(stack, name)

LEMMA OverStack ==
  ASSUME NEW S
  PROVE  \A stack \in Seq(S), name \in S :
           /\ Over(stack, name) \in Seq(S)
           /\ Front(Over(stack, name)) = stack /\ Last(Over(stack, name)) = name
           /\ Len(Over(stack, name)) = Len(stack) + 1
<1> TAKE stack \in Seq(S), name \in S
<1>1. SubSeq(Append(stack, name), 1, Len(stack)) = stack
  BY SMTT(20)
<1> QED BY <1>1 DEF Front, Last, Over

LEMMA OverElements ==
  ASSUME NEW S, NEW stack \in Seq(S), NEW name \in S
  PROVE  /\ Over(stack, name) \in Seq(S) /\ Len(Over(stack, name)) = Len(stack) + 1
         /\ \A i \in 1 .. Len(stack) : Over(stack, name)[i] = stack[i]
         /\ Over(stack, name)[Len(stack) + 1] = name
  BY AppendProperties DEF Over

LEMMA ThreeBlocks ==
  ASSUME NEW a, NEW b, NEW c
  PROVE  Over(Over(<<a>>, b), c) = <<a, b, c>>
<1> DEFINE S == {a, b, c}
           one == <<a>>
           two == Over(one, b)
           three == Over(two, c)
<1>1. a \in S /\ b \in S /\ c \in S
  OBVIOUS
<1>2. one \in Seq(S) /\ Len(one) = 1 /\ one[1] = a
  OBVIOUS
<1> HIDE DEF S, one
<1>3. two \in Seq(S) /\ Len(two) = 2 /\ two[1] = a /\ two[2] = b
  <2>1. /\ two \in Seq(S) /\ Len(two) = Len(one) + 1
        /\ \A i \in 1 .. Len(one) : two[i] = one[i]
        /\ two[Len(one) + 1] = b
    BY <1>1, <1>2, OverElements
  <2> HIDE DEF two
  <2> QED BY <2>1, <1>2
<1> HIDE DEF two
<1>4. /\ three \in Seq(S) /\ Len(three) = 3
      /\ three[1] = a /\ three[2] = b /\ three[3] = c
  <2>1. /\ three \in Seq(S) /\ Len(three) = Len(two) + 1
        /\ \A i \in 1 .. Len(two) : three[i] = two[i]
        /\ three[Len(two) + 1] = c
    BY <1>1, <1>3, OverElements
  <2> HIDE DEF three
  <2> QED BY <2>1, <1>3
<1> HIDE DEF three
<1>5. three = <<a, b, c>>
  <2>1. \A i \in 1 .. Len(three) : three[i] = <<a, b, c>>[i]
    BY <1>4
  <2> QED BY <2>1, <1>1, <1>4, SeqEqual
<1> QED BY <1>5 DEF one, two, three

\* The names of the blocks.
Names ==
  {"PROF", "Compilation", "Load and process", "Internal", "External", "Preload all files",
   "Analyze", "IR gen", "Interpretation", "Nasm backend generation", "Assembling", "Linking"}

\* The block of profiler_begin, with the one of main, and with the one compile
\* has opened at each of its two halves.
Outermost == <<"PROF">>
Main == Over(Outermost, "Compilation")
Half(name) == Over(Main, name)

LEMMA Halves ==
  /\ Outermost \in Seq(Names) /\ Len(Outermost) = 1 /\ Front(Outermost) = <<>>
  /\ Main \in Seq(Names) /\ Len(Main) = 2
  /\ Front(Main) = Outermost /\ Last(Main) = "Compilation"
  /\ \A name \in Names :
       /\ Half(name) \in Seq(Names) /\ Front(Half(name)) = Main
       /\ Last(Half(name)) = name
<1> DEFINE N == Names
<1>1. "PROF" \in N /\ "Compilation" \in N
  BY DEF Names
<1> HIDE DEF N
<1>2. Outermost \in Seq(N) /\ Len(Outermost) = 1
  BY <1>1 DEF Outermost
<1>3. Front(Outermost) = <<>>
  <2>1. Front(Outermost) = SubSeq(Outermost, 1, 0)
    BY <1>2 DEF Front
  <2> QED BY <2>1, <1>2
<1>4. /\ Main \in Seq(N) /\ Len(Main) = 2
      /\ Front(Main) = Outermost /\ Last(Main) = "Compilation"
  <2> HIDE DEF Outermost
  <2>1. /\ Main \in Seq(N) /\ Len(Main) = Len(Outermost) + 1
        /\ Front(Main) = Outermost /\ Last(Main) = "Compilation"
    BY <1>1, <1>2, OverStack, Zenon DEF Main
  <2> QED BY <2>1, <1>2
<1>5. ASSUME NEW name \in N
      PROVE  /\ Half(name) \in Seq(N) /\ Front(Half(name)) = Main
             /\ Last(Half(name)) = name
  BY <1>4, <1>5, OverStack DEF Half
<1> QED BY <1>2, <1>3, <1>4, <1>5 DEF N

\* The blocks before step i of compile.
OpenAt(i) ==
  CASE i \in {1, 15, 25} -> Main
    [] i \in {2, 5, 8, 10, 11, 13, 14} -> Half("Internal")
    [] i \in {16, 18, 21, 24} -> Half("External")
    [] i \in {3, 4} -> Over(Half("Internal"), "Preload all files")
    [] i \in {6, 7} -> Over(Half("Internal"), "Analyze")
    [] i = 9 -> Over(Half("Internal"), "IR gen")
    [] i = 12 -> Over(Half("Internal"), "Interpretation")
    [] i = 17 -> Over(Half("External"), "Nasm backend generation")
    [] i \in {19, 20} -> Over(Half("External"), "Assembling")
    [] i \in {22, 23} -> Over(Half("External"), "Linking")

\* What a step of compile does, said by the blocks before and behind it.
Fits(step, before, after) ==
  \/ step.op = "push" /\ after = Over(before, step.name)
  \/ step.op = "pop" /\ after = Front(before) /\ Last(before) = step.name
  \/ /\ step.op = "try" /\ step.pops /\ after = before
     /\ Front(before) \in {Half("Internal"), Half("External")}
     /\ Last(before) = step.name
  \/ /\ step.op = "try" /\ ~step.pops /\ after = before
     /\ before \in {Half("Internal"), Half("External")}

LEMMA StepsFit ==
  /\ Len(Steps) = 24 /\ OpenAt(1) = Main /\ OpenAt(25) = Main
  /\ \A i \in 1 .. 24 : Fits(Steps[i], OpenAt(i), OpenAt(i + 1))
<1>1. /\ Front(Main) = Outermost
      /\ \A name \in Names :
           /\ Front(Over(Main, name)) = Main /\ Last(Over(Main, name)) = name
           /\ \A phase \in Names :
                /\ Front(Over(Over(Main, name), phase)) = Over(Main, name)
                /\ Last(Over(Over(Main, name), phase)) = phase
  BY Halves, OverStack DEF Half
<1>2. Len(Steps) = 24
  BY DEF Steps
<1>3. OpenAt(1) = Main /\ OpenAt(25) = Main
  BY DEF OpenAt
<1>4. /\ Steps[1] = Push("Internal")
      /\ Steps[2] = Push("Preload all files")
      /\ Steps[3] = Phase("Preload all files")
      /\ Steps[4] = Pop("Preload all files")
      /\ Steps[5] = Push("Analyze")
      /\ Steps[6] = Phase("Analyze")
      /\ Steps[7] = Pop("Analyze")
      /\ Steps[8] = Push("IR gen")
      /\ Steps[9] = Pop("IR gen")
      /\ Steps[10] = Check("is_valid")
      /\ Steps[11] = Push("Interpretation")
      /\ Steps[12] = Pop("Interpretation")
      /\ Steps[13] = Check("interp_state")
      /\ Steps[14] = Pop("Internal")
      /\ Steps[15] = Push("External")
      /\ Steps[16] = Push("Nasm backend generation")
      /\ Steps[17] = Pop("Nasm backend generation")
      /\ Steps[18] = Push("Assembling")
      /\ Steps[19] = Phase("Assembling")
      /\ Steps[20] = Pop("Assembling")
      /\ Steps[21] = Push("Linking")
      /\ Steps[22] = Phase("Linking")
      /\ Steps[23] = Pop("Linking")
      /\ Steps[24] = Pop("External")
  BY DEF Steps
<1>5. /\ OpenAt(1) = Main
      /\ OpenAt(2) = Half("Internal")
      /\ OpenAt(3) = Over(Half("Internal"), "Preload all files")
      /\ OpenAt(4) = Over(Half("Internal"), "Preload all files")
      /\ OpenAt(5) = Half("Internal")
      /\ OpenAt(6) = Over(Half("Internal"), "Analyze")
      /\ OpenAt(7) = Over(Half("Internal"), "Analyze")
      /\ OpenAt(8) = Half("Internal")
      /\ OpenAt(9) = Over(Half("Internal"), "IR gen")
      /\ OpenAt(10) = Half("Internal")
      /\ OpenAt(11) = Half("Internal")
      /\ OpenAt(12) = Over(Half("Internal"), "Interpretation")
      /\ OpenAt(13) = Half("Internal")
      /\ OpenAt(14) = Half("Internal")
      /\ OpenAt(15) = Main
      /\ OpenAt(16) = Half("External")
      /\ OpenAt(17) = Over(Half("External"), "Nasm backend generation")
      /\ OpenAt(18) = Half("External")
      /\ OpenAt(19) = Over(Half("External"), "Assembling")
      /\ OpenAt(20) = Over(Half("External"), "Assembling")
      /\ OpenAt(21) = Half("External")
      /\ OpenAt(22) = Over(Half("External"), "Linking")
      /\ OpenAt(23) = Over(Half("External"), "Linking")
      /\ OpenAt(24) = Half("External")
      /\ OpenAt(25) = Main
  BY DEF OpenAt
<1>6. ASSUME NEW before, NEW name
      PROVE  Fits(Push(name), before, Over(before, name))
  BY DEF Fits, Push
<1>7. ASSUME NEW name \in Names
      PROVE  /\ Fits(Pop(name), Half(name), Main)
             /\ \A half \in Names : Fits(Pop(name), Over(Half(half), name), Half(half))
  BY <1>1 DEF Fits, Pop, Half
<1>8. ASSUME NEW half \in {"Internal", "External"}, NEW name \in Names
      PROVE  Fits(Phase(name), Over(Half(half), name), Over(Half(half), name))
  <2>1. half \in Names
    BY DEF Names
  <2> QED BY <1>1, <2>1 DEF Fits, Phase, Half
<1>9. ASSUME NEW name
      PROVE  Fits(Check(name), Half("Internal"), Half("Internal"))
  BY DEF Fits, Check
<1>10. /\ Fits(Steps[1], OpenAt(1), OpenAt(2))
       /\ Fits(Steps[2], OpenAt(2), OpenAt(3))
       /\ Fits(Steps[5], OpenAt(5), OpenAt(6))
       /\ Fits(Steps[8], OpenAt(8), OpenAt(9))
       /\ Fits(Steps[11], OpenAt(11), OpenAt(12))
       /\ Fits(Steps[15], OpenAt(15), OpenAt(16))
       /\ Fits(Steps[16], OpenAt(16), OpenAt(17))
       /\ Fits(Steps[18], OpenAt(18), OpenAt(19))
       /\ Fits(Steps[21], OpenAt(21), OpenAt(22))
  BY <1>4, <1>5, <1>6 DEF Half
<1>11. /\ Fits(Steps[4], OpenAt(4), OpenAt(5))
       /\ Fits(Steps[7], OpenAt(7), OpenAt(8))
       /\ Fits(Steps[9], OpenAt(9), OpenAt(10))
       /\ Fits(Steps[12], OpenAt(12), OpenAt(13))
       /\ Fits(Steps[14], OpenAt(14), OpenAt(15))
       /\ Fits(Steps[17], OpenAt(17), OpenAt(18))
       /\ Fits(Steps[20], OpenAt(20), OpenAt(21))
       /\ Fits(Steps[23], OpenAt(23), OpenAt(24))
       /\ Fits(Steps[24], OpenAt(24), OpenAt(25))
  BY <1>4, <1>5, <1>7 DEF Half, Names
<1>12. /\ Fits(Steps[3], OpenAt(3), OpenAt(4))
       /\ Fits(Steps[6], OpenAt(6), OpenAt(7))
       /\ Fits(Steps[19], OpenAt(19), OpenAt(20))
       /\ Fits(Steps[22], OpenAt(22), OpenAt(23))
  BY <1>4, <1>5, <1>8 DEF Half, Names
<1>13. /\ Fits(Steps[10], OpenAt(10), OpenAt(11))
       /\ Fits(Steps[13], OpenAt(13), OpenAt(14))
  BY <1>4, <1>5, <1>9
<1> QED BY <1>2, <1>3, <1>10, <1>11, <1>12, <1>13

\* Which blocks are open where: with the one of loading up to compile, the ones
\* of the step inside it, and behind it the one of main, or of a half as well
\* when a phase failed.
TimersInv ==
  /\ stage \in {"load", "compile", "end", "popped", "done"}
  /\ failed \in BOOLEAN /\ mismatched \in BOOLEAN
  /\ stage = "load" =>
       ~mismatched /\ ~failed /\ block_stack = Over(Main, "Load and process")
  /\ stage = "compile" =>
       ~mismatched /\ ~failed /\ next \in 1 .. 25 /\ block_stack = OpenAt(next)
  /\ stage = "end" =>
       /\ ~mismatched
       /\ IF failed THEN block_stack \in {Half("Internal"), Half("External")}
                    ELSE block_stack = Main
  /\ stage = "popped" =>
       /\ mismatched = failed
       /\ block_stack = IF failed THEN Main ELSE Outermost
  /\ stage = "done" =>
       /\ mismatched = failed
       /\ block_stack = IF failed THEN Outermost ELSE <<>>

LEMMA TimersInit == DriverInit => TimersInv
<1> SUFFICES ASSUME DriverInit PROVE TimersInv
  OBVIOUS
<1>1. Over(Over(<<"PROF">>, "Compilation"), "Load and process")
        = <<"PROF", "Compilation", "Load and process">>
  BY ThreeBlocks, Zenon
<1> QED BY <1>1 DEF DriverInit, TimersInv, Main, Outermost

\* The steps of main before compile.
LEMMA TimersLoad ==
  ASSUME TimersInv,
         StopsAtOption \/ TakesOption \/ NamesOutput \/ EndsLoading
           \/ \E loaded \in BOOLEAN : LoadsFile(loaded)
  PROVE  TimersInv'
<1>1. CASE EndsLoading
  <2>1. stage = "load" /\ ~mismatched /\ ~failed /\ failed' = failed
        /\ block_stack = Over(Main, "Load and process")
    BY <1>1 DEF EndsLoading, TimersInv
  <2>2. Front(block_stack) = Main /\ Last(block_stack) = "Load and process"
    <3>1. "Load and process" \in Names /\ Main \in Seq(Names)
      BY Halves DEF Names
    <3> QED BY <2>1, <3>1, OverStack, Zenon
  <2>3. block_stack' = Main /\ mismatched' = FALSE /\ next' = 1 /\ stage' \in {"compile", "end"}
    BY <1>1, <2>1, <2>2 DEF EndsLoading, profiler_pop
  <2>4. OpenAt(1) = Main
    BY StepsFit
  <2>5. /\ stage' = "compile" => next' \in 1 .. 25 /\ block_stack' = OpenAt(next')
        /\ stage' = "end" => block_stack' = Main
    BY <2>3, <2>4
  <2>6. failed' \in BOOLEAN /\ mismatched' \in BOOLEAN
    BY <2>1, <2>3 DEF TimersInv
  <2> QED BY <2>1, <2>3, <2>5, <2>6 DEF TimersInv
<1>2. CASE ~EndsLoading
  <2>1. stage = "load" /\ UNCHANGED <<stage, block_stack, mismatched, failed>>
    BY <1>2 DEF StopsAtOption, TakesOption, NamesOutput, LoadsFile, Reads
  <2> QED BY <2>1 DEF TimersInv
<1> QED BY <1>1, <1>2

\* The steps of compile.
LEMMA TimersCompile ==
  ASSUME TimersInv, Pushes \/ Pops \/ Succeeds \/ Fails \/ Compiled PROVE TimersInv'
<1>1. /\ stage = "compile" /\ ~mismatched /\ ~failed
      /\ next \in 1 .. 25 /\ block_stack = OpenAt(next)
  BY DEF Pushes, Pops, Succeeds, Fails, Compiled, Compiles, TimersInv
<1>2. CASE Compiled
  <2>1. next = 25
    BY <1>1, <1>2, StepsFit DEF Compiled
  <2> QED BY <1>1, <1>2, <2>1, StepsFit DEF Compiled, TimersInv
<1>3. CASE Pushes \/ Pops \/ Succeeds \/ Fails
  <2>1. next \in 1 .. 24 /\ Fits(Steps[next], block_stack, OpenAt(next + 1))
    <3>1. next \in 1 .. 24
      BY <1>1, <1>3, StepsFit DEF Pushes, Pops, Succeeds, Fails, Compiles
    <3> QED BY <1>1, <3>1, StepsFit
  <2>2. next + 1 \in 1 .. 25
    BY <2>1
  <2>3. CASE Pushes
    <3>1. /\ stage' = stage /\ failed' = failed /\ mismatched' = mismatched /\ next' = next + 1
          /\ Steps[next].op = "push" /\ block_stack' = Over(block_stack, Steps[next].name)
      BY <2>3 DEF Pushes, profiler_push, Over
    <3>2. block_stack' = OpenAt(next + 1)
      BY <2>1, <3>1 DEF Fits
    <3> QED BY <1>1, <2>2, <3>1, <3>2 DEF TimersInv
  <2>4. CASE Pops
    <3>1. /\ stage' = stage /\ failed' = failed /\ next' = next + 1 /\ Steps[next].op = "pop"
          /\ block_stack' = Front(block_stack)
          /\ mismatched' = (mismatched \/ Last(block_stack) # Steps[next].name)
      BY <2>4 DEF Pops, profiler_pop
    <3>2. block_stack' = OpenAt(next + 1) /\ Last(block_stack) = Steps[next].name
      BY <2>1, <3>1 DEF Fits
    <3> QED BY <1>1, <2>2, <3>1, <3>2 DEF TimersInv
  <2>5. CASE Succeeds
    <3>1. /\ UNCHANGED <<stage, failed, mismatched, block_stack>> /\ next' = next + 1
          /\ Steps[next].op = "try"
      BY <2>5 DEF Succeeds
    <3>2. block_stack' = OpenAt(next + 1)
      BY <2>1, <3>1 DEF Fits
    <3> QED BY <1>1, <2>2, <3>1, <3>2 DEF TimersInv
  <2>6. CASE Fails
    <3>1. /\ stage' = "end" /\ failed' = TRUE /\ Steps[next].op = "try"
          /\ IF Steps[next].pops
               THEN /\ block_stack' = Front(block_stack)
                    /\ mismatched' = (mismatched \/ Last(block_stack) # Steps[next].name)
               ELSE UNCHANGED <<block_stack, mismatched>>
      BY <2>6 DEF Fails, profiler_pop
    <3>2. block_stack' \in {Half("Internal"), Half("External")} /\ ~mismatched'
      BY <1>1, <2>1, <3>1 DEF Fits
    <3> QED BY <3>1, <3>2 DEF TimersInv
  <2> QED BY <1>3, <2>3, <2>4, <2>5, <2>6
<1> QED BY <1>2, <1>3

\* The steps of main behind compile.
LEMMA TimersEnd ==
  ASSUME TimersInv, PopsCompilation \/ Ends PROVE TimersInv'
<1>1. /\ Front(Main) = Outermost /\ Last(Main) = "Compilation" /\ Len(Main) = 2
      /\ Front(Outermost) = <<>> /\ Len(Outermost) = 1
  BY Halves
<1>2. ASSUME NEW name \in {"Internal", "External"}
      PROVE  Front(Half(name)) = Main /\ Last(Half(name)) # "Compilation"
  <2>1. name \in Names
    BY DEF Names
  <2>2. Front(Half(name)) = Main /\ Last(Half(name)) = name
    BY <2>1, Halves
  <2> QED BY <2>2
<1>3. CASE PopsCompilation
  <2>1. /\ stage = "end" /\ stage' = "popped" /\ failed' = failed
        /\ block_stack' = Front(block_stack)
        /\ mismatched' = (mismatched \/ Last(block_stack) # "Compilation")
    BY <1>3 DEF PopsCompilation, profiler_pop
  <2>2. CASE failed
    BY <1>2, <2>1, <2>2 DEF TimersInv
  <2>3. CASE ~failed
    BY <1>1, <2>1, <2>3 DEF TimersInv
  <2> QED BY <2>2, <2>3
<1>4. CASE Ends
  <2>1. /\ stage = "popped" /\ stage' = "done" /\ failed' = failed
        /\ block_stack' = Front(block_stack)
        /\ mismatched' = (mismatched \/ Len(block_stack) # 1)
    BY <1>4 DEF Ends, profiler_end
  <2> QED BY <1>1, <2>1 DEF TimersInv
<1> QED BY <1>3, <1>4

\* The blocks of the profiler are closed in the order they were opened in, by their
\* names, as long as no phase fails, for any arguments (main, compile,
\* profiler_pop_impl).
THEOREM TimersAreMatched == DriverSpec => []TimersMatchOnSuccess
<1>1. DriverInit => TimersInv
  BY TimersInit
<1>2. TimersInv /\ [DriverNext]_driverVars => TimersInv'
  <2> SUFFICES ASSUME TimersInv, [DriverNext]_driverVars PROVE TimersInv'
    OBVIOUS
  <2>1. CASE UNCHANGED driverVars
    BY <2>1 DEF driverVars, TimersInv
  <2>2. CASE DriverNext
    BY <2>2, TimersLoad, TimersCompile, TimersEnd DEF DriverNext
  <2> QED BY <2>1, <2>2
<1>3. TimersInv => TimersMatchOnSuccess
  BY DEF TimersInv, TimersMatchOnSuccess, TimersMatch
<1> QED BY <1>1, <1>2, <1>3, PTL DEF DriverSpec

--------------------------------------------------------------------------------
(* The arguments.                                                                 *)

\* An --output before argument n of a has no name yet.
Unnamed(a, n) ==
  \E j \in 1 .. n - 1 : a[j] = "OUTPUT" /\ \A k \in j + 1 .. n - 1 : a[k] # "NAME"

OutputAt(a, i) == a[i] = "NAME" /\ Unnamed(a, i)

LEMMA UnnamedNext ==
  ASSUME NEW a, NEW n \in Nat, n >= 1
  PROVE  /\ ~Unnamed(a, 1)
         /\ Unnamed(a, n + 1) <=> a[n] = "OUTPUT" \/ (a[n] # "NAME" /\ Unnamed(a, n))
<1>1. ~Unnamed(a, 1)
  BY DEF Unnamed
<1>2. ASSUME Unnamed(a, n + 1), a[n] # "OUTPUT"
      PROVE  a[n] # "NAME" /\ Unnamed(a, n)
  <2>1. PICK j \in 1 .. n : a[j] = "OUTPUT" /\ \A k \in j + 1 .. n : a[k] # "NAME"
    BY <1>2 DEF Unnamed
  <2>2. j \in 1 .. n - 1 /\ n \in j + 1 .. n
    BY <1>2, <2>1
  <2>3. \A k \in j + 1 .. n - 1 : k \in j + 1 .. n
    BY <2>2
  <2> QED BY <2>1, <2>2, <2>3 DEF Unnamed
<1>3. ASSUME a[n] = "OUTPUT"
      PROVE  Unnamed(a, n + 1)
  <2>1. n \in 1 .. (n + 1) - 1 /\ \A k \in n + 1 .. (n + 1) - 1 : FALSE
    OBVIOUS
  <2> QED BY <1>3, <2>1 DEF Unnamed
<1>4. ASSUME a[n] # "NAME", Unnamed(a, n)
      PROVE  Unnamed(a, n + 1)
  <2>1. PICK j \in 1 .. n - 1 : a[j] = "OUTPUT" /\ \A k \in j + 1 .. n - 1 : a[k] # "NAME"
    BY <1>4 DEF Unnamed
  <2>2. j \in 1 .. (n + 1) - 1 /\ \A k \in j + 1 .. (n + 1) - 1 : k = n \/ k \in j + 1 .. n - 1
    BY <2>1
  <2> QED BY <1>4, <2>1, <2>2 DEF Unnamed
<1> QED BY <1>1, <1>2, <1>3, <1>4

AllLoaded(outcomes) == outcomes = [k \in 1 .. Len(outcomes) |-> TRUE]

LEMMA AllOfThem ==
  ASSUME NEW s \in Seq(BOOLEAN)
  PROVE  AllLoaded(s) <=> \A k \in 1 .. Len(s) : s[k] = TRUE
<1>1. s = [k \in 1 .. Len(s) |-> s[k]] /\ Len(s) \in Nat
  OBVIOUS
<1> QED BY <1>1 DEF AllLoaded

Stopping == {"ERROR", "HELP", "VERSION"}

\* What main knows of the n - 1 arguments it has read.
ReadSoFar(a, n) ==
  /\ \A i \in 1 .. n - 1 : a[i] \notin Stopping
  /\ AllLoaded(loads)
  /\ wait_for_output_filename <=> Unnamed(a, n)
  /\ at_least_one_file_loaded <=> \E i \in 1 .. n - 1 : a[i] = "NAME" /\ ~OutputAt(a, i)
  /\ \A i \in 1 .. n - 1 :
       a[i] = "OUTPUT" => Unnamed(a, n) \/ \E j \in 1 .. n - 1 : j > i /\ OutputAt(a, j)
  /\ \A i \in 1 .. n - 1 :
       OutputAt(a, i) => filename \in i .. n - 1 /\ OutputAt(a, filename)

ArgumentsInv ==
  /\ arguments \in Seq(Arguments) /\ loads \in Seq(BOOLEAN)
  /\ status \in BOOLEAN /\ wait_for_output_filename \in BOOLEAN
  /\ at_least_one_file_loaded \in BOOLEAN
  /\ stage = "load" =>
       /\ next \in 1 .. Len(arguments) + 1
       /\ IF status THEN ReadSoFar(arguments, next)
                    ELSE /\ next <= Len(arguments)
                         /\ arguments[next] \in Stopping \/ ~AllLoaded(loads)
  /\ stage # "load" => (status <=> MakesSense)

LEMMA ArgumentsInit == DriverInit => ArgumentsInv
<1> SUFFICES ASSUME DriverInit PROVE ArgumentsInv
  OBVIOUS
<1>1. /\ stage = "load" /\ next = 1 /\ status = TRUE /\ loads = <<>>
      /\ at_least_one_file_loaded = FALSE /\ wait_for_output_filename = FALSE
  BY DEF DriverInit
<1>2. arguments \in Seq(Arguments)
  <2>1. PICK n \in 1 .. MaxArguments : arguments \in [1 .. n -> Arguments]
    BY DEF DriverInit
  <2>2. n \in Nat
    BY ArgumentsAssumption
  <2> QED BY <2>1, <2>2, SeqDef
<1>3. ReadSoFar(arguments, 1)
  <2>1. ~Unnamed(arguments, 1)
    BY UnnamedNext
  <2>2. AllLoaded(<<>>)
    BY DEF AllLoaded
  <2> QED BY <1>1, <2>1, <2>2 DEF ReadSoFar
<1>4. loads \in Seq(BOOLEAN)
  BY <1>1
<1>5. 1 \in 1 .. Len(arguments) + 1
  BY <1>2
<1> QED BY <1>1, <1>2, <1>3, <1>4, <1>5 DEF ArgumentsInv

LEMMA ReadsNext ==
  ASSUME ArgumentsInv, Reads, status' = TRUE,
         Argument \notin Stopping, UNCHANGED <<stage, arguments>>, next' = next + 1,
         wait_for_output_filename' \in BOOLEAN, at_least_one_file_loaded' \in BOOLEAN,
         loads' \in Seq(BOOLEAN), AllLoaded(loads) => AllLoaded(loads'),
         wait_for_output_filename' <=>
           Argument = "OUTPUT" \/ (Argument # "NAME" /\ wait_for_output_filename),
         at_least_one_file_loaded' <=>
           at_least_one_file_loaded \/ (Argument = "NAME" /\ ~wait_for_output_filename),
         filename' = IF Argument = "NAME" /\ wait_for_output_filename THEN next ELSE filename
  PROVE  ArgumentsInv'
<1> SUFFICES ASSUME NEW a, a = arguments, NEW n, n = next
             PROVE  ArgumentsInv'
  OBVIOUS
<1>1. /\ stage = "load" /\ status = TRUE /\ n \in Nat /\ n >= 1 /\ n <= Len(a)
      /\ a \in Seq(Arguments) /\ Len(a) \in Nat /\ Argument = a[n] /\ ReadSoFar(a, n)
  BY DEF ArgumentsInv, Reads, Argument
<1>2. /\ Unnamed(a, n + 1) <=> a[n] = "OUTPUT" \/ (a[n] # "NAME" /\ Unnamed(a, n))
      /\ wait_for_output_filename <=> Unnamed(a, n)
      /\ OutputAt(a, n) <=> a[n] = "NAME" /\ Unnamed(a, n)
  BY <1>1, UnnamedNext DEF ReadSoFar, OutputAt
<1>3. n \in 1 .. n /\ \A i \in 1 .. n : i = n \/ i \in 1 .. n - 1
  BY <1>1
<1>4. \A i \in 1 .. n - 1 : i \in 1 .. n /\ n > i
  BY <1>1
<1>5. \A i \in 1 .. n : a[i] \notin Stopping
  BY <1>1, <1>3 DEF ReadSoFar
<1>6. wait_for_output_filename' <=> Unnamed(a, n + 1)
  BY <1>1, <1>2
<1>7. at_least_one_file_loaded' <=> \E i \in 1 .. n : a[i] = "NAME" /\ ~OutputAt(a, i)
  <2>1. at_least_one_file_loaded <=> \E i \in 1 .. n - 1 : a[i] = "NAME" /\ ~OutputAt(a, i)
    BY <1>1 DEF ReadSoFar
  <2> QED BY <2>1, <1>1, <1>2, <1>3, <1>4
<1>8. ASSUME NEW i \in 1 .. n, a[i] = "OUTPUT"
      PROVE  Unnamed(a, n + 1) \/ \E j \in 1 .. n : j > i /\ OutputAt(a, j)
  <2>1. CASE i = n
    BY <1>2, <1>8, <2>1
  <2>2. CASE i # n
    <3>1. i \in 1 .. n - 1 /\ n > i
      BY <1>3, <1>4, <2>2
    <3>2. Unnamed(a, n) \/ \E j \in 1 .. n - 1 : j > i /\ OutputAt(a, j)
      BY <1>1, <1>8, <3>1 DEF ReadSoFar
    <3> QED BY <3>1, <3>2, <1>2, <1>3, <1>4
  <2> QED BY <2>1, <2>2
<1>9. ASSUME NEW i \in 1 .. n, OutputAt(a, i)
      PROVE  filename' \in i .. n /\ OutputAt(a, filename')
  <2>1. CASE OutputAt(a, n)
    <3>1. filename' = n
      BY <1>1, <1>2, <2>1
    <3>2. n \in i .. n
      BY <1>1
    <3> QED BY <2>1, <3>1, <3>2
  <2>2. CASE ~OutputAt(a, n)
    <3>1. filename' = filename /\ i \in 1 .. n - 1
      BY <1>1, <1>2, <1>3, <1>9, <2>2
    <3>2. filename \in i .. n - 1 /\ OutputAt(a, filename)
      BY <1>1, <1>9, <3>1 DEF ReadSoFar
    <3>3. filename \in i .. n
      BY <3>1, <3>2, <1>1
    <3> QED BY <3>1, <3>2, <3>3
  <2> QED BY <2>1, <2>2
<1>10. ReadSoFar(a, n + 1)'
  <2>1. AllLoaded(loads')
    BY <1>1 DEF ReadSoFar
  <2>2. (n + 1) - 1 = n
    BY <1>1
  <2> QED BY <2>1, <2>2, <1>5, <1>6, <1>7, <1>8, <1>9 DEF ReadSoFar
<1>11. n + 1 \in 1 .. Len(a) + 1
  BY <1>1
<1> QED BY <1>1, <1>10, <1>11 DEF ArgumentsInv

\* main reads an argument.
LEMMA ArgumentsRead ==
  ASSUME ArgumentsInv,
         TakesOption \/ NamesOutput \/ (\E loaded \in BOOLEAN : LoadsFile(loaded))
  PROVE  ArgumentsInv'
<1>1. CASE TakesOption
  <2>1. /\ Reads /\ Argument \in {"OPTION", "OUTPUT"} /\ next' = next + 1
        /\ wait_for_output_filename' = (wait_for_output_filename \/ Argument = "OUTPUT")
        /\ UNCHANGED <<arguments, status, at_least_one_file_loaded, loads, filename, stage>>
    BY <1>1 DEF TakesOption
  <2>2. Argument \notin Stopping /\ Argument # "NAME"
    BY <2>1 DEF Stopping
  <2>3. status' = TRUE /\ at_least_one_file_loaded' \in BOOLEAN /\ loads' \in Seq(BOOLEAN)
        /\ wait_for_output_filename' \in BOOLEAN
    BY <2>1 DEF Reads, ArgumentsInv
  <2> QED BY <2>1, <2>2, <2>3, ReadsNext
<1>2. CASE NamesOutput
  <2>1. /\ Reads /\ Argument = "NAME" /\ wait_for_output_filename /\ next' = next + 1
        /\ filename' = next /\ wait_for_output_filename' = FALSE
        /\ UNCHANGED <<arguments, status, at_least_one_file_loaded, loads, stage>>
    BY <1>2 DEF NamesOutput
  <2>2. Argument \notin Stopping
    BY <2>1 DEF Stopping
  <2>3. status' = TRUE /\ at_least_one_file_loaded' \in BOOLEAN /\ loads' \in Seq(BOOLEAN)
    BY <2>1 DEF Reads, ArgumentsInv
  <2> QED BY <2>1, <2>2, <2>3, ReadsNext
<1>3. ASSUME NEW loaded \in BOOLEAN, LoadsFile(loaded)
      PROVE  ArgumentsInv'
  <2>1. /\ Reads /\ Argument = "NAME" /\ ~wait_for_output_filename
        /\ at_least_one_file_loaded' = (at_least_one_file_loaded \/ loaded)
        /\ status' = loaded /\ loads' = Append(loads, loaded)
        /\ next' = IF loaded THEN next + 1 ELSE next
        /\ UNCHANGED <<arguments, wait_for_output_filename, filename, stage>>
    BY <1>3 DEF LoadsFile
  <2>2. Argument \notin Stopping
    BY <2>1 DEF Stopping
  <2>3. /\ loads \in Seq(BOOLEAN) /\ wait_for_output_filename' \in BOOLEAN
        /\ at_least_one_file_loaded' \in BOOLEAN /\ status' \in BOOLEAN
    BY <2>1 DEF ArgumentsInv
  <2>4. /\ loads' \in Seq(BOOLEAN) /\ Len(loads') = Len(loads) + 1
        /\ loads'[Len(loads) + 1] = loaded
        /\ \A k \in 1 .. Len(loads) : loads'[k] = loads[k]
    BY <2>1, <2>3, AppendProperties
  <2>5. AllLoaded(loads') <=> AllLoaded(loads) /\ loaded
    <3>1. /\ AllLoaded(loads') <=> \A k \in 1 .. Len(loads) + 1 : loads'[k] = TRUE
          /\ AllLoaded(loads) <=> \A k \in 1 .. Len(loads) : loads[k] = TRUE
      BY <2>3, <2>4, AllOfThem
    <3>2. /\ \A k \in 1 .. Len(loads) + 1 : k = Len(loads) + 1 \/ k \in 1 .. Len(loads)
          /\ \A k \in 1 .. Len(loads) : k \in 1 .. Len(loads) + 1
          /\ Len(loads) + 1 \in 1 .. Len(loads) + 1
      BY <2>3
    <3> QED BY <2>4, <3>1, <3>2
  <2>6. CASE loaded
    <3>1. status' = TRUE /\ next' = next + 1 /\ (at_least_one_file_loaded' <=> TRUE)
      BY <2>1, <2>6
    <3> QED BY <2>1, <2>2, <2>3, <2>4, <2>5, <2>6, <3>1, ReadsNext
  <2>7. CASE ~loaded
    BY <2>1, <2>3, <2>4, <2>5, <2>7 DEF ArgumentsInv, Reads
  <2> QED BY <2>6, <2>7
<1> QED BY <1>1, <1>2, <1>3

\* What the output is named after is known by the marks of its name.
LEMMA OutputNames ==
  \A i : i \in DOMAIN arguments =>
    (OutputAt(arguments, i) <=> arguments[i] = "NAME" /\ IsOutputName(i))
BY DEF OutputAt, Unnamed, IsOutputName

LEMMA SenseOfAll ==
  ASSUME arguments \in Seq(Arguments)
  PROVE  MakesSense <=>
           /\ \A i \in 1 .. Len(arguments) : arguments[i] \notin Stopping
           /\ \E i \in 1 .. Len(arguments) : arguments[i] = "NAME" /\ ~OutputAt(arguments, i)
           /\ AllLoaded(loads)
           /\ \A i \in 1 .. Len(arguments) :
                arguments[i] = "OUTPUT" =>
                  \E j \in 1 .. Len(arguments) : j > i /\ OutputAt(arguments, j)
           /\ \A i \in 1 .. Len(arguments) :
                /\ OutputAt(arguments, i)
                /\ \A j \in 1 .. Len(arguments) : OutputAt(arguments, j) => j <= i
                => filename = i
<1> DEFINE a == arguments
           names == {i \in DOMAIN a : a[i] = "NAME"}
           outputs == {i \in names : IsOutputName(i)}
<1>1. DOMAIN a = 1 .. Len(a)
  OBVIOUS
<1>2. \A i : i \in outputs <=> i \in 1 .. Len(a) /\ OutputAt(a, i)
  BY <1>1, OutputNames DEF OutputAt
<1>3. names # outputs <=> \E i \in 1 .. Len(a) : a[i] = "NAME" /\ ~OutputAt(a, i)
  BY <1>1, OutputNames
<1>4. MakesSense <=>
        /\ \A i \in DOMAIN a : a[i] \notin Stopping
        /\ names # outputs
        /\ AllLoaded(loads)
        /\ \A i \in DOMAIN a : a[i] = "OUTPUT" => \E j \in outputs : j > i
        /\ \A i \in outputs : (\A j \in outputs : j <= i) => filename = i
  BY DEF MakesSense, AllLoaded, Stopping
<1> HIDE DEF names, outputs
<1> QED BY <1>1, <1>2, <1>3, <1>4

\* Behind the loop main knows whether all of it makes sense.
LEMMA ArgumentsEnd ==
  ASSUME ArgumentsInv, EndsLoading PROVE ArgumentsInv'
<1> SUFFICES ASSUME NEW a, a = arguments, NEW n, n = next
             PROVE  ArgumentsInv'
  OBVIOUS
<1>1. /\ stage = "load" /\ (~status \/ n > Len(a)) /\ stage' \in {"compile", "end"}
      /\ status' = (status /\ ~wait_for_output_filename /\ at_least_one_file_loaded)
      /\ UNCHANGED <<arguments, at_least_one_file_loaded, wait_for_output_filename, loads, filename>>
  BY DEF EndsLoading
<1>2. /\ a \in Seq(Arguments) /\ Len(a) \in Nat /\ n \in Nat /\ n >= 1 /\ n <= Len(a) + 1
      /\ IF status THEN ReadSoFar(a, n)
                   ELSE n <= Len(a) /\ (a[n] \in Stopping \/ ~AllLoaded(loads))
  BY <1>1 DEF ArgumentsInv
<1>3. MakesSense' <=> MakesSense
  BY <1>1 DEF MakesSense, IsOutputName
<1>4. CASE ~status
  <2>1. ~MakesSense
    BY <1>2, <1>4, SenseOfAll
  <2> QED BY <1>1, <1>3, <1>4, <2>1 DEF ArgumentsInv
<1>5. CASE status
  <2>1. n - 1 = Len(a) /\ ReadSoFar(a, n)
    BY <1>1, <1>2, <1>5
  <2>2. /\ AllLoaded(loads)
        /\ \A i \in 1 .. Len(a) : a[i] \notin Stopping
        /\ wait_for_output_filename <=> Unnamed(a, n)
        /\ at_least_one_file_loaded
             <=> \E i \in 1 .. Len(a) : a[i] = "NAME" /\ ~OutputAt(a, i)
        /\ \A i \in 1 .. Len(a) :
             a[i] = "OUTPUT" => Unnamed(a, n) \/ \E j \in 1 .. Len(a) : j > i /\ OutputAt(a, j)
        /\ \A i \in 1 .. Len(a) :
             OutputAt(a, i) => filename \in i .. Len(a) /\ OutputAt(a, filename)
    BY <2>1 DEF ReadSoFar
  <2>3. ASSUME NEW i \in 1 .. Len(a), OutputAt(a, i),
               \A j \in 1 .. Len(a) : OutputAt(a, j) => j <= i
        PROVE  filename = i
    <3>1. filename \in i .. Len(a) /\ OutputAt(a, filename)
      BY <2>2, <2>3
    <3>2. filename \in 1 .. Len(a)
      BY <3>1, <1>2
    <3> QED BY <2>3, <3>1, <3>2
  <2>4. ASSUME Unnamed(a, n)
        PROVE  \E i \in 1 .. Len(a) :
                 a[i] = "OUTPUT" /\ \A j \in 1 .. Len(a) : ~(j > i /\ OutputAt(a, j))
    <3>1. PICK i \in 1 .. Len(a) : a[i] = "OUTPUT" /\ \A k \in i + 1 .. Len(a) : a[k] # "NAME"
      BY <2>1, <2>4 DEF Unnamed
    <3>2. \A j \in 1 .. Len(a) : j > i => j \in i + 1 .. Len(a)
      BY <1>2
    <3> QED BY <3>1, <3>2 DEF OutputAt
  <2>5. MakesSense <=> ~wait_for_output_filename /\ at_least_one_file_loaded
    BY <1>2, <2>2, <2>3, <2>4, SenseOfAll
  <2> QED BY <1>1, <1>3, <1>5, <2>5 DEF ArgumentsInv
<1> QED BY <1>4, <1>5

\* main compiles if, and only if, what it was given makes sense, for any arguments
\* (main, parse_argument).
THEOREM CompilesIfItMakesSense == DriverSpec => []CompilesWhenAsked
<1>1. DriverInit => ArgumentsInv
  BY ArgumentsInit
<1>2. ArgumentsInv /\ [DriverNext]_driverVars => ArgumentsInv'
  <2> SUFFICES ASSUME ArgumentsInv, [DriverNext]_driverVars PROVE ArgumentsInv'
    OBVIOUS
  <2>1. CASE UNCHANGED driverVars
    BY <2>1 DEF driverVars, mainVars, ArgumentsInv, ReadSoFar, MakesSense, IsOutputName
  <2>2. CASE StopsAtOption
    <3>1. /\ stage = "load" /\ next <= Len(arguments) /\ arguments[next] \in Stopping
          /\ status' = FALSE
          /\ UNCHANGED <<arguments, at_least_one_file_loaded, wait_for_output_filename, loads,
                         filename, stage, next>>
      BY <2>2 DEF StopsAtOption, Reads, Argument, Stopping
    <3> QED BY <3>1 DEF ArgumentsInv
  <2>3. CASE TakesOption \/ NamesOutput \/ \E loaded \in BOOLEAN : LoadsFile(loaded)
    BY <2>3, ArgumentsRead
  <2>4. CASE EndsLoading
    BY <2>4, ArgumentsEnd
  <2>5. CASE Pushes \/ Pops \/ Succeeds \/ Fails \/ Compiled \/ PopsCompilation \/ Ends
    <3>1. UNCHANGED mainVars /\ stage # "load" /\ stage' # "load"
      BY <2>5 DEF Pushes, Pops, Succeeds, Fails, Compiled, Compiles, PopsCompilation, Ends
    <3>2. MakesSense' <=> MakesSense
      BY <3>1 DEF mainVars, MakesSense, IsOutputName
    <3> QED BY <3>1, <3>2 DEF mainVars, ArgumentsInv
  <2> QED BY <2>1, <2>2, <2>3, <2>4, <2>5 DEF DriverNext
<1>3. ArgumentsInv => CompilesWhenAsked
  BY DEF ArgumentsInv, CompilesWhenAsked
<1> QED BY <1>1, <1>2, <1>3, PTL DEF DriverSpec
================================================================================
