------------------------------- MODULE IrMachine -------------------------------
(***************************************************************************)
(* The interpreter of the intermediate representation (src/interop.cpp).    *)
(* The compiler runs it on __internal_compile_globals, so that initializers *)
(* of globals, and every function they call, are executed while compiling.  *)
(*                                                                          *)
(* One action per opcode, or per group of opcodes handled by one macro.     *)
(* IR_FREE and IR_STACK_FRAME_POP give blocks back one at a time: the loop  *)
(* of free_memory is the action FreeBlock.                                  *)
(*                                                                          *)
(* An opcode is a record: op, its operand arg, and name, the callee of a    *)
(* CALL or the variable an ALLOC, PUSH or address opcode was emitted for.   *)
(***************************************************************************)
EXTENDS Integers, Sequences

CONSTANTS
  Programs,      \* the programs to run: functions by name, and the number of globals
  Entry,         \* the function interop_func is called with
  Input,         \* what getchar may return while there is input
  MaxReads,      \* bound of the model: getchar returns 0 from then on
  MaxCalls,      \* bound of the model: nested calls
  WordBits,      \* bits of a machine word, 64 in the program
  GLOBALS_OFFSET \* addresses from here on are addresses of globals

ASSUME BoundsAssumption ==
  /\ MaxReads \in Nat /\ MaxCalls \in Nat
  /\ WordBits \in Nat \ {0}
  /\ GLOBALS_OFFSET \in Nat \ {0}
  /\ Input \subseteq Int

VARIABLES
  ir,          \* the program that runs
  globals,     \* ir->globals
  ip,          \* index of the next opcode of the current function, from 0
  fp,          \* frame pointers
  ip_stack,    \* return addresses
  exec_stack,  \* operands
  data_stack,  \* memory of the variables
  allocations, \* blocks of the data stack
  curr_func,   \* functions that are running
  freeing,     \* how much free_memory still has to give back
  status,      \* "running", "done", or how the run went wrong
  reads,       \* how often getchar was called
  heights      \* operands below the arguments of each running call (for properties)

vars == <<ir, globals, ip, fp, ip_stack, exec_stack, data_stack, allocations,
          curr_func, freeing, status, reads, heights>>

frameVars == <<fp, data_stack, allocations, freeing>>
callVars  == <<ip_stack, curr_func, heights, reads>>

--------------------------------------------------------------------------------
(* stack_t: the top is the last element; popping an empty stack yields zero.    *)

Push(s, x) == Append(s, x)
Peek(s) == IF s = <<>> THEN 0 ELSE s[Len(s)]
Pop(s) == IF s = <<>> THEN <<>> ELSE SubSeq(s, 1, Len(s) - 1)

\* Second operand from the top.
Below(s) == Peek(Pop(s))

WordSize == 2 ^ WordBits

\* Two's complement reduction to a machine word.
Wrap(v) == ((v + WordSize \div 2) % WordSize) - WordSize \div 2

Truth(b) == IF b THEN 1 ELSE 0

\* C division truncates towards zero.
Quotient(a, b) ==
  LET q == (IF a < 0 THEN -a ELSE a) \div (IF b < 0 THEN -b ELSE b)
  IN  IF (a < 0) # (b < 0) THEN -q ELSE q

\* Bit by bit: the word whose bits are those of a and b combined.
BitwiseValue(op, a, b) ==
  LET bit(v, i) == (v \div 2 ^ i) % 2
      combined(x, y) == CASE op = "BIT_AND" -> x * y
                          [] op = "BIT_OR" -> x + y - x * y
                          [] op = "BIT_XOR" -> (x + y) % 2
      from[i \in 0..WordBits] ==
        IF i = WordBits THEN 0 ELSE combined(bit(a, i), bit(b, i)) * 2 ^ i + from[i + 1]
  IN  Wrap(from[0])

BinaryOps == {"ADD", "SUB", "MUL", "DIV", "MOD", "CMP_EQ", "CMP_NEQ", "CMP_LT", "CMP_GT",
              "CMP_LTE", "CMP_GTE", "BIT_AND", "BIT_OR", "BIT_XOR", "SHIFT_LEFT", "SHIFT_RIGHT"}
UnaryOps == {"NEG", "LOG_NOT", "BIT_NOT"}

\* The processor traps on the one quotient that does not fit in a word.
Traps(op, a, b) == op \in {"DIV", "MOD"} /\ a = -(WordSize \div 2) /\ b = -1

UnaryValue(op, a) ==
  CASE op = "NEG" -> Wrap(-a)
    [] op = "LOG_NOT" -> Truth(a = 0)
    [] op = "BIT_NOT" -> -a - 1

\* Mutant: the operands are taken in the other order.
BinaryValue_Swapped(op, a, b) ==
  CASE op = "ADD" -> Wrap(a + b)
    [] op = "SUB" -> Wrap(b - a)
    [] op = "MUL" -> Wrap(a * b)
    [] OTHER -> Truth(b < a)

\* BINOP and BINCHKOP: a is the top of the stack, the left operand.  The
\* processor takes the distance of a shift modulo the bits of a word.
BinaryValue(op, a, b) ==
  CASE op = "ADD" -> Wrap(a + b)
    [] op = "SUB" -> Wrap(a - b)
    [] op = "MUL" -> Wrap(a * b)
    [] op = "DIV" -> IF b = 0 THEN 0 ELSE Wrap(Quotient(a, b))
    [] op = "MOD" -> IF b = 0 THEN 0 ELSE a - b * Quotient(a, b)
    [] op = "CMP_EQ" -> Truth(a = b)
    [] op = "CMP_NEQ" -> Truth(a # b)
    [] op = "CMP_LT" -> Truth(a < b)
    [] op = "CMP_GT" -> Truth(a > b)
    [] op = "CMP_LTE" -> Truth(a <= b)
    [] op = "CMP_GTE" -> Truth(a >= b)
    [] op \in {"BIT_AND", "BIT_OR", "BIT_XOR"} -> BitwiseValue(op, a, b)
    [] op = "SHIFT_LEFT" -> Wrap(a * 2 ^ (b % WordBits))
    [] op = "SHIFT_RIGHT" -> a \div 2 ^ (b % WordBits)

--------------------------------------------------------------------------------
(* Memory.                                                                      *)

Contains(block, address) ==
  address >= block.start /\ address <= block.start + block.size - 1

\* get_variable_address: the start of the first block that contains the
\* address, or -1 (where the debug build asserts).
VariableAddress(offset) ==
  LET address == Peek(fp) + offset
      hits == {i \in 1..Len(allocations) : Contains(allocations[i], address)}
  IN  IF hits = {} THEN -1
      ELSE allocations[CHOOSE i \in hits : \A j \in hits : i <= j].start

ValidData(address) ==
  address >= 0 /\ address < Len(data_stack) /\ address < GLOBALS_OFFSET

\* The address of a global, less GLOBALS_OFFSET, is used as an index.
ValidGlobal(address) ==
  address >= GLOBALS_OFFSET /\ address - GLOBALS_OFFSET < Len(globals)

\* Past the globals array_get yields a null pointer; any other address that is
\* not in the data stack is reported and stops the interpreter.
Violation(address) ==
  IF address >= GLOBALS_OFFSET THEN "null pointer" ELSE "access violation"

--------------------------------------------------------------------------------
(* Actions.                                                                     *)

Code == ir.functions[Peek(curr_func)].code

Op == Code[ip + 1]

\* The interpreter fetches an opcode of the given kind.
Fetch(ops) ==
  /\ status = "running"
  /\ freeing = 0
  /\ ip < Len(Code)
  /\ Op.op \in ops

Advance == ip' = ip + 1

\* Opcodes that only work on the operands.
OperandsOnly == UNCHANGED <<ir, globals, frameVars, callVars, status>>

Nop == Fetch({"NOP"}) /\ Advance /\ OperandsOnly /\ UNCHANGED exec_stack

Binary ==
  /\ Fetch(BinaryOps)
  /\ LET a == Peek(exec_stack)
         b == Below(exec_stack)
     IN  IF Traps(Op.op, a, b)
           THEN status' = "trap" /\ exec_stack' = Pop(Pop(exec_stack))
           ELSE /\ exec_stack' = Push(Pop(Pop(exec_stack)), BinaryValue(Op.op, a, b))
                /\ UNCHANGED status
  /\ Advance
  /\ UNCHANGED <<ir, globals, frameVars, callVars>>

Unary ==
  /\ Fetch(UnaryOps)
  /\ exec_stack' = Push(Pop(exec_stack), UnaryValue(Op.op, Peek(exec_stack)))
  /\ Advance
  /\ OperandsOnly

\* IR_PUSH_SIGN and IR_PUSH_UNSIGN push the operand, IR_PUSH_GLOBAL too; the
\* address of a global is its offset in bytes.
PushConstant ==
  /\ Fetch({"PUSH_SIGN", "PUSH_UNSIGN", "PUSH_GLOBAL", "PUSH_GEA"})
  /\ exec_stack' = Push(exec_stack, IF Op.op = "PUSH_GEA"
                                      THEN GLOBALS_OFFSET + Op.arg * 8
                                      ELSE Op.arg)
  /\ Advance
  /\ OperandsOnly

\* A variable that is in no block is an assertion failure, and a read in front
\* of the data stack when assertions are compiled out.
PushVariable ==
  /\ Fetch({"PUSH_STACK", "PUSH_SEA"})
  /\ LET address == VariableAddress(Op.arg - 1)
     IN  IF address = -1
           THEN status' = "no variable" /\ UNCHANGED exec_stack
           ELSE /\ exec_stack' = Push(exec_stack,
                     IF Op.op = "PUSH_SEA" THEN address ELSE data_stack[address + 1])
                /\ UNCHANGED status
  /\ Advance
  /\ UNCHANGED <<ir, globals, frameVars, callVars>>

\* Mutant: the operand stays.
Discard_Keeps == Fetch({"POP"}) /\ Advance /\ OperandsOnly /\ UNCHANGED exec_stack

Discard ==
  /\ Fetch({"POP"})
  /\ exec_stack' = Pop(exec_stack)
  /\ Advance
  /\ OperandsOnly

\* Mutant: popped, and pushed once.
Clone_Once == Fetch({"CLONE"}) /\ Advance /\ OperandsOnly /\ UNCHANGED exec_stack

Clone ==
  /\ Fetch({"CLONE"})
  /\ exec_stack' = Push(Push(Pop(exec_stack), Peek(exec_stack)), Peek(exec_stack))
  /\ Advance
  /\ OperandsOnly

SetupGlobal ==
  /\ Fetch({"SETUP_GLOBAL"})
  /\ globals' = IF Op.arg < Len(globals)
                  THEN [globals EXCEPT ![Op.arg + 1] = Peek(exec_stack)]
                  ELSE globals
  /\ exec_stack' = Pop(exec_stack)
  /\ Advance
  /\ UNCHANGED <<ir, frameVars, callVars, status>>

\* allocate_memory zeroes the block and yields the address of its last word.
Alloc ==
  /\ Fetch({"ALLOC"})
  /\ data_stack' = data_stack \o [i \in 1..Op.arg |-> 0]
  /\ allocations' = Push(allocations,
       [start |-> Len(data_stack), size |-> Op.arg, name |-> Op.name])
  /\ exec_stack' = Push(exec_stack, Len(data_stack) + Op.arg - 1)
  /\ Advance
  /\ UNCHANGED <<ir, globals, fp, freeing, callVars, status>>

Free ==
  /\ Fetch({"FREE"})
  /\ freeing' = Op.arg
  /\ Advance
  /\ UNCHANGED <<ir, globals, fp, exec_stack, data_stack, allocations, callVars, status>>

FramePush ==
  /\ Fetch({"STACK_FRAME_PUSH"})
  /\ fp' = Push(fp, Len(data_stack))
  /\ Advance
  /\ UNCHANGED <<ir, globals, exec_stack, data_stack, allocations, freeing, callVars, status>>

\* Mutant: the frame pointer is only looked at.
FramePop_Peeks ==
  /\ Fetch({"STACK_FRAME_POP"})
  /\ freeing' = Len(data_stack) - Peek(fp)
  /\ Advance
  /\ UNCHANGED <<ir, globals, fp, exec_stack, data_stack, allocations, callVars, status>>

FramePop ==
  /\ Fetch({"STACK_FRAME_POP"})
  /\ fp' = Pop(fp)
  /\ freeing' = Len(data_stack) - Peek(fp)
  /\ Advance
  /\ UNCHANGED <<ir, globals, exec_stack, data_stack, allocations, callVars, status>>

\* Mutant: the block goes, its words stay.
FreeBlock_KeepsWords ==
  /\ status = "running"
  /\ freeing > 0
  /\ allocations # <<>>
  /\ LET block == Peek(allocations)
     IN  /\ allocations' = Pop(allocations)
         /\ freeing' = IF block.size > freeing THEN 0 ELSE freeing - block.size
  /\ UNCHANGED <<ir, globals, ip, fp, exec_stack, data_stack, callVars, status>>

\* One round of the loop in free_memory.  Without a block to give back the
\* size never reaches zero and the loop never ends.
FreeBlock ==
  /\ status = "running"
  /\ freeing # 0
  /\ IF freeing < 0
       THEN freeing' = 0 /\ UNCHANGED <<data_stack, allocations>>
       ELSE IF allocations = <<>>
         THEN data_stack' = <<>> /\ UNCHANGED <<freeing, allocations>>
         ELSE LET block == Peek(allocations)
              IN  /\ allocations' = Pop(allocations)
                  /\ data_stack' = SubSeq(data_stack, 1, block.start)
                  /\ freeing' = IF block.size > freeing THEN 0 ELSE freeing - block.size
  /\ UNCHANGED <<ir, globals, ip, fp, exec_stack, callVars, status>>

Load ==
  /\ Fetch({"LOAD"})
  /\ LET address == Peek(exec_stack)
         index == address - GLOBALS_OFFSET
     IN  \/ /\ ValidGlobal(address)
            /\ exec_stack' = Push(Pop(exec_stack), globals[index + 1])
            /\ UNCHANGED status
         \/ /\ ValidData(address)
            /\ exec_stack' = Push(Pop(exec_stack), data_stack[address + 1])
            /\ UNCHANGED status
         \/ /\ ~ValidGlobal(address) /\ ~ValidData(address)
            /\ exec_stack' = Pop(exec_stack)
            /\ status' = Violation(address)
  /\ Advance
  /\ UNCHANGED <<ir, globals, frameVars, callVars>>

\* A store to a global pushes the global instead of changing it.
Store ==
  /\ Fetch({"STORE"})
  /\ LET address == Peek(exec_stack)
         value == Below(exec_stack)
         rest == Pop(Pop(exec_stack))
         index == address - GLOBALS_OFFSET
     IN  \/ /\ ValidGlobal(address)
            /\ exec_stack' = Push(rest, globals[index + 1])
            /\ UNCHANGED <<data_stack, status>>
         \/ /\ ValidData(address)
            /\ exec_stack' = rest
            /\ data_stack' = [data_stack EXCEPT ![address + 1] = value]
            /\ UNCHANGED status
         \/ /\ ~ValidGlobal(address) /\ ~ValidData(address)
            /\ exec_stack' = rest
            /\ status' = Violation(address)
            /\ UNCHANGED data_stack
  /\ Advance
  /\ UNCHANGED <<ir, globals, fp, allocations, freeing, callVars>>

Jump ==
  /\ Fetch({"JUMP"})
  /\ ip' = ip + 1 + Op.arg
  /\ OperandsOnly
  /\ UNCHANGED exec_stack

JumpIf ==
  /\ Fetch({"JUMP_IF", "JUMP_IF_NOT"})
  /\ LET taken == (Peek(exec_stack) # 0) = (Op.op = "JUMP_IF")
     IN  ip' = ip + 1 + (IF taken THEN Op.arg ELSE 0)
  /\ exec_stack' = Pop(exec_stack)
  /\ OperandsOnly

\* Calls of the external functions.  debug_break returns when a debugger goes on;
\* a call of any other external function does nothing.
CallExternal ==
  /\ Fetch({"CALL"})
  /\ ir.functions[Op.name].external
  /\ CASE Op.name = "getchar" ->
            /\ \E c \in IF reads < MaxReads THEN Input ELSE {0} :
                  exec_stack' = Push(exec_stack, c)
            /\ reads' = reads + Truth(reads < MaxReads)
       [] Op.name = "putchar" -> exec_stack' = Pop(exec_stack) /\ UNCHANGED reads
       [] OTHER -> UNCHANGED <<exec_stack, reads>>
  /\ Advance
  /\ UNCHANGED <<ir, globals, frameVars, ip_stack, curr_func, heights, status>>

Call ==
  /\ Fetch({"CALL"})
  /\ ~ir.functions[Op.name].external
  /\ Len(curr_func) < MaxCalls
  /\ curr_func' = Push(curr_func, Op.name)
  /\ ip_stack' = Push(ip_stack, ip + 1)
  /\ heights' = Push(heights, Len(exec_stack) - ir.functions[Op.name].params)
  /\ ip' = 0
  /\ UNCHANGED <<ir, globals, exec_stack, frameVars, reads, status>>

\* Returning from the function interop_func started ends the run.
Ret ==
  /\ Fetch({"RET"})
  /\ IF ip_stack = <<>>
       THEN /\ status' = "done"
            /\ Advance
            /\ UNCHANGED <<ip_stack, curr_func, heights>>
       ELSE /\ ip' = Peek(ip_stack)
            /\ ip_stack' = Pop(ip_stack)
            /\ curr_func' = Pop(curr_func)
            /\ heights' = Pop(heights)
            /\ UNCHANGED status
  /\ UNCHANGED <<ir, globals, exec_stack, frameVars, reads>>

Invalid ==
  /\ Fetch({"INVALID"})
  /\ status' = "invalid opcode"
  /\ Advance
  /\ UNCHANGED <<ir, globals, exec_stack, frameVars, callVars>>

Init ==
  /\ ir \in Programs
  /\ globals = [i \in 1..ir.globals |-> 0]
  /\ ip = 0
  /\ fp = <<>>
  /\ ip_stack = <<>>
  /\ exec_stack = <<>>
  /\ data_stack = <<>>
  /\ allocations = <<>>
  /\ curr_func = <<Entry>>
  /\ freeing = 0
  /\ status = "running"
  /\ reads = 0
  /\ heights = <<0>>

\* execute_ir_opcode
Execute ==
  \/ Nop \/ Binary \/ Unary \/ PushConstant \/ PushVariable \/ Discard \/ Clone
  \/ SetupGlobal \/ Alloc \/ Free \/ FramePush \/ FramePop \/ Load \/ Store
  \/ Jump \/ JumpIf \/ CallExternal \/ Call \/ Ret \/ Invalid

Next == Execute \/ FreeBlock

\* while (state.running)
Spec == Init /\ [][Next]_vars /\ WF_vars(Next)

--------------------------------------------------------------------------------
(* Properties.                                                                  *)

\* The blocks tile the data stack (allocate_memory, free_memory): the search of
\* get_variable_address never has two answers, and giving a block back cuts the
\* data stack exactly where that block starts.
BlocksTile ==
  /\ allocations = <<>> => data_stack = <<>>
  /\ allocations # <<>> =>
       /\ allocations[1].start = 0
       /\ LET last == Peek(allocations) IN last.start + last.size = Len(data_stack)
  /\ \A i \in 1..Len(allocations) - 1 :
       allocations[i].start + allocations[i].size = allocations[i + 1].start

\* What free_memory still has to give back are whole blocks: its loop neither
\* takes a block too many nor runs out of blocks, which it would never notice.
FreesWholeBlocks ==
  freeing # 0 => \E i \in 1..Len(allocations) :
                    allocations[i].start = Len(data_stack) - freeing

\* Every running call has a frame of its own, above the frames of its callers
\* and inside the data stack; only the prologue and epilogue are outside of it
\* (IR_STACK_FRAME_PUSH, IR_CALL, IR_RET).
FramesNest ==
  /\ \A i \in 1..Len(fp) - 1 : fp[i] <= fp[i + 1]
  /\ fp # <<>> /\ freeing = 0 => Peek(fp) <= Len(data_stack)
  /\ Len(ip_stack) + 1 = Len(curr_func)
  /\ Len(fp) \in {Len(curr_func) - 1, Len(curr_func)}

\* Whatever the program, leaking loops, wild pointers and missing returns
\* included: the blocks tile the data stack and the frames of the calls nest in
\* it (allocate_memory, free_memory, IR_STACK_FRAME_PUSH).
MemoryNests == BlocksTile /\ FramesNest

\* A returning call has given its frame and all its variables back.
ReturnsClean ==
  status = "running" /\ freeing = 0 /\ ip < Len(Code) /\ Op.op = "RET" =>
    /\ Len(fp) = Len(curr_func) - 1
    /\ ip_stack = <<>> => data_stack = <<>>

\* The interpreter is about to execute one of the opcodes ops.
At(ops) == status = "running" /\ freeing = 0 /\ ip < Len(Code) /\ Op.op \in ops

\* A variable opcode (IR_PUSH_STACK, IR_PUSH_SEA) finds the block of the variable
\* it was emitted for, the one of the running call: the offset the generator
\* counted and the blocks the interpreter holds agree at this point of the code.
VariablesResolve ==
  At({"PUSH_STACK", "PUSH_SEA"}) =>
    \E i \in 1..Len(allocations) :
      /\ allocations[i].start = VariableAddress(Op.arg - 1)
      /\ allocations[i].name = Op.name
      /\ allocations[i].start >= Peek(fp)
      /\ \A j \in i + 1..Len(allocations) : allocations[j].name # Op.name

\* Number of operands an opcode takes.
Takes(p, op) ==
  CASE op.op \in BinaryOps \cup {"STORE"} -> 2
    [] op.op \in UnaryOps \cup {"POP", "CLONE", "SETUP_GLOBAL", "LOAD",
                                "JUMP_IF", "JUMP_IF_NOT"} -> 1
    [] op.op = "CALL" -> p.functions[op.name].params
    [] OTHER -> 0

\* An opcode never takes operands that belong to a caller of the running
\* function, and a call replaces its arguments by its result, or by nothing if it
\* has none: IR_RET does not look at the operands, the generated code has to
\* balance them on every path.
OperandsBalance ==
  /\ status = "running" /\ freeing = 0 /\ ip < Len(Code) =>
       Len(exec_stack) - Peek(heights) >= Takes(ir, Op)
  /\ At({"RET"}) =>
       Len(exec_stack) = Peek(heights) + Truth(ir.functions[Peek(curr_func)].returns)

\* The loop of interop_func ends: no jump leaves the code of its function or goes
\* back for ever, and free_memory does not hang.
Terminates == <>(status # "running")
================================================================================
