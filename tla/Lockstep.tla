-------------------------------- MODULE Lockstep --------------------------------
(***************************************************************************)
(* The interpreter and the code of the backend side by side: the processor   *)
(* runs a function whenever the initializers of the globals call it, opcode  *)
(* by opcode with the interpreter, and with the same input.                  *)
(***************************************************************************)
EXTENDS IrCode, NasmMachine

BothInit == Init /\ NasmInit

\* The entry function is never given to the backend: from it the call of a
\* function is the one of mainCRTStartup.
Calling == Op.op = "CALL" /\ ~ir.functions[Op.name].external

SameInput ==
  NasmOp.op = "CALL" /\ NasmOp.name = "getchar" =>
    operands'[Len(operands')] = Int_(Peek(exec_stack'))

Native ==
  IF rip = Outside
    THEN IF Calling THEN NasmStart(Op.name, exec_stack) ELSE UNCHANGED nasmVars
    ELSE IF fault = "none" THEN NasmNext /\ SameInput ELSE UNCHANGED nasmVars

BothNext ==
  \/ Execute /\ Native
  \/ FreeBlock /\ UNCHANGED nasmVars

BothSpec == BothInit /\ [][BothNext]_<<vars, nasmVars>> /\ WF_<<vars, nasmVars>>(BothNext)

--------------------------------------------------------------------------------
(* What the two agree on.                                                        *)

\* The depth of a word of the data stack: every call puts the return address and
\* rbp between the words of its caller and its own, but for the call of the entry
\* function.
Depth(i) == i + 1 + 2 * Cardinality({k \in 2 .. Len(fp) : fp[k] <= i})

Stands(word, v) == word = Int_(v) \/ word = Address(Depth(v))

\* The code of the backend does what the interpreter does with the opcodes: it is
\* at the same opcode, its operands are the same, every variable has the same
\* value at its place relative to rbp, and rsp is behind the last one.  Only a
\* division stops it: one that stops the interpreter too, or one by zero, which
\* the interpreter gives a result (nasm_compile_func, execute_ir_opcode).
BackendAgrees ==
  /\ fault # "none" => NasmOp.op \in {"DIV", "MOD"} /\ (Value(Second) = 0 \/ status = "trap")
  /\ status = "trap" /\ rip # Outside => fault # "none"
  /\ rip # Outside /\ fault = "none" /\ freeing = 0 /\ status = "running" =>
       /\ rip = <<Peek(curr_func), ip>>
       /\ rsp = Len(data_stack) + (Len(fp) - 1) + (Len(curr_func) - 1)
       /\ Len(operands) = Len(exec_stack)
       /\ \A i \in DOMAIN operands : Stands(operands[i], exec_stack[i])
       /\ \A b \in DOMAIN allocations :
            LET block == allocations[b]
            IN  block.size = 1 =>
                  Stands(memory[Depth(block.start)], data_stack[block.start + 1])

--------------------------------------------------------------------------------
(* What that needs of a program.                                                 *)

\* Constants fit in an instruction, no function has the label of the startup code,
\* and the function that computes the globals has no variables and stores nothing.
Native_(p) ==
  /\ Outside[1] \notin DOMAIN p.functions
  /\ \A f \in Defined(p) : \A n \in 1 .. Len(p.functions[f].code) :
       LET op == p.functions[f].code[n]
       IN  /\ op.op \in {"PUSH_SIGN", "PUSH_UNSIGN"} => Immediate(op.arg) = op.arg
           /\ op.op \in {"ALLOC", "STORE"} => f # Entry

IsInt(word) == word[1] = "int"
IsAddress(word) == word[1] = "address"

\* The blocks that are not being given back.
Variables == {b \in DOMAIN allocations : allocations[b].start < Len(data_stack) - freeing}

\* The words of one block.
Words_(b) == allocations[b].start .. allocations[b].start + allocations[b].size - 1

\* The words that are not garbage.
Held ==
  {operands[i] : i \in DOMAIN operands}
    \cup {memory[Depth(allocations[b].start)] : b \in {v \in Variables : allocations[v].size = 1}}

PointsToOne(word) ==
  \E b \in Variables : allocations[b].size = 1 /\ word = Address(Depth(allocations[b].start))

\* A program uses pointers as the language means them: no variable and no operand
\* keeps the address of a variable that is gone, nothing is computed with addresses,
\* and a value is only read from a variable, of one word, and through its address.
\* The variables stay below the addresses of globals.
PointersBehave ==
  rip # Outside /\ fault = "none" /\ status = "running" =>
    /\ Len(data_stack) <= GLOBALS_OFFSET
    /\ \A word \in Held : IsAddress(word) =>
         \E b \in Variables : \E i \in Words_(b) : word = Address(Depth(i))
    /\ At(BinaryOps) => IsInt(Top) /\ IsInt(Second)
    /\ At(UnaryOps \cup {"JUMP_IF", "JUMP_IF_NOT"}) => IsInt(Top)
    /\ At({"LOAD"}) => PointsToOne(Top)
    /\ At({"STORE"}) => IsAddress(Top)
    /\ At({"PUSH_STACK", "PUSH_SEA"}) =>
         \E b \in Variables : allocations[b].size = 1
                                /\ allocations[b].start = VariableAddress(Op.arg - 1)

================================================================================
