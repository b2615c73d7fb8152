------------------------------ MODULE NasmMachine ------------------------------
(***************************************************************************)
(* The code the backend writes for each opcode (src/nasm_backend.cpp), as    *)
(* what the processor does with it: one stack for variables, frames and      *)
(* return addresses, and the operands at r14, counted by r15.                *)
(*                                                                          *)
(* An address on the stack is a depth: the number of words from the word     *)
(* mainCRTStartup pushes first, so that rsp - 8 is one more.  Words know what *)
(* they are: <<"int", v>>, <<"address", depth>>, or <<"return", func, at>>.   *)
(***************************************************************************)
EXTENDS IrMachine, FiniteSetsExt

CONSTANT ImmediateBits \* bits of a constant in an instruction, 32 in the program

VARIABLES
  memory,   \* the words of the stack, those below rsp are still there
  rsp, rbp,
  operands, \* exec_stack, r15 words of it
  rip,      \* label and number of the opcode that runs, Outside of all functions
  fault     \* the exception the processor stopped with, or "none"

nasmVars == <<memory, rsp, rbp, operands, rip, fault>>

Int_(v) == <<"int", v>>
Address(depth) == <<"address", depth>>
Value(word) == word[2]

Unknown == <<"unknown">>
Outside == <<"mainCRTStartup", 0>>

Written(depth, word) ==
  [d \in 1 .. Max({Len(memory), depth}) |->
     IF d = depth THEN word ELSE IF d <= Len(memory) THEN memory[d] ELSE Unknown]

NasmCode == ir.functions[rip[1]].code

NasmOp == NasmCode[rip[2] + 1]

Runs_(ops) ==
  rip # Outside /\ fault = "none" /\ rip[2] < Len(NasmCode) /\ NasmOp.op \in ops

FallsThrough == rip' = <<rip[1], rip[2] + 1>> /\ UNCHANGED fault

\* LOAD and STORE of the operands; the first one loaded is the top.
Top == operands[Len(operands)]
Second == operands[Len(operands) - 1]
Without(n) == SubSeq(operands, 1, Len(operands) - n)
Stores(n, word) == operands' = Append(Without(n), word)

OnlyOperands == FallsThrough /\ UNCHANGED <<memory, rsp, rbp>>

\* A constant is sign-extended from its 32 bits.
Immediate(v) ==
  LET size == 2 ^ ImmediateBits
  IN  ((v + size \div 2) % size) - size \div 2

NasmPushConstant ==
  /\ Runs_({"PUSH_SIGN", "PUSH_UNSIGN"})
  /\ Stores(0, Int_(Immediate(NasmOp.arg)))
  /\ OnlyOperands

\* [rbp - offset * 8]: the word itself, or its address.
NasmPushVariable ==
  /\ Runs_({"PUSH_STACK", "PUSH_SEA"})
  /\ Stores(0, IF NasmOp.op = "PUSH_SEA" THEN Address(rbp + NasmOp.arg)
                                         ELSE memory[rbp + NasmOp.arg])
  /\ OnlyOperands

NasmDiscard == Runs_({"POP"}) /\ operands' = Without(1) /\ OnlyOperands

NasmClone == Runs_({"CLONE"}) /\ Stores(0, Top) /\ OnlyOperands

NasmNop == Runs_({"NOP"}) /\ OnlyOperands /\ UNCHANGED operands

\* idiv stops for a divisor of zero, and for the quotient that does not fit.
Stops == /\ NasmOp.op \in {"DIV", "MOD"}
         /\ Value(Second) = 0 \/ Traps(NasmOp.op, Value(Top), Value(Second))

\* BINOP, DIVOP, SHIFTOP and BINCMPOP: the top is the left operand.
NasmBinary ==
  /\ Runs_(BinaryOps)
  /\ ~Stops
  /\ Stores(2, Int_(BinaryValue(NasmOp.op, Value(Top), Value(Second))))
  /\ OnlyOperands

NasmDivideError ==
  /\ Runs_(BinaryOps)
  /\ Stops
  /\ fault' = "divide error"
  /\ UNCHANGED <<memory, rsp, rbp, operands, rip>>

NasmUnary ==
  /\ Runs_(UnaryOps)
  /\ Stores(1, Int_(UnaryValue(NasmOp.op, Value(Top))))
  /\ OnlyOperands

\* Mutant: rsp is not taken back to rbp.
NasmFramePop_KeepsRsp ==
  /\ Runs_({"STACK_FRAME_POP"})
  /\ rbp' = Value(memory[rsp])
  /\ rsp' = rsp - 1
  /\ FallsThrough
  /\ UNCHANGED <<memory, operands>>

\* mov rsp, rbp; pop rbp
NasmFramePop ==
  /\ Runs_({"STACK_FRAME_POP"})
  /\ rbp' = Value(memory[rbp])
  /\ rsp' = rbp - 1
  /\ FallsThrough
  /\ UNCHANGED <<memory, operands>>

\* push rbp; mov rbp, rsp
NasmFramePush ==
  /\ Runs_({"STACK_FRAME_PUSH"})
  /\ memory' = Written(rsp + 1, Address(rbp))
  /\ rsp' = rsp + 1
  /\ rbp' = rsp + 1
  /\ FallsThrough
  /\ UNCHANGED operands

\* Mutant: the word keeps what an earlier block left in it.
NasmAlloc_Stale ==
  /\ Runs_({"ALLOC"})
  /\ rsp' = rsp + NasmOp.arg
  /\ memory' = IF rsp' <= Len(memory) THEN memory ELSE Written(rsp', Int_(0))
  /\ Stores(0, Address(rsp'))
  /\ FallsThrough
  /\ UNCHANGED rbp

\* Of the words of a block only the last one is zeroed, its address is the result.
NasmAlloc ==
  /\ Runs_({"ALLOC"})
  /\ rsp' = rsp + NasmOp.arg
  /\ memory' = Written(rsp', Int_(0))
  /\ Stores(0, Address(rsp'))
  /\ FallsThrough
  /\ UNCHANGED rbp

\* Mutant: rsp is not taken back.
NasmFree_KeepsRsp ==
  /\ Runs_({"FREE"})
  /\ FallsThrough
  /\ UNCHANGED <<memory, rsp, rbp, operands>>

NasmFree ==
  /\ Runs_({"FREE"})
  /\ rsp' = rsp - NasmOp.arg
  /\ FallsThrough
  /\ UNCHANGED <<memory, rbp, operands>>

NasmStore ==
  /\ Runs_({"STORE"})
  /\ memory' = Written(Value(Top), Second)
  /\ operands' = Without(2)
  /\ FallsThrough
  /\ UNCHANGED <<rsp, rbp>>

NasmLoad == Runs_({"LOAD"}) /\ Stores(1, memory[Value(Top)]) /\ OnlyOperands

\* Labels are numbered as the opcodes are, a jump counts from the one behind it.
NasmJump ==
  /\ Runs_({"JUMP"})
  /\ rip' = <<rip[1], rip[2] + 1 + NasmOp.arg>>
  /\ UNCHANGED <<memory, rsp, rbp, operands, fault>>

NasmJumpIf ==
  /\ Runs_({"JUMP_IF", "JUMP_IF_NOT"})
  /\ rip' = <<rip[1], rip[2] + 1 + (IF (Value(Top) # 0) = (NasmOp.op = "JUMP_IF")
                                      THEN NasmOp.arg ELSE 0)>>
  /\ operands' = Without(1)
  /\ UNCHANGED <<memory, rsp, rbp, fault>>

\* call pushes the address of the instruction behind it.
NasmCall ==
  /\ Runs_({"CALL"})
  /\ ~ir.functions[NasmOp.name].external
  /\ memory' = Written(rsp + 1, <<"return", rip[1], rip[2] + 1>>)
  /\ rsp' = rsp + 1
  /\ rip' = <<NasmOp.name, 0>>
  /\ UNCHANGED <<rbp, operands, fault>>

\* The routines of the runtime leave the stack as it was.
NasmGetchar ==
  /\ Runs_({"CALL"}) /\ NasmOp.name = "getchar" /\ ir.functions[NasmOp.name].external
  /\ \E c \in Input \cup {0} : Stores(0, Int_(c))
  /\ OnlyOperands

NasmPutchar ==
  /\ Runs_({"CALL"}) /\ NasmOp.name = "putchar" /\ ir.functions[NasmOp.name].external
  /\ operands' = Without(1)
  /\ OnlyOperands

NasmRet ==
  /\ Runs_({"RET"})
  /\ rip' = <<memory[rsp][2], memory[rsp][3]>>
  /\ rsp' = rsp - 1
  /\ UNCHANGED <<memory, rbp, operands, fault>>

NasmInit ==
  /\ memory = <<>> /\ rsp = 0 /\ rbp = 0
  /\ operands = <<>>
  /\ rip = Outside
  /\ fault = "none"

\* mainCRTStartup calls a function, with arguments.
NasmStart(f, args) ==
  /\ rip = Outside
  /\ memory' = <<(<<"return">> \o Outside)>>
  /\ rsp' = 1 /\ rbp' = 0
  /\ operands' = [i \in DOMAIN args |-> Int_(args[i])]
  /\ rip' = <<f, 0>>
  /\ UNCHANGED fault

NasmNext ==
  \/ NasmNop \/ NasmPushConstant \/ NasmPushVariable \/ NasmDiscard \/ NasmClone
  \/ NasmBinary \/ NasmDivideError \/ NasmUnary
  \/ NasmFramePush \/ NasmFramePop \/ NasmAlloc \/ NasmFree \/ NasmStore \/ NasmLoad
  \/ NasmJump \/ NasmJumpIf \/ NasmCall \/ NasmGetchar \/ NasmPutchar \/ NasmRet

================================================================================
