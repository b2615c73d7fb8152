--------------------------------- MODULE IrCode ---------------------------------
(***************************************************************************)
(* What the interpreter relies on but never checks: the code of a function   *)
(* gives every opcode one view of the memory and the operands of its call,   *)
(* whatever way leads there.  A view is assigned to the indices of the code  *)
(* that can be reached; the opcodes say what each does to it.                *)
(*                                                                          *)
(* The interpreter keeps its memory in order for all code of this kind       *)
(* (IrMachineProofs), and the generator emits no other (MCIr).               *)
(***************************************************************************)
EXTENDS IrMachine

\* The indices, from zero, at which a call may be behind the opcode at index i.
Follows(code, i) ==
  LET op == code[i + 1]
  IN  CASE op.op = "JUMP" -> {i + 1 + op.arg}
        [] op.op \in {"JUMP_IF", "JUMP_IF_NOT"} -> {i + 1, i + 1 + op.arg}
        [] op.op \in {"RET", "INVALID"} -> {}
        [] OTHER -> {i + 1}

Defined(p) == {f \in DOMAIN p.functions : ~p.functions[f].external}

Opcodes == [op : STRING, arg : Int, name : STRING]

\* Calls are of functions that exist, and the entry is one with code.
WellFormed(p) ==
  /\ Entry \in Defined(p)
  /\ \A f \in Defined(p) :
       /\ p.functions[f].code \in Seq(Opcodes)
       /\ \A n \in 1 .. Len(p.functions[f].code) :
            p.functions[f].code[n].op = "CALL" => p.functions[f].code[n].name \in DOMAIN p.functions

--------------------------------------------------------------------------------
(* Scopes: how much of the frame of a call belongs to which scope, as far as     *)
(* every way to the opcode agrees.  A level is the size of the frame in front of *)
(* a scope; the largest one is what is known to be in the frame.  A call without *)
(* a frame has no levels.  A break may leave more blocks behind than that.       *)

TopLevel(levels) == CHOOSE top \in levels : \A l \in levels : l <= top

IsScopes(levels) ==
  /\ levels \subseteq Nat
  /\ levels # {} => 0 \in levels /\ \E top \in levels : \A l \in levels : l <= top

\* An opcode that makes or gives back memory does so inside of a frame, and what
\* IR_FREE gives back are whole scopes; a call has a frame, and a return has none.
ScopesAllow(op, levels) ==
  CASE op.op \in {"STACK_FRAME_PUSH", "RET"} -> levels = {}
    [] op.op \in {"STACK_FRAME_POP", "CALL"} -> levels # {}
    [] op.op = "ALLOC" -> levels # {} /\ op.arg \in Nat
    [] op.op = "FREE" -> levels # {} /\ op.arg \in Nat /\ TopLevel(levels) - op.arg \in levels
    [] OTHER -> TRUE

ScopesAfter(op, levels) ==
  CASE op.op = "STACK_FRAME_PUSH" -> {0}
    [] op.op = "STACK_FRAME_POP" -> {}
    [] op.op = "ALLOC" -> levels \cup {TopLevel(levels) + op.arg}
    [] op.op = "FREE" -> {l \in levels : l <= TopLevel(levels) - op.arg}
    [] OTHER -> levels

\* scopes gives the levels at each index that is reached: a way may bring more than
\* those, but not a frame where the others have none.
ScopedBy(code, scopes) ==
  /\ DOMAIN scopes \subseteq Nat
  /\ 0 \in DOMAIN scopes /\ scopes[0] = {}
  /\ \A i \in DOMAIN scopes :
       /\ IsScopes(scopes[i])
       /\ i < Len(code) =>
            /\ ScopesAllow(code[i + 1], scopes[i])
            /\ \A j \in Follows(code, i) :
                 /\ j \in DOMAIN scopes
                 /\ scopes[j] \subseteq ScopesAfter(code[i + 1], scopes[i])
                 /\ scopes[j] = {} => ScopesAfter(code[i + 1], scopes[i]) = {}

Scoped(p) ==
  /\ WellFormed(p)
  /\ \A f \in Defined(p) : \E scopes : ScopedBy(p.functions[f].code, scopes)

--------------------------------------------------------------------------------
(* Operands: how many of them belong to the running call.                        *)

\* Number of operands behind an opcode, if it ran without a violation.  A call of an
\* external function that the interpreter does not know leaves its arguments.
OperandsAfter(p, op, n) ==
  CASE op.op = "CALL" ->
         LET callee == p.functions[op.name]
         IN  IF callee.external
               THEN CASE op.name = "getchar" -> n + 1
                      [] op.name = "putchar" -> n - 1
                      [] OTHER -> n
               ELSE n - callee.params + Truth(callee.returns)
    [] op.op = "STORE" -> n - 2
    [] op.op \in BinaryOps \cup {"POP", "SETUP_GLOBAL", "JUMP_IF", "JUMP_IF_NOT"} -> n - 1
    [] op.op \in {"PUSH_SIGN", "PUSH_UNSIGN", "PUSH_GLOBAL", "PUSH_GEA",
                  "PUSH_STACK", "PUSH_SEA", "CLONE", "ALLOC"} -> n + 1
    [] OTHER -> n

\* operands gives their number at each index that is reached: enough for the opcode,
\* and at a return the result, or nothing.
BalancedBy(p, f, operands) ==
  LET function == p.functions[f]
  IN  /\ DOMAIN operands \subseteq Nat
      /\ 0 \in DOMAIN operands /\ operands[0] = function.params
      /\ \A i \in DOMAIN operands : operands[i] \in Nat
      /\ \A i \in DOMAIN operands : i < Len(function.code) =>
           LET op == function.code[i + 1]
           IN  /\ operands[i] >= Takes(p, op)
               /\ op.op = "RET" => operands[i] = Truth(function.returns)
               /\ \A j \in Follows(function.code, i) :
                    j \in DOMAIN operands /\ operands[j] = OperandsAfter(p, op, operands[i])

Balanced(p) ==
  /\ WellFormed(p)
  /\ p.functions[Entry].params = 0
  /\ \A f \in Defined(p) :
       /\ p.functions[f].params \in Nat /\ p.functions[f].returns \in BOOLEAN
       /\ \E operands : BalancedBy(p, f, operands)

--------------------------------------------------------------------------------
(* Blocks: which variables are in the frame, where every way to the opcode       *)
(* brings the same.                                                              *)

\* The frame of a call, as far as the call has one: its blocks, from the front.
NoFrame == [framed |-> FALSE, blocks |-> <<>>]
Frame(blocks) == [framed |-> TRUE, blocks |-> blocks]

SizeOfAll(blocks) ==
  IF blocks = <<>> THEN 0 ELSE blocks[Len(blocks)].start + blocks[Len(blocks)].size

\* The first blocks, when the words behind them are given back.
Kept(blocks, words) ==
  SubSeq(blocks, 1, CHOOSE n \in 0 .. Len(blocks) :
                      SizeOfAll(SubSeq(blocks, 1, n)) = SizeOfAll(blocks) - words)

\* IR_FREE gives back the last blocks, all of each, and a variable is read at a
\* place inside of its own block, the last one of its name.
FrameAllows(op, frame) ==
  CASE op.op \in {"STACK_FRAME_PUSH", "RET"} -> ~frame.framed
    [] op.op \in {"STACK_FRAME_POP", "CALL"} -> frame.framed
    [] op.op = "ALLOC" -> frame.framed /\ op.arg \in Nat \ {0}
    [] op.op = "FREE" ->
         /\ frame.framed /\ op.arg \in Nat
         /\ \E n \in 0 .. Len(frame.blocks) :
              SizeOfAll(SubSeq(frame.blocks, 1, n)) = SizeOfAll(frame.blocks) - op.arg
    [] op.op \in {"PUSH_STACK", "PUSH_SEA"} ->
         /\ frame.framed /\ op.arg \in Nat
         /\ \E n \in 1 .. Len(frame.blocks) :
              /\ Contains(frame.blocks[n], op.arg - 1)
              /\ frame.blocks[n].name = op.name
              /\ \A m \in n + 1 .. Len(frame.blocks) : frame.blocks[m].name # op.name
    [] OTHER -> TRUE

FrameAfter(op, frame) ==
  CASE op.op = "STACK_FRAME_PUSH" -> Frame(<<>>)
    [] op.op = "STACK_FRAME_POP" -> NoFrame
    [] op.op = "ALLOC" ->
         Frame(Append(frame.blocks,
                      [start |-> SizeOfAll(frame.blocks), size |-> op.arg, name |-> op.name]))
    [] op.op = "FREE" -> Frame(Kept(frame.blocks, op.arg))
    [] OTHER -> frame

TidyBy(code, frames) ==
  /\ DOMAIN frames \subseteq Nat
  /\ 0 \in DOMAIN frames /\ frames[0] = NoFrame
  /\ \A i \in DOMAIN frames : i < Len(code) =>
       /\ FrameAllows(code[i + 1], frames[i])
       /\ \A j \in Follows(code, i) :
            j \in DOMAIN frames /\ frames[j] = FrameAfter(code[i + 1], frames[i])

Tidy(p) ==
  /\ WellFormed(p)
  /\ \A f \in Defined(p) : \E frames : TidyBy(p.functions[f].code, frames)
================================================================================
