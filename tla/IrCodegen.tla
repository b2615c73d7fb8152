------------------------------- MODULE IrCodegen -------------------------------
(***************************************************************************)
(* The code generator (src/ir.cpp): from the statements of a function to    *)
(* the opcodes IrMachine runs.                                              *)
(*                                                                          *)
(* A statement or expression is a record with a field type, named after the *)
(* AST_ type of the node, and the fields its type needs.  Names are unique  *)
(* in a program, so that a search through the scopes is an application of   *)
(* offset.  The state of the generator, cs, is                              *)
(*   code         the opcodes of the current function                       *)
(*   stack_index  words of variables in scope at this point of the code     *)
(*   global_index words of global variables placed so far                   *)
(*   offset       the offset given to each variable so far                  *)
(*   on_stack     the variables that were given a place on the stack        *)
(*   break_stmt, continue_stmt   jumps whose target is not known yet        *)
(*   reverse      children of the list that is being compiled               *)
(*   crashed      compile_expression was called with a null pointer         *)
(***************************************************************************)
EXTENDS Integers, Sequences, SequencesExt

CONSTANT ArrayWords  \* words of an array variable, 100 * 100 in the program

EmptyState ==
  [code |-> <<>>, stack_index |-> 0, global_index |-> 0, offset |-> <<>>, on_stack |-> {},
   break_stmt |-> <<>>, continue_stmt |-> <<>>, reverse |-> <<>>, crashed |-> FALSE]

emit_op(cs, op, arg, name) ==
  [cs EXCEPT !.code = Append(@, [op |-> op, arg |-> arg, name |-> name])]

\* Emits without an operand.
Emit(cs, op) == emit_op(cs, op, 0, "")

\* Index of the opcode emitted last.
LastOp(cs) == Len(cs.code)

\* op->s_operand for a jump at index at to the opcode emitted next.
JumpHere(cs, at) == [cs EXCEPT !.code[at].arg = Len(cs.code) - at]

Assign(f, x, v) == [y \in DOMAIN f \cup {x} |-> IF y = x THEN v ELSE f[y]]

\* Offset of a variable; zero before its declaration is compiled.
OffsetOf(cs, name) == IF name \in DOMAIN cs.offset THEN cs.offset[name] ELSE 0

--------------------------------------------------------------------------------
(* Expressions.  The result: the new state, whether a variable or a memory cell *)
(* is denoted (accessable), and the opcode that loads it (emmited_op).          *)

Value(cs) == [cs |-> cs, accessable |-> FALSE, emmited_op |-> 0]

Place(cs) == [cs |-> cs, accessable |-> TRUE, emmited_op |-> LastOp(cs)]

\* Turns the opcode that loads a variable into one that yields its address.
AddressOp(op) ==
  CASE op = "PUSH_GLOBAL" -> "PUSH_GEA"
    [] op = "PUSH_STACK" -> "PUSH_SEA"
    [] OTHER -> "INVALID"

RECURSIVE compile_expression(_, _), CompileReversed(_, _), CompileTargets(_, _)

compile_expression(cs, e) ==
  IF cs.crashed THEN Value(cs) ELSE
  CASE e.type = "EMPTY" -> Value(cs)

    [] e.type = "CONST_INT" -> Value(emit_op(cs, "PUSH_SIGN", e.value, ""))

    [] e.type = "IDENT" ->
         Place(emit_op(cs, IF e.name \in cs.on_stack THEN "PUSH_STACK" ELSE "PUSH_GLOBAL",
                       OffsetOf(cs, e.name), e.name))

    [] e.type = "UNARY" ->
         LET lhs == compile_expression(cs, e.left)
         IN  [lhs EXCEPT !.cs = Emit(@, e.op)]

    [] e.type = "BINARY" ->
         LET rhs == compile_expression(cs, e.right)
             lhs == compile_expression(rhs.cs, e.left)
         IN  [lhs EXCEPT !.cs = Emit(@, e.op)]

    \* BIN_LOG_OR and BIN_LOG_AND: the jump over the right side.
    [] e.type = "LOGICAL" ->
         LET lhs == compile_expression(cs, e.left)
             jump == Emit(Emit(lhs.cs, "CLONE"),
                          IF e.op = "OR" THEN "JUMP_IF" ELSE "JUMP_IF_NOT")
             rhs == compile_expression(Emit(jump, "POP"), e.right)
         IN  [lhs EXCEPT !.cs = JumpHere(rhs.cs, LastOp(jump))]

    [] e.type = "UNARY_REF" ->
         LET value == compile_expression(cs, e.left)
             code == value.cs.code
         IN  IF ~value.accessable THEN value
             ELSE [value EXCEPT !.cs.code[value.emmited_op].op =
                     IF @ = "LOAD" THEN "NOP" ELSE AddressOp(@)]

    [] e.type = "UNARY_DEREF" ->
         Place(Emit(compile_expression(cs, e.left).cs, "LOAD"))

    \* The arguments, then the callee: its load becomes the call.
    [] e.type = "FUNC_CALL" ->
         LET args == compile_expression(cs, e.right)
             callee == compile_expression(args.cs, e.left)
         IN  IF callee.cs.crashed \/ ~callee.accessable
               THEN [callee EXCEPT !.cs.crashed = TRUE]
               ELSE [callee EXCEPT !.cs.code[callee.emmited_op].op = "CALL"]

    [] e.type = "BIN_ASSIGN" ->
         LET value == compile_expression(cs, e.right)
             target == compile_expression(value.cs, e.left)
             at == target.emmited_op
         IN  IF target.cs.crashed \/ ~target.accessable THEN target
             ELSE IF target.cs.code[at].op = "LOAD"
               THEN [target EXCEPT !.cs.code[at].op = "STORE"]
               ELSE LET addressed == [target EXCEPT !.cs.code[at].op = AddressOp(@)]
                    IN  IF addressed.cs.code[at].op = "INVALID" THEN addressed
                        ELSE [addressed EXCEPT !.cs = Emit(@, "STORE")]

    \* The index, in bytes, is added to the address of the array, or to the
    \* pointer in the variable (e.pointer).
    [] e.type = "ARRAY_ACCESS" ->
         LET index == Emit(emit_op(compile_expression(cs, e.right).cs, "PUSH_SIGN", 8, ""), "MUL")
             base == compile_expression(index, e.left)
             at == base.emmited_op
             address == IF base.accessable /\ ~e.pointer
                          THEN [base.cs EXCEPT !.code[at].op = AddressOp(@)]
                          ELSE base.cs
             load == Emit(Emit(address, "ADD"), "LOAD")
         IN  [base EXCEPT !.cs = load, !.emmited_op = LastOp(load)]

    [] e.type = "BIN_CAST" -> compile_expression(cs, e.right)

    \* The values, then a store for each target.
    [] e.type = "BIN_SWAP" ->
         Value(CompileTargets(compile_expression(cs, e.right).cs, e.left.list))

    \* The children, last one first; reverse is shared by all lists.
    [] e.type = "SEPARATION" ->
         Value(CompileReversed([cs EXCEPT !.reverse = e.list], Len(e.list)))

\* Mutant: a child that is missing on the stack is skipped.
CompileReversed_Skips(cs, count) ==
  IF count = 0 \/ cs.reverse = <<>> THEN cs
  ELSE CompileReversed(compile_expression([cs EXCEPT !.reverse = Front(@)], Last(cs.reverse)).cs,
                       count - 1)

\* The second loop of AST_SEPARATION: count children are still to be popped.
CompileReversed(cs, count) ==
  IF count = 0 \/ cs.crashed THEN cs
  ELSE IF cs.reverse = <<>> THEN [cs EXCEPT !.crashed = TRUE]
  ELSE LET child == Last(cs.reverse)
           rest == [cs EXCEPT !.reverse = Front(@)]
       IN  CompileReversed(compile_expression(rest, child).cs, count - 1)

\* The loop of AST_BIN_SWAP.  A target that is a memory cell ends it.
CompileTargets(cs, targets) ==
  IF targets = <<>> \/ cs.crashed THEN cs
  ELSE LET target == compile_expression(cs, Head(targets))
           at == target.emmited_op
       IN  IF ~target.accessable THEN CompileTargets(target.cs, Tail(targets))
           ELSE IF target.cs.code[at].op = "LOAD"
             THEN [target.cs EXCEPT !.code[at].op = "STORE"]
             ELSE CompileTargets(Emit([target.cs EXCEPT !.code[at].op = AddressOp(@)], "STORE"),
                                 Tail(targets))

--------------------------------------------------------------------------------
(* Statements.                                                                  *)

\* The words a declaration takes.
SizeOf(variable) == IF variable.is_array THEN ArrayWords ELSE 1

\* Gives the pending jumps at the end of the stack of jumps the target that is
\* emitted next, down to the height the stack had before the loop.
RECURSIVE PatchJumps(_, _, _)
PatchJumps(cs, jumps, from) ==
  IF Len(jumps) <= from THEN cs
  ELSE PatchJumps(JumpHere(cs, Last(jumps)), Front(jumps), from)

\* Mutant: the offset is the one before the variable.
Placed_Before(cs, variable) ==
  LET placed == [cs EXCEPT !.stack_index = @ + SizeOf(variable),
                           !.offset = Assign(@, variable.name, cs.stack_index),
                           !.on_stack = @ \cup {variable.name}]
  IN  Emit(emit_op(placed, "ALLOC", SizeOf(variable), variable.name), "STORE")

\* A new block for a local variable or a parameter, and a store into it.
Placed(cs, variable) ==
  LET index == cs.stack_index + SizeOf(variable)
      placed == [cs EXCEPT !.stack_index = index,
                           !.offset = Assign(@, variable.name, index),
                           !.on_stack = @ \cup {variable.name}]
  IN  Emit(emit_op(placed, "ALLOC", SizeOf(variable), variable.name), "STORE")

\* A local variable: its value, then its place.
compile_variable(cs, variable) == Placed(compile_expression(cs, variable.expr).cs, variable)

compile_mul_variables(cs, variables) == FoldLeft(compile_variable, cs, variables)

\* The declared words a return, break or continue gives back.
FreeIfAny(cs, alloc_count) ==
  IF alloc_count = 0 THEN cs ELSE emit_op(cs, "FREE", alloc_count, "")

\* The end of a loop whose test was at index start and its exit at index exit:
\* body is the state after its block, before the one in front of the loop.
LoopBack(body, start) == emit_op(body, "JUMP", start - (Len(body.code) + 1), "")

\* Mutant: the exit of the loop jumps to the jump back.
LoopEnd_Short(before, back, exit) ==
  LET short == [back EXCEPT !.code[exit].arg = Len(back.code) - exit - 1]
  IN  [PatchJumps(PatchJumps(short, back.continue_stmt, Len(before.continue_stmt)),
                  back.break_stmt, Len(before.break_stmt))
         EXCEPT !.continue_stmt = before.continue_stmt, !.break_stmt = before.break_stmt]

LoopEnd(before, back, exit) ==
  [PatchJumps(PatchJumps(JumpHere(back, exit), back.continue_stmt, Len(before.continue_stmt)),
              back.break_stmt, Len(before.break_stmt))
     EXCEPT !.continue_stmt = before.continue_stmt, !.break_stmt = before.break_stmt]

\* A jump whose target a later statement of the program sets.
PendingJump(cs, alloc_count, name) ==
  emit_op(FreeIfAny(cs, alloc_count), "JUMP", 0, name)

\* Mutant: variables are counted, not their words.
AllocatedBy_Counts(s) == IF s.type = "MULT_DEF" THEN Len(s.list) ELSE 0

\* The words a statement adds to the block it is in.
AllocatedBy(s) ==
  IF s.type = "MULT_DEF" THEN FoldLeft(LAMBDA n, v : n + SizeOf(v), 0, s.list) ELSE 0

\* The condition of an if or a loop, and the jump over what it guards.
Branch(cs, condition) == Emit(compile_expression(cs, condition).cs, "JUMP_IF_NOT")

RECURSIVE compile_statement(_, _, _)

\* The loop of compile_block; alloc_count is what the block declared so far.
CompileStatements(cs, stmts) ==
  FoldLeft(LAMBDA done, s : [cs |-> compile_statement(done.cs, s, done.alloc_count),
                             alloc_count |-> done.alloc_count + AllocatedBy(s)],
           [cs |-> cs, alloc_count |-> 0], stmts)

\* The end of a block that is no function body: its variables are given back.
CloseBlock(done) == FreeIfAny(done.cs, done.alloc_count)

compile_block(cs, block, frame_pointer_free) ==
  [(IF frame_pointer_free THEN CompileStatements(cs, block.list).cs
                          ELSE CloseBlock(CompileStatements(cs, block.list)))
     EXCEPT !.stack_index = cs.stack_index]

\* The blocks of an if and a loop, from the state after the branch.
Guarded(branch, block) == JumpHere(compile_block(branch, block, FALSE), LastOp(branch))

ElseBranch(end, branch, other) ==
  JumpHere(compile_statement(JumpHere(end, LastOp(branch)), other, 0), LastOp(end))

IfElse(branch, s) ==
  ElseBranch(Emit(compile_block(branch, s.center, FALSE), "JUMP"), branch, s.right)

Loop(before, branch, block) ==
  LoopEnd(before, LoopBack(compile_block(branch, block, FALSE), LastOp(before)), LastOp(branch))

compile_statement(cs, s, alloc_count) ==
  CASE s.type = "MULT_DEF" -> compile_mul_variables(cs, s.list)
    [] s.type = "BLOCK" -> compile_block(cs, s, FALSE)
    [] s.type = "IF_STMT" -> Guarded(Branch(cs, s.left), s.right)
    [] s.type = "IF_ELSE_STMT" -> IfElse(Branch(cs, s.left), s)
    [] s.type = "WHILE_STMT" -> Loop(cs, Branch(cs, s.left), s.right)
    [] s.type = "RET_STMT" ->
         Emit(Emit(FreeIfAny(compile_expression(cs, s.left).cs, alloc_count),
                   "STACK_FRAME_POP"), "RET")
    [] s.type = "BREAK_STMT" ->
         [PendingJump(cs, alloc_count, "break") EXCEPT
            !.break_stmt = Append(@, LastOp(FreeIfAny(cs, alloc_count)) + 1)]
    [] s.type = "CONTINUE_STMT" ->
         [PendingJump(cs, alloc_count, "continue") EXCEPT
            !.continue_stmt = Append(@, LastOp(FreeIfAny(cs, alloc_count)) + 1)]
    [] s.type = "EXPR" -> compile_expression(cs, s.left).cs

--------------------------------------------------------------------------------
(* Functions and globals.                                                       *)

\* The prologue stores the arguments into a block each, the first one first.
CompileParams(cs, params) == FoldLeft(Placed, cs, params)

\* What follows the body of a function.
Epilogue(body, returns) ==
  IF returns THEN Emit(body, "INVALID") ELSE Emit(Emit(body, "STACK_FRAME_POP"), "RET")

\* Mutant: a function without a result keeps its frame.
compile_function_KeepsFrame(globals, f) ==
  Emit(compile_block(CompileParams(Emit([EmptyState EXCEPT !.offset = globals],
                                        "STACK_FRAME_PUSH"), f.params), f.body, TRUE), "RET")

\* compile_function; globals gives the offset of every global variable.
compile_function(globals, f) ==
  Epilogue(compile_block(CompileParams(Emit([EmptyState EXCEPT !.offset = globals],
                                            "STACK_FRAME_PUSH"), f.params), f.body, TRUE),
           f.returns)

\* A global variable: its value is stored at the next index of the globals.
PlacedGlobal(cs, g) ==
  emit_op([cs EXCEPT !.offset = Assign(@, g.name, cs.global_index),
                     !.global_index = @ + SizeOf(g)],
          "SETUP_GLOBAL", cs.global_index, g.name)

GlobalVariable(cs, g) == PlacedGlobal(compile_expression(cs, g.expr).cs, g)

\* statements holds, for each global in the order of the scope's hash table, the
\* variables of the statement that declares it.
compile_globals(statements) ==
  Emit(Emit(FoldLeft(LAMBDA cs, variables : FoldLeft(GlobalVariable, cs, variables),
                     Emit(EmptyState, "STACK_FRAME_PUSH"), statements),
            "STACK_FRAME_POP"), "RET")

GlobalsFunction == "__internal_compile_globals"

\* An entry of ir.functions.
IrFunction(external, code, params, returns) ==
  [external |-> external, code |-> code, params |-> params, returns |-> returns]

\* init and body are the states after the globals and after each function.
Linked(functions, init, body) ==
  [functions |->
     [f \in DOMAIN functions \cup {GlobalsFunction} |->
        IF f = GlobalsFunction THEN IrFunction(FALSE, init.code, 0, FALSE)
        ELSE IF functions[f].external
          THEN IrFunction(TRUE, <<>>, Len(functions[f].params), FALSE)
          ELSE IrFunction(FALSE, body[f].code, Len(functions[f].params), functions[f].returns)],
   globals |-> init.global_index,
   crashed |-> init.crashed \/ \E f \in DOMAIN body : body[f].crashed]

CompileFunctions(functions, init) ==
  Linked(functions, init,
         [f \in {g \in DOMAIN functions : ~functions[g].external} |->
            compile_function(init.offset, functions[f])])

\* compile_program: p has the globals in table order and the functions by name.
\* crashed tells whether the generator followed a null pointer.
compile_program(p) == CompileFunctions(p.functions, compile_globals(p.globals))
================================================================================
