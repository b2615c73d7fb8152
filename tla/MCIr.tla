---------------------------------- MODULE MCIr ---------------------------------
(***************************************************************************)
(* The code generator and the interpreter together, on small programs.      *)
(***************************************************************************)
EXTENDS IrCode, TLC

CONSTANT ArrayWords

Gen == INSTANCE IrCodegen
Ref == INSTANCE IrMeaning

--------------------------------------------------------------------------------
(* Syntax.                                                                      *)

N(v) == [type |-> "CONST_INT", value |-> v]
V(x) == [type |-> "IDENT", name |-> x]
Bin(op, a, b) == [type |-> "BINARY", op |-> op, left |-> a, right |-> b]
Log(op, a, b) == [type |-> "LOGICAL", op |-> op, left |-> a, right |-> b]
Un(op, a) == [type |-> "UNARY", op |-> op, left |-> a]
Ref_(a) == [type |-> "UNARY_REF", left |-> a]
Deref(a) == [type |-> "UNARY_DEREF", left |-> a]
Empty == [type |-> "EMPTY"]
List(es) == [type |-> "SEPARATION", list |-> es]
\* The parser makes a list of any expressions in brackets, even of one.
Calls(f, args) ==
  [type |-> "FUNC_CALL", left |-> V(f), right |-> IF args = <<>> THEN Empty ELSE List(args)]
Item(a, i) == [type |-> "ARRAY_ACCESS", left |-> V(a), right |-> List(<<i>>), pointer |-> FALSE]
Assigns(a, b) == [type |-> "BIN_ASSIGN", left |-> a, right |-> b]

Expr(e) == [type |-> "EXPR", left |-> e]
Sets(x, e) == Expr(Assigns(V(x), e))
Var(x, e) == [name |-> x, expr |-> e, is_array |-> FALSE]
Array(x) == [name |-> x, expr |-> N(0), is_array |-> TRUE]
Defs(vs) == [type |-> "MULT_DEF", list |-> vs]
Def(x, e) == Defs(<<Var(x, e)>>)
Block(ss) == [type |-> "BLOCK", list |-> ss]
If(c, ss) == [type |-> "IF_STMT", left |-> c, right |-> Block(ss)]
IfElse(c, ss, t) == [type |-> "IF_ELSE_STMT", left |-> c, center |-> Block(ss), right |-> t]
While(c, ss) == [type |-> "WHILE_STMT", left |-> c, right |-> Block(ss)]
Return(e) == [type |-> "RET_STMT", left |-> IF e = Empty THEN e ELSE List(<<e>>)]
Break == [type |-> "BREAK_STMT"]
Continue == [type |-> "CONTINUE_STMT"]

Params(xs) == [i \in 1..Len(xs) |-> Var(xs[i], Empty)]
Func(xs, returns, ss) ==
  [external |-> FALSE, params |-> Params(xs), returns |-> returns, body |-> Block(ss)]
External(xs) == [external |-> TRUE, params |-> Params(xs), returns |-> FALSE, body |-> Block(<<>>)]

\* The program and its source, which the properties refer to.  A program that
\* crashes the generator is not run: its code is replaced by a return.
Runnable(c, p) ==
  [functions |-> IF c.crashed
                   THEN Gen!GlobalsFunction :>
                          [c.functions[Gen!GlobalsFunction] EXCEPT
                             !.code = <<[op |-> "RET", arg |-> 0, name |-> ""]>>]
                   ELSE c.functions,
   globals |-> c.globals, crashed |-> c.crashed, source |-> p]

Compiled(p) == Runnable(Gen!compile_program(p), p)

--------------------------------------------------------------------------------
(* Expressions: one function with a return statement.                           *)

Atoms == {N(2), V("a"), V("b")}

Joined(as, bs) ==
  {Bin(op, a, b) : op \in {"SUB", "CMP_LT"}, a \in as, b \in bs}
    \cup {Log(op, a, b) : op \in {"OR", "AND"}, a \in as, b \in bs}

Shallow == Joined(Atoms, Atoms)

\* Two operators, on the left, on the right, under a call and in an argument list.
Deep == Joined(Shallow, {V("a")}) \cup Joined({V("b")}, Shallow)
          \cup {Calls("dec", <<e>>) : e \in Shallow}
          \cup {Calls("less", <<e, V("a")>>) : e \in Shallow}
          \cup {Bin("MUL", Un("NEG", V("a")), Calls("dec", <<V("b")>>)),
                Un("LOG_NOT", Calls("dec", <<N(1)>>)),
                Calls("less", <<Calls("less", <<N(1), V("b")>>), V("a")>>)}

Helpers == [dec |-> Func(<<"c">>, TRUE, <<Return(Bin("SUB", V("c"), N(1)))>>),
            less |-> Func(<<"d", "e">>, TRUE, <<Return(Bin("CMP_LT", V("d"), V("e")))>>)]

\* g1 := f(1, 3); g2 := f(3, 1)
ExpressionProgram(e) ==
  [globals |-> << <<Var("g1", Calls("f", <<N(1), N(3)>>))>>,
                  <<Var("g2", Calls("f", <<N(3), N(1)>>))>> >>,
   functions |-> ("f" :> Func(<<"a", "b">>, TRUE, <<Return(e)>>)) @@ Helpers]

\* g1, g2 := f(1, 3), f(3, 1): the statement is compiled for each of its globals,
\* and the second time their places are the ones that are used.
ListProgram(e) ==
  LET both == <<Var("g1", Calls("f", <<N(1), N(3)>>)), Var("g2", Calls("f", <<N(3), N(1)>>))>>
  IN  [ExpressionProgram(e) EXCEPT !.globals = <<both, both>>]

--------------------------------------------------------------------------------
(* Statements: a loop over x with a variable of its own, or none, and then z.   *)

\* Bodies of the loop that leave it only at its end or by a return.
Steady == {
  <<>>,
  <<If(Bin("CMP_EQ", V("x"), N(1)), <<Def("u", V("a")), Return(Bin("ADD", V("u"), V("x")))>>)>>,
  <<IfElse(Bin("CMP_EQ", V("x"), N(0)), <<Def("u", N(1)), Sets("x", V("u"))>>,
           If(Bin("CMP_EQ", V("x"), N(1)), <<Def("w", V("x")), Sets("a", V("w"))>>))>>,
  <<Def("i", N(0)),
    While(Bin("CMP_LT", V("i"), N(2)), <<Def("j", N(1)), Sets("i", Bin("ADD", V("i"), V("j")))>>),
    Sets("a", V("i"))>>,
  <<Def("p", Ref_(V("x"))), Expr(Assigns(Deref(V("p")), Bin("ADD", Deref(V("p")), N(1))))>>,
  <<Defs(<<Var("u", V("x")), Var("w", N(1))>>), Sets("a", Bin("SUB", V("u"), V("w")))>>,
  <<Expr(Calls("skip", <<>>))>> }

\* Bodies with a break or a continue in a nested block, with variables of that block.
Breaks == {
  <<If(Bin("CMP_EQ", V("x"), N(1)), <<Def("u", V("a")), Sets("a", N(7)), Break>>)>>,
  <<If(Bin("CMP_EQ", V("x"), N(1)), <<Break>>)>>,
  <<While(N(1), <<If(V("x"), <<Break>>), Sets("x", N(2))>>)>> }

Continues == {
  <<If(Bin("CMP_EQ", V("x"), N(1)), <<Sets("x", N(2)), Continue>>)>> }

\* x := a; while x < 3 { ... x = x + 1; } z := x - a; return z * 2 + x;
\* own: the variables that the body of the loop declares itself.
LoopFunction(own, body) ==
  Func(<<"a">>, TRUE,
    <<Def("x", V("a")),
      While(Bin("CMP_LT", V("x"), N(3)),
            own \o body \o <<Sets("x", Bin("ADD", V("x"), N(1)))>>),
      Def("z", Bin("SUB", V("x"), V("a"))),
      Return(Bin("ADD", Bin("MUL", V("z"), N(2)), V("x")))>>)

LoopProgram(own, body) ==
  [globals |-> << <<Var("g1", Calls("f", <<N(0)>>))>>, <<Var("g2", Calls("f", <<N(5)>>))>> >>,
   functions |-> [f |-> LoopFunction(own, body), skip |-> Func(<<>>, FALSE, <<>>)]]

Own == {<<>>, <<Def("y", V("a"))>>, <<Defs(<<Array("r"), Var("y", V("x"))>>)>>}

\* Factorial, calling itself.
Recursive ==
  [globals |-> << <<Var("g1", Calls("f", <<N(3)>>))>> >>,
   functions |-> [f |-> Func(<<"n">>, TRUE,
     <<If(Bin("CMP_LT", V("n"), N(2)), <<Return(N(1))>>),
       Def("m", Calls("f", <<Bin("SUB", V("n"), N(1))>>)),
       Return(Bin("MUL", V("n"), V("m")))>>)]]

\* What the generator and the interpreter handle as the language means it: no
\* variable of the loop's own block is in scope at a break, nothing continues,
\* functions neither use globals nor arrays, and no value is left on the stack.
RegularSources ==
  {ExpressionProgram(e) : e \in Shallow \cup Deep}
    \cup {ListProgram(e) : e \in Shallow}
    \cup {LoopProgram(own, body) : own \in Own, body \in Steady}
    \cup {LoopProgram(<<>>, body) : body \in Breaks}
    \cup {Recursive}

--------------------------------------------------------------------------------
(* The rest: whatever the analyzer lets through.                                *)

\* A global whose initializer runs the statements.
Runs(ss) ==
  [globals |-> << <<Var("g0", N(5))>>, <<Var("g1", Calls("f", <<N(1)>>))>> >>,
   functions |-> [f |-> Func(<<"a">>, TRUE, ss),
                  h |-> Func(<<"b", "c">>, TRUE, <<Return(V("c"))>>),
                  getchar |-> External(<<>>), putchar |-> External(<<"ch">>),
                  delay |-> External(<<>>)]]

Odd == {
  <<Return(V("g0"))>>,                                         \* read of a global
  <<Sets("g0", N(7)), Return(N(1))>>,                          \* store to a global
  <<Def("p", Ref_(V("g1"))), Return(Deref(V("p")))>>,          \* pointers to globals
  <<Def("p", Ref_(V("g0"))), Return(Deref(V("p")))>>,
  <<Def("p", Ref_(V("g1"))), Expr(Assigns(Deref(V("p")), N(1))), Return(N(1))>>,
  <<Def("p", N(9)), Return(Deref(V("p")))>>,                   \* wild pointers
  <<Def("p", N(9)), Expr(Assigns(Deref(V("p")), N(1))), Return(N(1))>>,
  <<Def("p", Ref_(V("a"))), Def("q", Ref_(Deref(V("p")))), Return(Deref(V("q")))>>,
  <<If(V("a"), <<Def("u", N(3))>>)>>,                          \* no return
  <<Return(V("z"))>>,                                          \* use before declaration
  <<Expr(Calls("h", <<N(1), N(2)>>)), Return(N(1))>>,    \* value left behind
  <<Return(Bin("DIV", V("a"), N(0)))>>,
  <<Return(Bin("MOD", Un("NEG", N(7)), N(2)))>>,
  <<Return(Bin("MUL", N(9), N(9)))>>,
  <<Return(Bin("DIV", Un("NEG", N(32)), Un("NEG", N(1))))>>,   \* trap
  <<Return(Bin("BIT_AND", Un("BIT_NOT", N(5)), Bin("BIT_OR", N(12), Bin("BIT_XOR", N(9), N(3)))))>>,
  <<Return(Bin("SHIFT_LEFT", Bin("SHIFT_RIGHT", Un("NEG", N(9)), N(2)), N(4)))>>,
  <<Expr(Calls("h", <<N(1), N(2)>>)), Return(Bin("ADD", V("a"), N(1)))>>,
  <<Def("t", Calls("getchar", <<>>)),
    While(V("t"), <<Expr(Calls("putchar", <<V("t")>>)), Sets("t", Calls("getchar", <<>>))>>),
    Expr(Calls("delay", <<>>)), Return(V("t"))>>,
  <<Defs(<<Array("r"), Var("k", N(1))>>),
    Expr(Assigns(Item("r", N(0)), N(6))),
    Return(Item("r", V("k")))>>,
  <<Defs(<<Var("u", N(1)), Var("w", N(2))>>),
    Expr([type |-> "BIN_SWAP", left |-> List(<<V("u"), V("w")>>), right |-> List(<<V("w"), V("u")>>)]),
    Return([type |-> "BIN_CAST", left |-> Empty, right |-> V("u")])>> }

\* Statements that the interpreter and the backend both handle: neither globals nor
\* arrays, and constants that fit in an instruction.
PortableStatements == {
  <<Def("t", Calls("getchar", <<>>)),
    While(V("t"), <<Expr(Calls("putchar", <<V("t")>>)), Sets("t", Calls("getchar", <<>>))>>),
    Return(V("t"))>>,
  <<Def("p", Ref_(V("a"))), Def("q", Ref_(Deref(V("p")))), Return(Deref(V("q")))>>,
  <<Return(Bin("DIV", V("a"), N(0)))>>,
  <<Return(Bin("MOD", Un("NEG", N(7)), N(2)))>>,
  <<Return(Bin("MUL", N(7), N(7)))>>,
  <<Return(Bin("DIV", Bin("SHIFT_LEFT", Un("NEG", V("a")), N(5)), Un("NEG", V("a"))))>>,
  <<Return(Bin("BIT_AND", Un("BIT_NOT", N(5)), Bin("BIT_OR", N(6), Bin("BIT_XOR", N(7), N(3)))))>> }

BalancedSources == RegularSources \cup {Runs(ss) : ss \in PortableStatements}

\* Loops that leave a block behind when a break leaves them.
LeakySources ==
  {LoopProgram(own, body) : own \in Own \ {<<>>}, body \in Breaks}
    \cup {LoopProgram(<<>>,
            <<Def("k", N(0)),
              While(N(1), <<Defs(<<Array("r")>>), If(V("x"), <<Break>>), Sets("x", N(2))>>)>>)}

ContinueSources == {LoopProgram(own, body) : own \in Own, body \in Continues}

OddSources == {Runs(ss) : ss \in Odd}

--------------------------------------------------------------------------------
(* Lists in lists: calls with calls and array accesses among their arguments.   *)

Arguments ==
  LET plain == {N(1), Calls("zero", <<>>)}
      inner == plain \cup {Calls("dec", <<N(1)>>), Item("r", N(1))}
      pairs == {Calls("h", <<a, b>>) : a \in inner, b \in inner}
  IN  inner \cup pairs \cup {Bin("ADD", a, b) : a \in pairs, b \in plain}
        \cup {Calls("dec", <<a>>) : a \in pairs}

ListSources ==
  {[globals |-> << <<Var("g1", Calls("h", <<a, b>>))>> >>,
    functions |-> [r |-> External(<<>>), h |-> External(<<"b", "c">>),
                   dec |-> External(<<"b">>), zero |-> External(<<>>)]] :
     a \in Arguments, b \in Arguments}

Parts(e) ==
  CASE e.type = "SEPARATION" -> {e.list[i] : i \in 1..Len(e.list)}
    [] e.type = "BINARY" -> {e.left, e.right}
    [] e.type \in {"FUNC_CALL", "ARRAY_ACCESS"} -> {e.right}
    [] OTHER -> {}

RECURSIVE HasList(_), HasLateList(_)
HasList(e) == e.type = "SEPARATION" \/ \E part \in Parts(e) : HasList(part)

\* A list inside a list, not in its first place.
HasLateList(e) ==
  \/ e.type = "SEPARATION" /\ \E i \in 2..Len(e.list) : HasList(e.list[i])
  \/ \E part \in Parts(e) : HasLateList(part)

--------------------------------------------------------------------------------
(* The values of Programs.                                                      *)

LeakyPrograms == {Compiled(p) : p \in LeakySources}
ContinuePrograms == {Compiled(p) : p \in ContinueSources}
AnyPrograms ==
  {Compiled(p) : p \in BalancedSources \cup LeakySources \cup ContinueSources
                        \cup OddSources \cup ListSources}
GlobalPrograms ==
  {Compiled(Runs(ss)) : ss \in {<<Return(V("g0"))>>, <<Sets("g0", N(7)), Return(N(1))>>}}

GlobalsFunction == Gen!GlobalsFunction

--------------------------------------------------------------------------------
(* The views of IrCode, by following the code from its first opcode.            *)

\* What all ways to an opcode agree on is what any one of them brings, but for the
\* scopes.
Joined_(views, j, view) ==
  IF j \notin DOMAIN views THEN (j :> view) @@ views
  ELSE [views EXCEPT ![j].scopes = @ \cap view.scopes]

ViewAfter(p, op, view) ==
  [scopes |-> IF ScopesAllow(op, view.scopes) THEN ScopesAfter(op, view.scopes) ELSE {},
   operands |-> OperandsAfter(p, op, view.operands),
   frame |-> IF FrameAllows(op, view.frame) THEN FrameAfter(op, view.frame) ELSE view.frame]

RECURSIVE Follow(_, _, _)
Follow(p, code, views) ==
  LET step(found, i) ==
        IF i \notin DOMAIN found THEN found
        ELSE Gen!FoldSet(LAMBDA j, acc : Joined_(acc, j, ViewAfter(p, code[i + 1], found[i])),
                     found, Follows(code, i))
      next == Gen!FoldLeft(step, views, [n \in 1 .. Len(code) |-> n - 1])
  IN  IF next = views THEN views ELSE Follow(p, code, next)

Views(p, f) ==
  Follow(p, p.functions[f].code,
         0 :> [scopes |-> {}, operands |-> p.functions[f].params, frame |-> NoFrame])

--------------------------------------------------------------------------------
(* Properties.                                                                  *)

\* What the interpreter relies on, the generator sees to: in all code it emits
\* scopes nest, so that nothing is given back that is not there, and in the code of
\* regular programs the operands are balanced and the offsets of variables are
\* those of their blocks, on every way through it (compile_block, compile_statement,
\* compile_function).
CodeIsSound ==
  ip = 0 /\ curr_func = <<Entry>> =>
    /\ WellFormed(ir)
    /\ \A f \in Defined(ir) :
         LET views == Views(ir, f)
             code == ir.functions[f].code
         IN  /\ ScopedBy(code, [i \in DOMAIN views |-> views[i].scopes])
             /\ ir.source \in BalancedSources =>
                  /\ BalancedBy(ir, f, [i \in DOMAIN views |-> views[i].operands])
                  /\ TidyBy(code, [i \in DOMAIN views |-> views[i].frame])

\* The code generator and the interpreter together give every global the value
\* its initializer means, in a program that does not declare getchar
\* (compile_program, then interop_func).
GlobalsHaveMeaning ==
  status = "done" /\ "getchar" \notin DOMAIN ir.functions => globals = Ref!Meaning(ir.source)

\* The children of a list are stacked in state->reverse, which a list inside the
\* list resets: the generator follows a null pointer for exactly those programs
\* that have a list in a list, not in its first place (AST_SEPARATION).
CrashesOnLateLists ==
  ir.crashed <=> \E i \in 1..Len(ir.source.globals) :
                    HasLateList(ir.source.globals[i][1].expr)

\* "jump to start of loop" (src/src/ir.cpp:658): a continue jumps backwards.
ContinueJumpsToStart == [][At({"JUMP"}) /\ Op.name = "continue" => ip' <= ip]_vars

\* "Push global variable (offset)", "Store to address [address] [value]"
\* (src/include/ir.h): reading a global pushes its value, and a store through
\* its address changes it.
GlobalsAreVariables ==
  [][/\ At({"PUSH_GLOBAL"}) => Peek(exec_stack') = globals[Op.arg + 1]
     /\ At({"STORE"}) /\ ValidGlobal(Peek(exec_stack)) =>
          globals'[(Peek(exec_stack) - GLOBALS_OFFSET) \div 8 + 1] = Below(exec_stack)]_vars
================================================================================
