-------------------------------- MODULE IrMeaning ------------------------------
(***************************************************************************)
(* What a program means, independently of how src/ir.cpp compiles it and    *)
(* src/interop.cpp runs it: the reference for the two together.             *)
(*                                                                          *)
(* The syntax is the one of IrCodegen.  An environment maps the variables   *)
(* of the running call to values; the address of a variable is its name.    *)
(* Integers are unbounded, so the reference is for programs whose values    *)
(* stay within a machine word, and it has neither input nor array.          *)
(***************************************************************************)
EXTENDS Integers, Sequences, SequencesExt

LOCAL Truth(b) == IF b THEN 1 ELSE 0

\* Runs body with an environment: how it ended, and with which value.
Ended(env, exit, value) == [env |-> env, exit |-> exit, value |-> value]

Bind(env, x, v) == [y \in DOMAIN env \cup {x} |-> IF y = x THEN v ELSE env[y]]

BindAll(names, values) ==
  [x \in {names[i].name : i \in 1..Len(names)} |->
     values[CHOOSE i \in 1..Len(names) : names[i].name = x]]

Arithmetic(op, a, b) ==
  CASE op = "ADD" -> a + b
    [] op = "SUB" -> a - b
    [] op = "MUL" -> a * b
    [] op = "CMP_EQ" -> Truth(a = b)
    [] op = "CMP_NEQ" -> Truth(a # b)
    [] op = "CMP_LT" -> Truth(a < b)
    [] op = "CMP_GT" -> Truth(a > b)
    [] op = "CMP_LTE" -> Truth(a <= b)
    [] op = "CMP_GTE" -> Truth(a >= b)

RECURSIVE Eval(_, _, _), Run(_, _, _), RunAll(_, _, _), Returned(_, _, _)

\* The value of an expression; assignments are statements here.
Eval(fs, env, e) ==
  CASE e.type = "CONST_INT" -> e.value
    [] e.type = "IDENT" -> env[e.name]
    [] e.type = "UNARY" ->
         LET a == Eval(fs, env, e.left) IN IF e.op = "NEG" THEN -a ELSE Truth(a = 0)
    [] e.type = "BINARY" -> Arithmetic(e.op, Eval(fs, env, e.left), Eval(fs, env, e.right))
    [] e.type = "LOGICAL" ->
         LET a == Eval(fs, env, e.left)
         IN  IF (a # 0) = (e.op = "OR") THEN a ELSE Eval(fs, env, e.right)
    [] e.type = "UNARY_REF" -> e.left.name
    [] e.type = "UNARY_DEREF" -> env[Eval(fs, env, e.left)]
    [] e.type = "FUNC_CALL" ->
         LET args == IF e.right.type = "EMPTY" THEN <<>> ELSE e.right.list
         IN  Returned(fs, e.left.name, [i \in 1..Len(args) |-> Eval(fs, env, args[i])])
    [] e.type = "SEPARATION" -> Eval(fs, env, e.list[1])
    [] e.type = "EMPTY" -> 0

\* What the call of a function returns.
Returned(fs, f, args) == Run(fs, BindAll(fs[f].params, args), fs[f].body).value

\* The variable an assignment changes.
Target(fs, env, e) ==
  IF e.type = "UNARY_DEREF" THEN Eval(fs, env, e.left) ELSE e.name

Run(fs, env, s) ==
  CASE s.type = "MULT_DEF" ->
         IF s.list = <<>> THEN Ended(env, "next", 0)
         ELSE Run(fs, Bind(env, Head(s.list).name, Eval(fs, env, Head(s.list).expr)),
                  [s EXCEPT !.list = Tail(@)])
    [] s.type = "EXPR" /\ s.left.type = "BIN_ASSIGN" ->
         Ended(Bind(env, Target(fs, env, s.left.left), Eval(fs, env, s.left.right)), "next", 0)
    [] s.type = "EXPR" /\ s.left.type # "BIN_ASSIGN" -> Ended(env, "next", 0)
    [] s.type = "BLOCK" -> RunAll(fs, env, s.list)
    [] s.type = "IF_STMT" ->
         IF Eval(fs, env, s.left) # 0 THEN Run(fs, env, s.right) ELSE Ended(env, "next", 0)
    [] s.type = "IF_ELSE_STMT" ->
         Run(fs, env, IF Eval(fs, env, s.left) # 0 THEN s.center ELSE s.right)
    [] s.type = "WHILE_STMT" ->
         IF Eval(fs, env, s.left) = 0 THEN Ended(env, "next", 0)
         ELSE LET body == Run(fs, env, s.right)
              IN  CASE body.exit = "return" -> body
                    [] body.exit = "break" -> Ended(body.env, "next", 0)
                    [] OTHER -> Run(fs, body.env, s)
    [] s.type = "RET_STMT" -> Ended(env, "return", Eval(fs, env, s.left))
    [] s.type = "BREAK_STMT" -> Ended(env, "break", 0)
    [] s.type = "CONTINUE_STMT" -> Ended(env, "continue", 0)

RunAll(fs, env, stmts) ==
  IF stmts = <<>> THEN Ended(env, "next", 0)
  ELSE LET first == Run(fs, env, Head(stmts))
       IN  IF first.exit = "next" THEN RunAll(fs, first.env, Tail(stmts)) ELSE first

\* The values of the globals of a program, in their order.
Meaning(p) ==
  FoldLeft(LAMBDA values, g : Append(values, Eval(p.functions, <<>>, g.expr)), <<>>,
           FlattenSeq(p.globals))
================================================================================
