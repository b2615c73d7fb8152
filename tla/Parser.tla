---------------------------------- MODULE Parser ----------------------------------
(***************************************************************************)
(* The parser (src/parser.cpp): recursive descent over the tokens of one    *)
(* file, a Pratt parser for expressions, and the recovery from errors.      *)
(*                                                                         *)
(* A parse is a record [node, pos, log]: what was read, the token behind it *)
(* and whether a message was printed.  A node without a child has None      *)
(* there; the tokens of operators and brackets, which only messages use,    *)
(* are left out.                                                            *)
(***************************************************************************)
EXTENDS Scanner

CONSTANT MaxRoots    \* bound: statements of a file

VARIABLES
  phase,     \* scan, parse, done
  pos,       \* the token the parser is at
  roots,     \* parsed_roots
  valid,     \* valid_parse
  reported   \* a message was printed

parserVars == <<phase, pos, roots, valid, reported>>
vars == <<file, cursor, tokens, phase, pos, roots, valid, reported>>

--------------------------------------------------------------------------------
(* Nodes.                                                                       *)

None  == [type |-> "none"]
Bad   == [type |-> "ERROR"]
Empty == [type |-> "EMPTY"]

Node(type, token, left, center, right, list) ==
  [type |-> type, token |-> token, left |-> left, center |-> center, right |-> right, list |-> list]

NoToken == [type |-> "", value |-> <<>>]

Leaf(type, token)           == Node(type, token, None, None, None, <<>>)
Unary(type, token, left)    == Node(type, token, left, None, None, <<>>)
Binary(type, token, left, right) == Node(type, token, left, None, right, <<>>)
ListOf(type, list)          == Node(type, NoToken, None, None, None, list)

--------------------------------------------------------------------------------
(* The cursor of the parser, on a parse or on a record [pos, log].              *)

At(s)   == tokens[s.pos].type
Sym(s)  == [type |-> tokens[s.pos].type, value |-> tokens[s.pos].value]
Skip(s) == [s EXCEPT !.pos = IF @ < Len(tokens) THEN @ + 1 ELSE @]
Say(s)  == [s EXCEPT !.log = TRUE]
SayIf(condition, s) == [s EXCEPT !.log = @ \/ condition]

\* consume_token, where the code goes on without the token.
Expect(type, s) == IF At(s) = type THEN Skip(s) ELSE Say(s)

Stops == {"EOF", "ERROR"}

RECURSIVE SkipTo(_, _), PanicSkip(_, _)

\* panic_skip_until_token
SkipTo(type, s) == IF At(s) \in Stops \cup {type} THEN s ELSE SkipTo(type, Skip(s))

DepthBehind(depth, type) ==
  CASE type = "{" -> depth + 1
    [] type = "}" \/ (type = ";" /\ depth = 1) -> depth - 1
    [] OTHER -> depth

\* Mutant: any delimiter ends it.
PanicSkip_Flat(s, depth) ==
  IF At(s) \in Stops \cup {";", "}"} THEN s ELSE PanicSkip(Skip(s), depth)

\* panic_skip: in front of the delimiter.
PanicSkip(s, depth) ==
  IF At(s) \in Stops \/ DepthBehind(depth, At(s)) = 0 THEN s
  ELSE PanicSkip(Skip(s), DepthBehind(depth, At(s)))

Result(node, s) == [node |-> node, pos |-> s.pos, log |-> s.log]

Fails(s)    == Result(Bad, s)
Recovers(s) == Result(Bad, PanicSkip(s, 1))

IsBad(r)   == r.node.type = "ERROR"
IsEmpty(r) == r.node.type = "EMPTY"

\* add_left_node, add_center_node, add_right_node, where the caller goes on: an
\* error is printed and not attached.
Child(r) == IF IsBad(r) THEN None ELSE r.node

\* The same, where the caller fails with the child.
Strict(node, left, right) ==
  IF IsBad(left) \/ IsBad(right) THEN Fails(Say(right)) ELSE Result(node, right)

\* add_list_node
Add(list, r) ==
  IF IsBad(r) THEN Result(list.node, Say(r))
  ELSE Result([list.node EXCEPT !.list = Append(@, r.node)], r)

--------------------------------------------------------------------------------
(* Expressions.                                                                 *)

Atoms == {"FP", "INT", "STRING", "IDENT", "true", "false"}

UnaryOperators == "-" :> "NEGATE" @@ "!" :> "NOT" @@ "@" :> "DEREF" @@ "^" :> "REF" @@ "~" :> "INVERT"

PrefixPower  == 23
CastPower    == 3
PostfixPower == 25

Postfixes == "[" :> [type |-> "ARRAY_ACCESS", close |-> "]"] @@ "(" :> [type |-> "FUNC_CALL", close |-> ")"]

Level(types, left, right) ==
  [op \in DOMAIN types |-> [type |-> types[op], left |-> left, right |-> right]]

\* get_infix_bind_power, get_ast_type_based_on_infix_token
Infixes ==
     Level("=" :> "ASSIGN", 2, 1)
  @@ Level("||" :> "LOG_OR", 5, 6)
  @@ Level("&&" :> "LOG_AND", 7, 8)
  @@ Level(">" :> "GR" @@ "<" :> "LS" @@ ">=" :> "GEQ" @@ "<=" :> "LEQ" @@ "==" :> "EQ" @@ "!=" :> "NEQ", 9, 10)
  @@ Level("+" :> "ADD" @@ "-" :> "SUB", 11, 12)
  @@ Level("*" :> "MUL" @@ "/" :> "DIV" @@ "%" :> "MOD", 13, 14)
  @@ Level("<<" :> "LSHIFT" @@ ">>" :> "RSHIFT", 15, 16)
  @@ Level("^" :> "XOR", 17, 18)
  @@ Level("|" :> "OR", 19, 20)
  @@ Level("&" :> "AND", 21, 22)
  @@ Level("." :> "MEMBER_ACCESS", 28, 27)

\* The least power of a list's items: all but the comma, and names alone.
ItemPower == 2
NamePower == 100

RECURSIVE Expr(_, _), Operators(_, _), Type(_), More(_, _), Separated(_, _)

\* ( expression )
Grouped(r) == IF At(r) = ")" THEN Skip(r) ELSE Fails(Say(r))

CastOf(type, r) == Strict(Binary("CAST", NoToken, type.node, r.node), type, r)

CastTo(type) ==
  IF At(type) = ")" THEN CastOf(type, Expr(Skip(type), CastPower)) ELSE Fails(Say(type))

Cast(s) == IF At(s) = "(" THEN CastTo(Type(Skip(s))) ELSE Fails(Say(s))

Prefixed(type, r) == Strict(Unary(type, NoToken, r.node), r, r)

\* parse_expression
Expr(s, min) ==
  CASE At(s) \in Atoms -> Operators(Result(Leaf("PRIMARY", Sym(s)), Skip(s)), min)
    [] At(s) \in DOMAIN UnaryOperators ->
         Operators(Prefixed(UnaryOperators[At(s)], Expr(Skip(s), PrefixPower)), min)
    [] At(s) = "(" -> Operators(Grouped(Expr(Skip(s), 0)), min)
    [] At(s) = "cast" -> Operators(Cast(Skip(s)), min)
    [] OTHER -> Result(Empty, s)

\* left[args] and left(args)
Applied(op, left, args) ==
  IF At(args) = op.close
    THEN Strict(Binary(op.type, NoToken, left.node, args.node), left, Skip(args))
    ELSE Fails(Say(args))

\* Mutant: the operators of a level group to the right.
Operators_Right(r, min) ==
  CASE At(r) \in DOMAIN Postfixes /\ PostfixPower >= min ->
         Operators(Applied(Postfixes[At(r)], r, Separated(Skip(r), ItemPower)), min)
    [] At(r) \in DOMAIN Infixes /\ Infixes[At(r)].left >= min ->
         LET right == Expr(Skip(r), Infixes[At(r)].left) IN
         Operators(Strict(Binary(Infixes[At(r)].type, NoToken, r.node, right.node), r, right), min)
    [] OTHER -> r

\* The loop of parse_expression over the operators behind r.
Operators(r, min) ==
  CASE At(r) \in DOMAIN Postfixes /\ PostfixPower >= min ->
         Operators(Applied(Postfixes[At(r)], r, Separated(Skip(r), ItemPower)), min)
    [] At(r) \in DOMAIN Infixes /\ Infixes[At(r)].left >= min ->
         LET right == Expr(Skip(r), Infixes[At(r)].right) IN
         Operators(Strict(Binary(Infixes[At(r)].type, NoToken, r.node, right.node), r, right), min)
    [] OTHER -> r

\* A comma ends the list, and is printed, when nothing follows it.
Another(list, r, min) == IF IsEmpty(r) THEN Result(list.node, Say(r)) ELSE More(Add(list, r), min)

More(list, min) == IF At(list) = "," THEN Another(list, Expr(Skip(list), min), min) ELSE list

Items(r, min) ==
  IF IsEmpty(r) THEN r ELSE More(Add(Result(ListOf("SEPARATION", <<>>), r), r), min)

\* parse_separated_expressions and parse_separated_primary_expressions
Separated(s, min) == Items(Expr(s, min), min)

--------------------------------------------------------------------------------
(* Types.                                                                       *)

Integer  == {"u8", "u16", "u32", "u64", "s8", "s16", "s32", "s64"}
StdTypes == Integer \cup {"f32", "f64", "bool8", "bool32"}

\* parse_primary_type takes the token, whatever it is.
primary(s) ==
  CASE At(s) \in StdTypes -> Result(Leaf("STD_TYPE", Sym(s)), Skip(s))
    [] At(s) = "void" -> Result(Leaf("VOID_TYPE", Sym(s)), Skip(s))
    [] At(s) = "IDENT" -> Result(Leaf("UNKN_TYPE", Sym(s)), Skip(s))
    [] OTHER -> Fails(Say(Skip(s)))

ElementsOf(size, r) ==
  IF IsBad(r) THEN r ELSE Result(Binary("ARR_TYPE", NoToken, size.node, r.node), r)

Array(size) ==
  IF At(size) = "]" THEN ElementsOf(size, Type(Skip(size))) ELSE Fails(Say(size))

Sized(size) == SayIf(IsEmpty(size), size)

Pointer(r) == IF IsBad(r) THEN r ELSE Result(Unary("PTR_TYPE", NoToken, r.node), r)

\* parse_type
Type(s) ==
  CASE At(s) = "[" -> Array(Sized(Separated(Skip(s), ItemPower)))
    [] At(s) = "^" -> Pointer(Type(Skip(s)))
    [] OTHER -> primary(s)

ParamOf(name, r) ==
  IF IsBad(r) THEN SkipTo(")", r) ELSE Result(Unary("PARAM_DEF", name, r.node), r)

\* parse_param_declaration
Param(s) ==
  CASE At(s) # "IDENT" -> Fails(SkipTo(")", Say(s)))
    [] At(s) = "IDENT" /\ At(Skip(s)) # ":" -> Fails(SkipTo(")", Say(Skip(s))))
    [] OTHER -> ParamOf(Sym(s), Type(Skip(Skip(s))))

RECURSIVE Params(_), ReturnList(_), MoreTypes(_)

NextParam(r) ==
  CASE At(r) = "," -> Params(Skip(r))
    [] At(r) = ")" -> r
    [] OTHER -> Say(r)

\* parse_parameter_list
Params(r) == IF At(r) \in Stops \cup {")"} THEN r ELSE NextParam(Add(r, Param(r)))

NextReturn(r) ==
  CASE At(r) = "," -> ReturnList(Skip(r))
    [] At(r) = "=" -> r
    [] OTHER -> Say(r)

AddReturn(list, r) == IF IsBad(r) THEN SkipTo("=", r) ELSE NextReturn(Add(list, r))

ReturnList(r) == IF At(r) \in Stops \cup {"="} THEN r ELSE AddReturn(r, Type(r))

\* parse_return_list
Returns(s) ==
  IF At(s) = "->" THEN ReturnList(Result(ListOf("FUNC_RETURNS", <<>>), Skip(s)))
  ELSE Result(Empty, s)

FunctionOf(params, r) == Strict(Binary("FUNC_TYPE", NoToken, params.node, r.node), params, r)

Returning(params) ==
  IF At(params) = ")" THEN FunctionOf(params, Returns(Skip(params))) ELSE Fails(Say(params))

\* parse_function_type, at its bracket.
Function(s) == Returning(Params(Result(ListOf("FUNC_PARAMS", <<>>), Skip(s))))

NextType(list) == IF At(list) = "," THEN MoreTypes(list) ELSE list

AddType(list, r) == IF IsBad(r) THEN SkipTo(",", r) ELSE NextType(Add(list, r))

MoreTypes(list) == AddType(list, Type(Skip(list)))

\* parse_multiple_types: a first type that is an error is only left out.
Types(r) == IF At(r) = "," THEN MoreTypes(Add(Result(ListOf("MUL_TYPES", <<>>), r), r)) ELSE r

\* parse_declaration_type
DeclaredType(s) ==
  CASE At(s) = "(" -> Function(s)
    [] At(s) = "=" -> Result(Leaf("AUTO_TYPE", NoToken), s)
    [] OTHER -> Type(s)

--------------------------------------------------------------------------------
(* Declarations.                                                                *)

RECURSIVE Statement(_), Statements(_), EnumDecls(_)

Closed(block) == IF At(block) = "}" THEN Skip(block) ELSE Fails(Say(block))

\* parse_block: a block of statements.
Block(s) ==
  IF At(s) = "{" THEN Closed(Statements(Result(ListOf("BLOCK_IMPERATIVE", <<>>), Skip(s))))
  ELSE Fails(Say(s))

AddStatement(list, r) == Statements(IF IsEmpty(r) THEN Result(list.node, r) ELSE Add(list, r))

\* parse_imperative_block
Statements(r) == IF At(r) \in Stops \cup {"}"} THEN r ELSE AddStatement(r, Statement(r))

MultipleData(names, type, data) ==
  IF IsEmpty(data) THEN Recovers(data)
  ELSE Result(Node("TERN_MULT_DEF", NoToken, names.node, type.node, data.node, <<>>), data)

\* parse_multiple_var_declaration, behind the types.
MultipleOf(names, type) ==
  CASE IsBad(type) -> Recovers(type)
    [] ~IsBad(type) /\ At(type) = ";" ->
         Result(Binary("BIN_MULT_DEF", NoToken, names.node, type.node), type)
    [] ~IsBad(type) /\ At(type) = "=" -> MultipleData(names, type, Separated(Skip(type), ItemPower))
    [] OTHER -> Recovers(Say(type))

Multiple(names, s) ==
  IF At(s) = "=" THEN MultipleOf(names, Result(Leaf("MUL_AUTO", NoToken), s))
  ELSE MultipleOf(names, Types(Type(s)))

IsText(node) == node.type = "PRIMARY" /\ node.token.type = "STRING"

\* The symbol's name makes a node of what was an error before.
NamedImport(library, r) ==
  IF IsBad(r) \/ ~IsText(r.node) THEN Fails(Say(r))
  ELSE Result(Binary("NAMED_EXT_FUNC_INFO", NoToken, library.node, r.node), r)

Import(library) ==
  CASE IsBad(library) -> Fails(Say(library))
    [] ~IsBad(library) /\ At(library) = "as" ->
         NamedImport(library, Expr(Skip(SayIf(~IsText(library.node), library)), NamePower))
    [] OTHER ->
         IF IsText(library.node)
           THEN Result(Unary("EXT_FUNC_INFO", NoToken, library.node), library)
           ELSE Fails(Say(library))

\* What follows "=" in a declaration.
Data(type, s) ==
  CASE At(s) = "{" -> Block(s)
    [] At(s) = "external" /\ type.type = "FUNC_TYPE" -> Import(Expr(Skip(s), NamePower))
    [] OTHER -> Expr(s, 0)

Defined(name, type, data) ==
  IF IsBad(data) \/ IsEmpty(data) THEN Recovers(data)
  ELSE Result(Binary("BIN_UNKN_DEF", name, type.node, data.node), data)

\* parse_func_or_var_declaration, behind the type.
Declared(name, type) ==
  CASE IsBad(type) -> SkipTo(";", type)
    [] ~IsBad(type) /\ At(type) = ";" -> Result(Unary("UNARY_VAR_DEF", name, type.node), type)
    [] ~IsBad(type) /\ At(type) = "=" -> Defined(name, type, Data(type.node, Skip(type)))
    [] OTHER -> Recovers(Say(type))

\* parse_struct_declaration, parse_union_declaration: the block may be missing.
Aggregate(type, name, block) == Result(Unary(type, name, Child(block)), SayIf(IsBad(block), block))

AddDecl(list, r) ==
  IF IsBad(r) THEN Recovers(r)
  ELSE IF At(r) = "," THEN EnumDecls(Skip(Add(list, r))) ELSE EnumDecls(Add(list, r))

EnumDeclOf(name, r) == Result(Unary("ENUM_DECL", name, Child(r)), SayIf(IsBad(r), r))

\* parse_enum_decl
EnumDecl(s) ==
  CASE At(s) # "IDENT" -> Fails(Say(s))
    [] At(s) = "IDENT" /\ At(Skip(s)) # "=" -> Fails(Say(Skip(s)))
    [] OTHER -> EnumDeclOf(Sym(s), Expr(Skip(Skip(s)), 0))

\* parse_enum_block
EnumDecls(r) == IF At(r) \in Stops \cup {"}"} THEN r ELSE AddDecl(r, EnumDecl(r))

EnumBlock(s) ==
  IF At(s) = "{" THEN Closed(EnumDecls(Result(ListOf("BLOCK_ENUM", <<>>), Skip(s))))
  ELSE Fails(Say(s))

EnumOf(name, type, block) ==
  IF IsBad(block) THEN Fails(block) ELSE Result(Binary("ENUM_DEF", name, block.node, type.node), block)

\* parse_enum_declaration, behind the type.
Enum(name, type) ==
  IF type.node.type = "STD_TYPE" /\ type.node.token.type \in Integer
    THEN EnumOf(name, type, EnumBlock(Expect("=", Expect(")", type))))
    ELSE Fails(Say(Expect(")", type)))

--------------------------------------------------------------------------------
(* Statements.                                                                  *)

\* Mutants of the recovery: the statement is kept as if it were right; nothing is
\* printed; nothing is skipped.
End_Keeps(r) == IF At(r) = ";" THEN Skip(r) ELSE PanicSkip(r, 1)
End_Quiet(r) == IF At(r) = ";" THEN Skip(r) ELSE Recovers(r)
End_Stays(r) == IF At(r) = ";" THEN Skip(r) ELSE Fails(Say(r))

\* The end of parse_statement.
End(r) == IF At(r) = ";" THEN Skip(r) ELSE Recovers(Say(r))

EndDeclaration(r) ==
  IF r.node.type = "BIN_UNKN_DEF" /\ r.node.right.type = "BLOCK_IMPERATIVE" THEN r ELSE End(r)

\* IDENT :
Declaration(name, s) ==
  CASE At(s) = "union"  -> Aggregate("UNION_DEF", name, Block(Expect("=", Skip(s))))
    [] At(s) = "struct" -> Aggregate("STRUCT_DEF", name, Block(Expect("=", Skip(s))))
    [] At(s) = "enum"   -> Enum(name, Type(Expect("(", Skip(s))))
    [] OTHER            -> EndDeclaration(Declared(name, DeclaredType(s)))

\* parse_swap_expression, behind its left side.  The scanner printed the error.
SwapOf(left, right) ==
  Result(Binary("SWAP", NoToken, left.node, right.node), SayIf(IsEmpty(right), right))

Swap(r) ==
  CASE IsEmpty(r) -> r
    [] ~IsEmpty(r) /\ At(r) = "=" -> SwapOf(r, Separated(Skip(r), ItemPower))
    [] ~IsEmpty(r) /\ At(r) = "ERROR" -> Fails(Say(Skip(r)))
    [] OTHER -> r

\* Names with commas between them.
Listed(names) == IF At(names) = ":" THEN Multiple(names, Skip(names)) ELSE Swap(names)

\* The name of a file, or the token in its place.
ModuleFile(s) == Result(Leaf("PRIMARY", Sym(s)), Expect("STRING", s))

NamedModule(name, text) == Result(Unary("NAMED_MODULE", name, text.node), text)

Use(s) ==
  CASE At(s) = ":"     -> Result(Leaf("UNNAMED_MODULE", Sym(Skip(s))), Expect("STRING", Skip(s)))
    [] At(s) = "IDENT" -> NamedModule(Sym(s), ModuleFile(Expect(":", Skip(s))))
    [] OTHER           -> Fails(Say(s))

Conditional(type, cond, center, right) ==
  Result(Node(type, NoToken, Child(cond), center, Child(right), <<>>),
         SayIf(IsBad(cond) \/ IsEmpty(cond) \/ IsBad(right), right))

Alternative(cond, then, other) == Conditional("IF_ELSE_STMT", cond, Child(then), SayIf(IsBad(then), other))

Then(cond, r) ==
  IF At(r) = "else" THEN Alternative(cond, r, Statement(Skip(r)))
  ELSE Conditional("IF_STMT", cond, None, r)

\* Nothing is printed when the block is missing, and nothing skipped.
If(cond) ==
  IF At(cond) = "{" THEN Then(cond, Statement(cond)) ELSE Fails(SayIf(IsEmpty(cond), cond))

While(cond) == Conditional("WHILE_STMT", cond, None, Block(cond))

Return(r) == Result(Unary("RET_STMT", NoToken, r.node), r)

\* parse_statement
Statement(s) ==
  CASE At(s) = "IDENT" /\ At(Skip(s)) = ":" -> Declaration(Sym(s), Skip(Skip(s)))
    [] At(s) = "IDENT" /\ At(Skip(s)) = "," -> End(Listed(Separated(s, NamePower)))
    [] At(s) = "{"        -> Block(s)
    [] At(s) = "use"      -> End(Use(Skip(s)))
    [] At(s) = "if"       -> If(Expr(Skip(s), 0))
    [] At(s) = "else"     -> End(Fails(Say(s)))
    [] At(s) = "for"      -> End(Fails(Say(Skip(s))))
    [] At(s) = "while"    -> While(Expr(Skip(s), 0))
    [] At(s) = "return"   -> End(Return(Separated(Skip(s), ItemPower)))
    [] At(s) = "break"    -> End(Result(Leaf("BREAK_STMT", NoToken), Skip(s)))
    [] At(s) = "continue" -> End(Result(Leaf("CONTINUE_STMT", NoToken), Skip(s)))
    [] OTHER              -> End(Swap(Separated(s, ItemPower)))

--------------------------------------------------------------------------------
(* parse_file.                                                                  *)

Here == [pos |-> pos, log |-> reported]

\* The scanner meets the tokens as the parser asks for them; here it is first.
StartParsing ==
  /\ phase = "scan" /\ Complete
  /\ phase' = "parse"
  /\ UNCHANGED <<file, cursor, tokens, pos, roots, valid, reported>>

Scan ==
  /\ phase = "scan"
  /\ Advance
  /\ UNCHANGED parserVars

\* The scanner prints the error that the loop stops at.
Taken(r) ==
  /\ pos' = r.pos
  /\ reported' = (r.log \/ At(r) = "ERROR")
  /\ roots' = IF IsEmpty(r) THEN roots ELSE Append(roots, r.node)
  /\ valid' = (valid /\ ~IsBad(r))

ParseStatement ==
  /\ phase = "parse" /\ At(Here) \notin Stops
  /\ Len(roots) < MaxRoots
  /\ Taken(Statement(Here))
  /\ UNCHANGED <<file, cursor, tokens, phase>>

Finish ==
  /\ phase = "parse" /\ At(Here) \in Stops
  /\ phase' = "done"
  /\ reported' = (reported \/ At(Here) = "ERROR")
  /\ UNCHANGED <<file, cursor, tokens, pos, roots, valid>>

Next == Scan \/ StartParsing \/ ParseStatement \/ Finish

================================================================================
