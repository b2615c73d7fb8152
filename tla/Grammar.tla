---------------------------------- MODULE Grammar ----------------------------------
(***************************************************************************)
(* The language as its trees are written: the tokens of a tree, with        *)
(* brackets where the precedence of the operators asks for them, and the    *)
(* children a node must have.  Nothing here reads tokens; the levels are    *)
(* those of a table of precedence, not the powers of the parser.            *)
(***************************************************************************)
EXTENDS Parser

Symbols ==
  << "ASSIGN" :> "=", "CAST" :> "cast", "LOG_OR" :> "||", "LOG_AND" :> "&&",
     "GR" :> ">" @@ "LS" :> "<" @@ "GEQ" :> ">=" @@ "LEQ" :> "<=" @@ "EQ" :> "==" @@ "NEQ" :> "!=",
     "ADD" :> "+" @@ "SUB" :> "-", "MUL" :> "*" @@ "DIV" :> "/" @@ "MOD" :> "%",
     "LSHIFT" :> "<<" @@ "RSHIFT" :> ">>", "XOR" :> "^", "OR" :> "|", "AND" :> "&",
     "NEGATE" :> "-" @@ "NOT" :> "!" @@ "DEREF" :> "@" @@ "REF" :> "^" @@ "INVERT" :> "~",
     "ARRAY_ACCESS" :> "[" @@ "FUNC_CALL" :> "(" @@ "MEMBER_ACCESS" :> "." >>

Assignment == 1
Castings   == 2
Unaries    == 12
Applying   == 13
Path       == 14
Atomic     == 15

Operations == UNION {DOMAIN Symbols[l] : l \in DOMAIN Symbols}

LevelOfType == [op \in Operations |-> CHOOSE l \in DOMAIN Symbols : op \in DOMAIN Symbols[l]]

Symbol(op) == Symbols[LevelOfType[op]][op]

RECURSIVE LevelOf(_)
\* a.b.c is a.(b.c): a path of names is more than what an index begins.
LevelOf(e) ==
  CASE e.type = "MEMBER_ACCESS" /\ LevelOf(e.left) = Atomic -> Path
    [] e.type \in Operations /\ ~(e.type = "MEMBER_ACCESS" /\ LevelOf(e.left) = Atomic) -> LevelOfType[e.type]
    [] OTHER -> Atomic

\* The least level of an operand without brackets.
LeftLevel(e) ==
  CASE e.type = "ASSIGN" -> Castings
    [] e.type = "MEMBER_ACCESS" /\ e.left.type = "MEMBER_ACCESS" -> Atomic
    [] OTHER -> LevelOfType[e.type]

RightLevel(e) ==
  IF e.type \in {"ASSIGN", "CAST"} THEN LevelOfType[e.type] ELSE LevelOfType[e.type] + 1

\* What is written for a node: tokens, its own token, its children and its list.
Shapes ==
     [type \in {"PRIMARY", "STD_TYPE", "VOID_TYPE", "UNKN_TYPE"} |-> <<"token">>]
  @@ [type \in {"EMPTY", "AUTO_TYPE", "MUL_AUTO"} |-> <<>>]
  @@ [type \in {"SEPARATION", "MUL_TYPES", "FUNC_PARAMS"} |-> <<"list">>]
  @@ "FUNC_RETURNS"        :> <<"->", "list">>
  @@ "BLOCK_ENUM"          :> <<"{", "list", "}">>
  @@ "BLOCK_IMPERATIVE"    :> <<"{", "statements", "}">>
  @@ "ARR_TYPE"            :> <<"[", "left", "]", "right">>
  @@ "PTR_TYPE"            :> <<"^", "left">>
  @@ "FUNC_TYPE"           :> <<"(", "left", ")", "right">>
  @@ "PARAM_DEF"           :> <<"token", ":", "left">>
  @@ "ENUM_DECL"           :> <<"token", "=", "left">>
  @@ "UNARY_VAR_DEF"       :> <<"token", ":", "left", ";">>
  @@ "BIN_UNKN_DEF"        :> <<"token", ":", "left", "=", "right">>
  @@ "EXT_FUNC_INFO"       :> <<"external", "left">>
  @@ "NAMED_EXT_FUNC_INFO" :> <<"external", "left", "as", "right">>
  @@ "BIN_MULT_DEF"        :> <<"left", ":", "right", ";">>
  @@ "TERN_MULT_DEF"       :> <<"left", ":", "center", "=", "right", ";">>
  @@ "STRUCT_DEF"          :> <<"token", ":", "struct", "=", "left">>
  @@ "UNION_DEF"           :> <<"token", ":", "union", "=", "left">>
  @@ "ENUM_DEF"            :> <<"token", ":", "enum", "(", "right", ")", "=", "left">>
  @@ "UNNAMED_MODULE"      :> <<"use", ":", "token", ";">>
  @@ "NAMED_MODULE"        :> <<"use", "token", ":", "left", ";">>
  @@ "IF_STMT"             :> <<"if", "left", "right">>
  @@ "IF_ELSE_STMT"        :> <<"if", "left", "center", "else", "right">>
  @@ "WHILE_STMT"          :> <<"while", "left", "right">>
  @@ "RET_STMT"            :> <<"return", "left", ";">>
  @@ "BREAK_STMT"          :> <<"break", ";">>
  @@ "CONTINUE_STMT"       :> <<"continue", ";">>
  @@ "SWAP"                :> <<"left", "=", "right">>

Fields == {"left", "center", "right"}

\* A statement whose shape has no semicolon of its own, and no block.
NeedsEnd(n) ==
  n.type \in {"SEPARATION", "SWAP"} \/ (n.type = "BIN_UNKN_DEF" /\ n.right.type # "BLOCK_IMPERATIVE")

T(type) == <<[type |-> type, value |-> <<>>]>>

RECURSIVE Text(_), Within(_, _), Filled(_, _), Sentence(_), Commas(_), Program(_)

\* An operand, in brackets if it is below the level.
Within(e, level) == IF LevelOf(e) < level THEN T("(") \o Text(e) \o T(")") ELSE Text(e)

Sentence(n) == Text(n) \o IF NeedsEnd(n) THEN T(";") ELSE <<>>

Program(statements) == FlattenSeq([i \in DOMAIN statements |-> Sentence(statements[i])])

Commas(list) ==
  FlattenSeq([i \in DOMAIN list |-> (IF i = 1 THEN <<>> ELSE T(",")) \o Text(list[i])])

Filled(n, item) ==
  CASE item = "token" -> <<n.token>>
    [] item = "list" -> Commas(n.list)
    [] item = "statements" -> Program(n.list)
    [] item \in Fields -> Text(n[item])
    [] OTHER -> T(item)

Text(n) ==
  CASE n.type = "CAST" -> T("cast") \o T("(") \o Text(n.left) \o T(")") \o Within(n.right, RightLevel(n))
    [] n.type \in DOMAIN Symbols[Unaries] -> T(Symbol(n.type)) \o Within(n.left, Unaries)
    [] n.type = "ARRAY_ACCESS" -> Within(n.left, LeftLevel(n)) \o T("[") \o Text(n.right) \o T("]")
    [] n.type = "FUNC_CALL" -> Within(n.left, LeftLevel(n)) \o T("(") \o Text(n.right) \o T(")")
    [] n.type \in Operations \ ({"CAST", "ARRAY_ACCESS", "FUNC_CALL"} \cup DOMAIN Symbols[Unaries]) ->
         Within(n.left, LeftLevel(n)) \o T(Symbol(n.type)) \o Within(n.right, RightLevel(n))
    [] OTHER -> FlattenSeq([i \in DOMAIN Shapes[n.type] |-> Filled(n, Shapes[n.type][i])])

--------------------------------------------------------------------------------

(* Children.                                                                    *)

Operands(type) == IF type \in DOMAIN Symbols[Unaries] THEN {"left"} ELSE {"left", "right"}

Required(type) == IF type \in Operations THEN Operands(type) ELSE Fields \cap Range(Shapes[type])

RECURSIVE IsWhole(_)
\* No child of the tree was left out.
IsWhole(n) ==
  /\ n.type \in Operations \cup DOMAIN Shapes
  /\ n.type # "EMPTY" =>
       /\ \A field \in Required(n.type) : IsWhole(n[field])
       /\ \A i \in DOMAIN n.list : IsWhole(n.list[i])

\* Without grouping and separators: those may be left out or repeated.
Meaningful(text) == SelectSeq(text, LAMBDA token : token.type \notin {"(", ")", ",", ";"})

Words == [i \in DOMAIN tokens |-> [type |-> tokens[i].type, value |-> tokens[i].value]]

--------------------------------------------------------------------------------

\* Nothing that begins an expression is behind the sign.
NoValueBehind(i) ==
  Words[i].type = "=" /\ Words[i + 1].type \notin Atoms \cup DOMAIN UnaryOperators \cup {"(", "cast", "{"}

(* A file that is accepted without a message has every one of its tokens in its
   trees, in order, and no node lacks a child: what the recovery skips, and what
   add_left_node and add_list_node leave out (src/parser.cpp:70), has always been
   printed, although parse_file returns success for most of it.  A file is refused
   without any message only for a declaration without its value, "a : u8 = ;", or
   an "if" without its block, both of which fail quietly (:1075, :1272).          *)
ErrorsAreReported ==
  phase = "done" /\ ~reported =>
    IF valid
      THEN /\ \A i \in DOMAIN roots : IsWhole(roots[i])
           /\ Meaningful(Program(roots) \o T("EOF")) = Meaningful(Words)
      ELSE \/ \E i \in 1 .. Len(tokens) - 1 : NoValueBehind(i)
           \/ \E i \in DOMAIN tokens : tokens[i].type = "if"

(* Each turn of parse_file's loop takes a token, except in front of a "}" that
   closes nothing: there panic_skip stops where it is, and the loop adds an error
   to the roots for ever (:1587, :30).                                            *)
MovesOnExceptAtBrace ==
  [][(phase = "parse" /\ phase' = "parse") => (pos' > pos \/ At(Here) = "}")]_vars

================================================================================
