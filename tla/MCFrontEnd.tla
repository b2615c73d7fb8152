-------------------------------- MODULE MCFrontEnd --------------------------------
(***************************************************************************)
(* The scanner over all short texts of a few alphabets, and the parser over *)
(* programs written from trees: intact, with one token removed and with one *)
(* token too many.                                                          *)
(***************************************************************************)
EXTENDS Lexemes, Grammar

VARIABLE source    \* the trees a program was written from, and where it is damaged

allVars == <<vars, source>>

MCKeywords == <<"i", "f">> :> "if" @@ <<"a", "s">> :> "as"

--------------------------------------------------------------------------------
(* Texts: every sequence of a length over an alphabet.                          *)

Texts ==
  LET Over(alphabet, n) == [1 .. n -> alphabet] IN
       Over({"/", "*", "nl", "a"}, 6)
  \cup Over({"0", "1", "b", "x", "."}, 5)
  \cup Over({"a", "1", "i", "f"}, 5)
  \cup Over({"1", ".", "nl"}, 7)
  \cup Over({"\"", "a", "nl", "\\"}, 4)
  \cup Over({"<", "=", ">", "-", "&", "!", "a"}, 3)
  \cup Over({"high", "#", "nul", " ", "nl", "a"}, 3)

--------------------------------------------------------------------------------
(* Programs.                                                                    *)

Name(x) == [type |-> "IDENT", value |-> <<x>>]
V(x)    == Leaf("PRIMARY", Name(x))
N(k)    == Leaf("PRIMARY", [type |-> "INT", value |-> <<k>>])
S       == Leaf("PRIMARY", [type |-> "STRING", value |-> <<"s">>])
Std(x)  == Leaf("STD_TYPE", [type |-> x, value |-> <<>>])
List(items) == ListOf("SEPARATION", items)

\* Operations over given operands, one for each level and side.
Apply(op, l, r) ==
  CASE op \in DOMAIN Symbols[Unaries] -> Unary(op, NoToken, l)
    [] op = "CAST" -> Binary(op, NoToken, Std("u8"), l)
    [] op \in {"ARRAY_ACCESS", "FUNC_CALL"} -> Binary(op, NoToken, l, List(<<r>>))
    [] OTHER -> Binary(op, NoToken, l, r)

OneOfEach == {CHOOSE op \in DOMAIN Symbols[l] : TRUE : l \in DOMAIN Symbols \ {Applying}}
             \cup DOMAIN Symbols[Applying]

Simple == {Apply(op, V("a"), V("b")) : op \in Operations}
Nested == {Apply(op, e, V("c")) : op \in OneOfEach, e \in Simple}
          \cup {Apply(op, V("c"), e) : op \in OneOfEach, e \in Simple}

Variable(x, type, e) == Binary("BIN_UNKN_DEF", Name(x), type, e)

Block2(statements) == ListOf("BLOCK_IMPERATIVE", statements)

Function1(x, params, returns, statements) ==
  Binary("BIN_UNKN_DEF", Name(x),
         Binary("FUNC_TYPE", NoToken, ListOf("FUNC_PARAMS", params), returns), Block2(statements))

Param1(x, type) == Unary("PARAM_DEF", Name(x), type)

ReturnsOf(types) == ListOf("FUNC_RETURNS", types)

Declarations ==
  { << Variable("a", Std("u8"), N(1)), Unary("UNARY_VAR_DEF", Name("b"), Unary("PTR_TYPE", NoToken, Std("s8"))) >>,
    << Variable("a", Leaf("AUTO_TYPE", NoToken), V("b")),
       Unary("UNARY_VAR_DEF", Name("b"), Binary("ARR_TYPE", NoToken, List(<<N(2)>>), Std("u8"))) >>,
    << Unary("STRUCT_DEF", Name("a"), Block2(<<Unary("UNARY_VAR_DEF", Name("b"), Std("u8"))>>)),
       Unary("UNION_DEF", Name("c"), Block2(<<Unary("UNARY_VAR_DEF", Name("b"), Leaf("UNKN_TYPE", Name("a")))>>)) >>,
    << Binary("ENUM_DEF", Name("a"),
              ListOf("BLOCK_ENUM", <<Unary("ENUM_DECL", Name("b"), N(1)), Unary("ENUM_DECL", Name("c"), N(2))>>),
              Std("u8")) >>,
    << Leaf("UNNAMED_MODULE", S.token), Unary("NAMED_MODULE", Name("a"), S) >>,
    << Binary("BIN_MULT_DEF", NoToken, List(<<V("a"), V("b")>>), ListOf("MUL_TYPES", <<Std("u8"), Std("s8")>>)),
       Node("TERN_MULT_DEF", NoToken, List(<<V("a"), V("b")>>), Leaf("MUL_AUTO", NoToken), List(<<N(1), N(2)>>), <<>>) >>,
    << Variable("f", Binary("FUNC_TYPE", NoToken, ListOf("FUNC_PARAMS", <<>>), Empty),
                Binary("NAMED_EXT_FUNC_INFO", NoToken, S, S)),
       Variable("g", Binary("FUNC_TYPE", NoToken, ListOf("FUNC_PARAMS", <<>>), ReturnsOf(<<Std("u8")>>)),
                Unary("EXT_FUNC_INFO", NoToken, S)) >> }

Condition == Binary("LS", NoToken, V("a"), N(1))
Break     == Leaf("BREAK_STMT", NoToken)
Assign(x) == List(<<Binary("ASSIGN", NoToken, V(x), N(1))>>)

Bodies ==
  { << Unary("RET_STMT", NoToken, List(<<V("a"), N(1)>>)) >>,
    << Binary("SWAP", NoToken, List(<<V("a"), V("b")>>), List(<<V("b"), V("a")>>)), Assign("a") >>,
    << Binary("IF_STMT", NoToken, Condition, Block2(<<Assign("a")>>)), Unary("RET_STMT", NoToken, Empty) >>,
    << Node("IF_ELSE_STMT", NoToken, Condition, Block2(<<>>),
            Binary("IF_STMT", NoToken, V("b"), Block2(<<Break>>)), <<>>) >>,
    << Binary("WHILE_STMT", NoToken, Condition, Block2(<<Break, Leaf("CONTINUE_STMT", NoToken)>>)) >> }

Functions ==
  { << Function1("f", <<Param1("a", Std("u8")), Param1("b", Std("s8"))>>, ReturnsOf(<<Std("u8"), Std("s8")>>), body),
       Function1("g", <<>>, Empty, <<Assign("b")>>) >> : body \in Bodies }

Statements1 == Declarations \cup Functions \cup {<< Binary("IF_STMT", NoToken, V("a"), Block2(<<>>)), Assign("a") >>}

Intact == Statements1 \cup {<<Variable("x", Std("u8"), e)>> : e \in Simple \cup Nested}

Extra == {"}", "{", "(", ")", ";", ",", "=", "else", "ERROR"}

--------------------------------------------------------------------------------

Begin(text, symbols, begin) ==
  /\ file = text /\ cursor = Start
  /\ tokens = [i \in DOMAIN symbols |-> symbols[i] @@ [l0 |-> 0, c0 |-> 0, l1 |-> 0, c1 |-> 0]]
  /\ phase = begin
  /\ pos = 1 /\ roots = <<>> /\ valid = TRUE /\ reported = FALSE

Parsing(text, trees, at, type) ==
  /\ Begin(<<>>, text \o T("EOF"), "parse")
  /\ source = [trees |-> trees, at |-> at, type |-> type]

\* One token of the text is removed, or another one put in front of it.
ParsingDamaged(text, trees) ==
  \E i \in DOMAIN text :
    \/ Parsing(RemoveAt(text, i), trees, i, text[i].type)
    \/ \E type \in Extra : Parsing(InsertAt(text, i, T(type)[1]), trees, i, type)

Init ==
  \/ \E text \in Texts : Begin(text, <<>>, "scan") /\ source = [trees |-> <<>>, at |-> 0, type |-> ""]
  \/ \E trees \in Intact : Parsing(Program(trees), trees, 0, "")
  \/ \E trees \in Statements1 : ParsingDamaged(Program(trees), trees)

Spec == Init /\ [][Next /\ UNCHANGED source]_allVars

--------------------------------------------------------------------------------

(* A program is read as it was written: every pair of operators groups by
   precedence and association, every declaration and statement gives back its
   tree, without a message (src/parser.cpp parse_statement, parse_expression).   *)
RoundTrip ==
  (source.trees # <<>> /\ source.at = 0 /\ phase = "done") =>
    (valid /\ ~reported /\ roots = source.trees)

Count(text, type) == Cardinality({i \in DOMAIN text : text[i].type = type})

\* The damaged token is in the body of a function.
InBody ==
  LET before == SubSeq(Program(source.trees), 1, source.at - 1) IN
  Count(before, "{") > Count(before, "}")

(* An error in the body of a function, unless it is in the braces themselves or
   the scanner's, leaves every function in its place and the others as they were
   written: the recovery finds the end of the statement it is in, however deep
   (panic_skip, src/parser.cpp:30).                                              *)
RecoversInPlace ==
  (source.trees \in Functions /\ source.at > 0 /\ InBody /\ source.type \notin {"{", "}", "ERROR"}
    /\ (phase = "done" \/ Len(roots) > 2)) =>
    /\ Len(roots) = 2
    /\ \A k \in 1 .. 2 : roots[k].token = source.trees[k].token
    /\ \E k \in 1 .. 2 : roots[k] = source.trees[k]

================================================================================
