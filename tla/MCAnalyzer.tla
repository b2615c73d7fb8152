------------------------------- MODULE MCAnalyzer -------------------------------
(***************************************************************************)
(* The analyzer on small programs, and what its verdict promises.           *)
(***************************************************************************)
EXTENDS Analyzer

M == INSTANCE AnalyzerMeaning

--------------------------------------------------------------------------------
(* Syntax.                                                                      *)

Std == [array |-> FALSE, size |-> <<>>, indirect |-> FALSE, base |-> [type |-> "STD"]]
Of(base) == [Std EXCEPT !.base = [type |-> base]]
Named(x) == [Std EXCEPT !.base = [type |-> "UNKN", name |-> x]]
PointerTo(type) == [type EXCEPT !.indirect = TRUE]
Array(uses, type) == [type EXCEPT !.array = TRUE, !.size = uses]
FuncType(params, rets) ==
  [Std EXCEPT !.base = [type |-> "FUNC", params |-> params, rets |-> rets]]

Init_(uses) == [type |-> "EXPR", uses |-> uses]

Defines(names, types, exprs, single) ==
  [type |-> "DEF", names |-> names, types |-> types, exprs |-> exprs, single |-> single]
Var(x, uses) == Defines(<<x>>, <<Std>>, <<Init_(uses)>>, TRUE)
Uninit(x, type) == Defines(<<x>>, <<type>>, <<>>, TRUE)
Vars(names, exprs) == Defines(names, <<Std>>, exprs, FALSE)
Func(f, params, rets, body) ==
  Defines(<<f>>, <<FuncType([i \in DOMAIN params |-> [name |-> params[i], type |-> Std]], rets)>>,
          <<body>>, TRUE)
Block(list) == [type |-> "BLOCK", list |-> list]
External == [type |-> "EXT"]
If(uses, list) == [type |-> "IF", cond |-> uses, body |-> Block(list)]
IfElse(uses, list, other) == [type |-> "IFELSE", cond |-> uses, body |-> Block(list), other |-> other]
While(uses, list) == [type |-> "WHILE", cond |-> uses, body |-> Block(list)]
Return_(uses) == [type |-> "RET", cond |-> uses]
Does(uses) == [type |-> "EXPR", cond |-> uses]
Break == [type |-> "BREAK"]
Continue == [type |-> "CONTINUE"]
Struct == [type |-> "TYPEDEF"]

Body(f, list) == Func(f, <<"p">>, <<Std>>, Block(list))

--------------------------------------------------------------------------------
(* Programs.                                                                    *)

\* Three globals whose initializers need each other in every way, one of them
\* perhaps through a function.
Mention == {<<>>, <<"a">>, <<"b">>, <<"c">>}
CyclePrograms ==
  {<< <<Var("a", x), Var("b", y)>>, <<z>> >> :
     x \in Mention, y \in Mention,
     z \in {Var("c", w) : w \in Mention} \cup {Body("c", <<Return_(w)>>) : w \in Mention}}

\* Statements of a function p |-> that mention or declare a global, a parameter,
\* a local, in several nestings.
Simple ==
  {Var("x", <<>>), Var("x", <<"x">>), Var("y", <<"x">>), Var("y", <<"g", "p">>), Var("g", <<"g">>),
   Var("p", <<>>), Vars(<<"x", "y">>, <<Init_(<<"g">>), Init_(<<"x">>)>>),
   Vars(<<"y", "x">>, <<Init_(<<"x">>)>>), Does(<<"x">>), Does(<<"f", "y">>), Return_(<<"p">>)}
Nested ==
  {Block(<<s>>) : s \in Simple}
    \cup {While(<<"x">>, <<Var("x", <<"g">>), Does(<<"y">>)>>), If(<<"p">>, <<Var("p", <<"p">>)>>),
          IfElse(<<"g">>, <<Var("x", <<>>)>>, Does(<<"x">>)),
          IfElse(<<"g">>, <<Return_(<<>>)>>, Block(<<Return_(<<"x">>)>>)),
          Func("h", <<"q">>, <<>>, Block(<<Does(<<"q", "h", "p", "x">>)>>))}
ScopePrograms ==
  {<< <<Body("f", <<s, t>>), Var("g", <<>>)>> >> : s \in Simple \cup Nested, t \in Simple}
    \cup {<< <<Var("x", <<"g">>), Body("f", <<s, t>>), Var("g", <<>>)>> >> :
            s \in Simple, t \in Simple \cup Nested}

\* Types that are known, that are not, that are names of something else.
Types_ ==
  {Std, Of("VOID"), PointerTo(Of("VOID")), Of("AUTO"), Of("ARR"), Named("a"), PointerTo(Named("b")),
   Named("u"), PointerTo(Named("u")), Array(<<>>, Std), Array(<<"a">>, PointerTo(Std))}
Declarations ==
  {Uninit("b", type) : type \in Types_}
    \cup {Func("b", <<"p">>, <<type>>, External) : type \in Types_ \ {Of("AUTO"), Of("ARR")}}
    \cup {Defines(<<"b">>, <<FuncType(<<[name |-> "p", type |-> type]>>, <<Std>>)>>, <<External>>, TRUE) :
            type \in Types_ \ {Array(<<"a">>, PointerTo(Std))}}
    \cup {Struct, Does(<<"a">>), Func("b", <<"p", "p">>, <<>>, External),
          Func("b", <<>>, <<>>, Init_(<<>>)), Func("b", <<>>, <<Named("u"), Named("a")>>, External),
          Func("b", <<>>, <<Named("b")>>, External), Func("b", <<>>, <<PointerTo(Named("b"))>>, External),
          Func("b", <<>>, <<Array(<<"a">>, Std)>>, External),
          Vars(<<"b", "c">>, <<>>), Defines(<<"b", "c">>, <<Std, PointerTo(Std)>>, <<>>, FALSE),
          Defines(<<"b", "c", "d">>, <<Std, PointerTo(Std)>>, <<>>, FALSE),
          Vars(<<"b", "c">>, <<Init_(<<>>), Init_(<<>>), Init_(<<>>)>>),
          Defines(<<"b", "c">>, <<Std, Named("a")>>, <<Init_(<<>>), Init_(<<"a">>)>>, FALSE)}
TypePrograms ==
  {<< <<Var("a", <<>>)>>, <<d>> >> : d \in Declarations}
    \cup {<< <<d, Body("a", <<Return_(<<"b">>)>>)>> >> : d \in Declarations}
    \cup {<< <<Body("a", <<d, Does(<<"b">>)>>)>> >> : d \in Declarations}
    \cup {<< <<d, e>>, <<>> >> : d \in Declarations, e \in {Var("b", <<>>), Uninit("c", Std)}}

\* Names that are mentioned while they have no type: debug builds may stop.
EarlyPrograms ==
  {<< <<Uninit("a", Array(<<"a">>, Std))>> >>,
   << <<Body("f", <<Defines(<<"a", "b">>, <<Named("u")>>, <<>>, FALSE), Does(<<"a">>)>>)>> >>}

\* Jumps in every nesting of three statements.
Jumping == {Break, Continue, IfElse(<<>>, <<>>, Break)}
Around(s) == {Block(<<s>>), If(<<>>, <<s>>), While(<<>>, <<s>>), IfElse(<<>>, <<>>, Block(<<s>>))}
Level1 == UNION {Around(s) : s \in Jumping}
Level2 == UNION {Around(s) : s \in Level1}
JumpPrograms ==
  {<< <<Body("f", <<s>>)>> >> : s \in Jumping \cup Level1 \cup Level2 \cup UNION {Around(s) : s \in Level2}}

AllPrograms ==
  CyclePrograms \cup ScopePrograms \cup TypePrograms \cup JumpPrograms \cup EarlyPrograms

--------------------------------------------------------------------------------
(* Properties.                                                                  *)

Accepted == state = "DONE" /\ valid

\* What the analyzer accepts is in order.  Every name was resolved, by the search
\* through the stack of tables, to the declaration it lexically refers to: the
\* innermost one in front of it, or any global one (get_if_exists, uninit).  No
\* scope declares a name twice, and the body of a function does not declare a
\* parameter again (check_if_unique).  No global initializer needs its own
\* variable, directly or through one other, whichever order the table is visited
\* in (symbol_deps).
AcceptedIsSound ==
  Accepted =>
    /\ st.resolved = M!Uses(prog)
    /\ ~M!Redeclares(prog)
    /\ ~M!ShortCycle(prog)

\* A program without jumps is only rejected for something that is wrong with it: a
\* flag, a table or a scope left over from another statement rejects nothing
\* (JumpsInLoopsOnly is about the others).  No assertion fails on any program
\* nothing is wrong with: each name it mentions has been analyzed by then, and the
\* search stack is back at the global scope.
RejectsForAReason ==
  st.asserted \/ (state = "DONE" /\ ~valid /\ M!JumpsOf(prog) = {}) => M!Flawed(prog)

\* "Cant use break or continue outside of loop." (src/src/analyzer.cpp:1735): a
\* program nothing else is wrong with is accepted if, and only if, each of its jumps
\* is in a loop of its function (analyze_statement).
JumpsInLoopsOnly ==
  state = "DONE" /\ ~M!Flawed(prog) =>
    (valid <=> \A jump \in M!JumpsOf(prog) : M!InLoop(jump))

\* Waiting never helps: an accepted program was resolved in one pass, the
\* second only saw that nothing was left (analyze_global_statements allows ten).
AcceptedInTwoPasses == Accepted => pass <= 2

\* As long as there was no error, the search stack and the dependencies are
\* back to what they were after every statement and entry: the returns of
\* analyze_function that skip the pops belong to errors.
BalancedWhileValid == valid => st.search = <<1>> /\ st.internal_deps = <<>>

\* The code generator, which searches the finished tables, takes every name of
\* an accepted program for the declaration the analyzer checked, except for a
\* name that the same block declares further down.
GeneratorAgrees ==
  Accepted =>
    \A use \in M!Generated(st, prog) :
      use \in st.resolved \/ M!Later(use[3], use[1])

================================================================================
