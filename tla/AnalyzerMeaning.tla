----------------------------- MODULE AnalyzerMeaning -----------------------------
(***************************************************************************)
(* What a program means, without the stacks, flags and passes of the        *)
(* analyzer: which declaration a name refers to, which names a scope        *)
(* declares, which definitions depend on which, where a jump stands.  And   *)
(* the declaration the code generator takes a name for (src/ir.cpp), which  *)
(* searches the tables the analyzer leaves.                                 *)
(***************************************************************************)
EXTENDS Integers, Sequences, SequencesExt, FiniteSets, FiniteSetsExt, TLC

Name(path, i) == Append(path, 10 + i)
Expr(path, i) == Append(path, 20 + i)
Param(path, i) == Append(path, 15 + i)

\* Nodes of the names of a definition, and of their initializers.
NodeOf(stmt, path, i) == IF stmt.single THEN path ELSE Name(path, i)
ExprOf(stmt, i) == IF Len(stmt.exprs) > 1 THEN i ELSE 1
TypeOf(stmt, i) == stmt.types[IF Len(stmt.types) > 1 THEN i ELSE 1]

IsFunction(stmt) == stmt.single /\ stmt.exprs # <<>> /\ stmt.types[1].base.type = "FUNC"

Bind(env, stmt, path, n) == [x \in {stmt.names[i] : i \in 1 .. n} |->
                               NodeOf(stmt, path, CHOOSE i \in 1 .. n : stmt.names[i] = x)] @@ env

BindParams(env, stmt, path) ==
  LET params == stmt.types[1].base.params
  IN  [x \in {params[i].name : i \in DOMAIN params} |->
         Param(path, CHOOSE i \in DOMAIN params : params[i].name = x)] @@ env

\* A name nobody declares refers to <<>>.
Refer(env, node, uses) ==
  {<<node, x, IF x \in DOMAIN env THEN env[x] ELSE <<>> >> : x \in Range(uses)}

--------------------------------------------------------------------------------
(* Scopes: what the names of a statement refer to, env being the declarations   *)
(* in front of it and around it.                                                *)

RECURSIVE StatementUses(_, _, _), BlockUses(_, _, _, _)

\* The length of an array is seen with the name itself not yet usable.
Without(env, x) == [y \in DOMAIN env \ {x} |-> env[y]]

SizeUses(env, stmt, path) ==
  UNION {IF TypeOf(stmt, i).array
           THEN Refer(Without(Bind(env, stmt, path, i - 1), stmt.names[i]),
                      NodeOf(stmt, path, i), TypeOf(stmt, i).size)
           ELSE {} : i \in DOMAIN stmt.names}

BodyUses(env, stmt, path) ==
  IF stmt.exprs[1].type # "BLOCK" THEN {}
  ELSE BlockUses(BindParams(Bind(env, stmt, path, 1), stmt, path),
                 stmt.exprs[1].list, Expr(path, 1), 1)

\* An initializer sees the names in front of the one it is for.
InitUses(env, stmt, path) ==
  IF IsFunction(stmt) THEN BodyUses(env, stmt, path)
  ELSE UNION {Refer(Bind(env, stmt, path, i - 1), Expr(path, i), stmt.exprs[i].uses) :
                i \in DOMAIN stmt.exprs}

StatementUses(env, stmt, path) ==
  CASE stmt.type = "DEF" -> SizeUses(env, stmt, path) \cup InitUses(env, stmt, path)
    [] stmt.type = "BLOCK" -> BlockUses(env, stmt.list, path, 1)
    [] stmt.type \in {"IF", "WHILE"} ->
         Refer(env, Expr(path, 1), stmt.cond) \cup StatementUses(env, stmt.body, Append(path, 1))
    [] stmt.type = "IFELSE" ->
         Refer(env, Expr(path, 1), stmt.cond)
           \cup StatementUses(env, stmt.body, Append(path, 1))
           \cup StatementUses(env, stmt.other, Append(path, 2))
    [] stmt.type \in {"RET", "EXPR"} -> Refer(env, Expr(path, 1), stmt.cond)
    [] OTHER -> {}

BlockUses(env, list, path, i) ==
  IF i > Len(list) THEN {}
  ELSE StatementUses(env, list[i], Append(path, i))
         \cup BlockUses(IF list[i].type = "DEF"
                          THEN Bind(env, list[i], Append(path, i), Len(list[i].names))
                          ELSE env, list, path, i + 1)

\* Paths of the global statements, in the order they are read.
Roots(p) == {<<f, r>> : f \in DOMAIN p, r \in 1 .. Max({Len(p[g]) : g \in DOMAIN p})}
              \cap UNION {{<<f, r>> : r \in DOMAIN p[f]} : f \in DOMAIN p}
At(p, root) == p[root[1]][root[2]]
Before(a, b) == a[1] < b[1] \/ (a[1] = b[1] /\ a[2] < b[2])
Defs(p) == {root \in Roots(p) : At(p, root).type = "DEF"}

\* Every global name, whatever the order; a length only sees those in front.
GlobalEnv(p, roots) ==
  [x \in UNION {Range(At(p, root).names) : root \in roots} |->
     LET root == CHOOSE r \in roots : x \in Range(At(p, r).names)
     IN  NodeOf(At(p, root), root, CHOOSE i \in DOMAIN At(p, root).names :
                                     At(p, root).names[i] = x)]

Uses(p) ==
  UNION {SizeUses(GlobalEnv(p, {r \in Defs(p) : Before(r, root)}), At(p, root), root)
           \cup InitUses(GlobalEnv(p, Defs(p)), At(p, root), root) : root \in Defs(p)}

Unresolved(p) == \E use \in Uses(p) : use[3] = <<>>

--------------------------------------------------------------------------------
(* Blocks: lists of statements that declare names in the same scope.            *)

RECURSIVE Inside(_)

\* A statement and those in it that are not in a function of it.
Inside(stmt) ==
  {stmt} \cup
  CASE stmt.type = "BLOCK" -> UNION {Inside(stmt.list[i]) : i \in DOMAIN stmt.list}
    [] stmt.type \in {"IF", "WHILE"} -> Inside(stmt.body)
    [] stmt.type = "IFELSE" -> Inside(stmt.body) \cup Inside(stmt.other)
    [] stmt.type = "DEF" ->
         IF IsFunction(stmt) /\ stmt.exprs[1].type = "BLOCK" THEN Inside(stmt.exprs[1]) ELSE {}
    [] OTHER -> {}

\* All statements of a program.
All(p) == UNION {Inside(At(p, root)) : root \in Roots(p)}

\* The names a list of statements declares, with repetitions; an if or while
\* without braces declares in the same list.
RECURSIVE NamesIn(_)
NamesIn(list) ==
  IF list = <<>> THEN <<>>
  ELSE (CASE Head(list).type = "DEF" -> Head(list).names
          [] Head(list).type \in {"IF", "WHILE"} -> NamesIn(<<Head(list).body>>)
          [] Head(list).type = "IFELSE" -> NamesIn(<<Head(list).body, Head(list).other>>)
          [] OTHER -> <<>>)
       \o NamesIn(Tail(list))

ParamNames(stmt) == [i \in DOMAIN stmt.types[1].base.params |-> stmt.types[1].base.params[i].name]

Scopes(p) ==
  {NamesIn(FlattenSeq(p))}
    \cup {NamesIn(stmt.list) : stmt \in {s \in All(p) : s.type = "BLOCK"}}
    \cup {ParamNames(stmt) \o (IF stmt.exprs[1].type = "BLOCK" THEN NamesIn(stmt.exprs[1].list)
                               ELSE <<>>) :
            stmt \in {s \in All(p) : s.type = "DEF" /\ IsFunction(s)}}

Redeclares(p) == \E names \in Scopes(p) : ~IsInjective(names)

--------------------------------------------------------------------------------
(* Dependencies of global initializers.                                         *)

Mentions(p) ==
  UNION {{<<At(p, root).names[i], x>> : x \in
            IF At(p, root).exprs = <<>> \/ IsFunction(At(p, root)) THEN {}
            ELSE Range(At(p, root).exprs[ExprOf(At(p, root), i)].uses)} :
           <<root, i>> \in {<<r, j>> \in Defs(p) \X (1 .. 3) : j \in DOMAIN At(p, r).names}}

\* A cycle through one other name at most.
ShortCycle(p) == \E e \in Mentions(p) : e[1] = e[2] \/ <<e[2], e[1]>> \in Mentions(p)

--------------------------------------------------------------------------------
(* Jumps: the types of the statements around each, from the function inwards.   *)

RECURSIVE Jumps(_)
Jumps(stmt) ==
  {<<stmt.type>> \o a : a \in
     CASE stmt.type \in {"BREAK", "CONTINUE"} -> {<<>>}
       [] stmt.type = "BLOCK" -> UNION {Jumps(stmt.list[i]) : i \in DOMAIN stmt.list}
       [] stmt.type \in {"IF", "WHILE"} -> Jumps(stmt.body)
       [] stmt.type = "IFELSE" -> Jumps(stmt.body) \cup Jumps(stmt.other)
       [] OTHER -> {}}

JumpsOf(p) ==
  UNION {UNION {Jumps(stmt.exprs[1].list[i]) : i \in DOMAIN stmt.exprs[1].list} :
           stmt \in {s \in All(p) : s.type = "DEF" /\ IsFunction(s) /\ s.exprs[1].type = "BLOCK"}}

InLoop(jump) == "WHILE" \in Range(jump)

--------------------------------------------------------------------------------
(* Types.                                                                       *)

\* A variable of a type that does not exist, or of none.
BadType(type) ==
  \/ type.base.type \in {"UNKN", "AUTO", "ARR", "FUNC"}
  \/ type.base.type = "VOID" /\ ~type.indirect

BadReturn(type) == BadType(type) \/ (type.array /\ type.size # <<>>)

BadFunction(stmt) ==
  \/ stmt.exprs[1].type \notin {"BLOCK", "EXT"}
  \/ \E i \in DOMAIN stmt.types[1].base.params : BadType(stmt.types[1].base.params[i].type)
  \/ \E i \in DOMAIN stmt.types[1].base.rets : BadReturn(stmt.types[1].base.rets[i])

BadDefinition(stmt) ==
  \/ Len(stmt.types) > 1 /\ Len(stmt.types) # Len(stmt.names)
  \/ Len(stmt.exprs) > 1 /\ Len(stmt.exprs) # Len(stmt.names)
  \/ IF IsFunction(stmt) THEN BadFunction(stmt)
     ELSE \E i \in DOMAIN stmt.types : BadType(stmt.types[i])

Malformed(p) ==
  \/ \E stmt \in All(p) : stmt.type = "TYPEDEF" \/ (stmt.type = "DEF" /\ BadDefinition(stmt))
  \/ \E root \in Roots(p) : At(p, root).type # "DEF"

\* What is wrong with a program, whatever its jumps.
Flawed(p) ==
  \/ Malformed(p)
  \/ Redeclares(p)
  \/ Unresolved(p)
  \/ ShortCycle(p)

--------------------------------------------------------------------------------
(* The code generator.  s holds the tables the analyzer leaves; chain is        *)
(* search_scopes, as indexes of them.                                           *)

\* Mutant: the variable that is initialized is found in its own initializer.
search_identifier_NoShadow(s, chain, key, shadow) ==
  LET in == {i \in DOMAIN chain : key \in DOMAIN s.scopes[chain[i]]}
  IN  IF in = {} THEN <<>> ELSE s.scopes[chain[Max(in)]][key].node

\* search_identifier: the innermost scope that has the name, or the one outside
\* it for the name shadow, whose initializer is compiled.
search_identifier(s, chain, key, shadow) ==
  LET in == {i \in DOMAIN chain : key \in DOMAIN s.scopes[chain[i]]}
      seen == IF key = shadow THEN in \ {Max(in)} ELSE in
  IN  IF seen = {} THEN <<>> ELSE s.scopes[chain[Max(seen)]][key].node

GenRefer(s, chain, node, uses, shadow) ==
  {<<node, x, search_identifier(s, chain, x, shadow)>> : x \in Range(uses)}

RECURSIVE GenUses(_, _, _, _)
GenUses(s, chain, stmt, path) ==
  CASE stmt.type = "DEF" ->
         IF stmt.exprs = <<>> \/ IsFunction(stmt) THEN {}
         ELSE UNION {GenRefer(s, chain, Expr(path, ExprOf(stmt, i)),
                              stmt.exprs[ExprOf(stmt, i)].uses, stmt.names[i]) :
                       i \in DOMAIN stmt.names}
    [] stmt.type = "BLOCK" ->
         UNION {GenUses(s, Append(chain, s.scope_index[path]), stmt.list[i], Append(path, i)) :
                  i \in DOMAIN stmt.list}
    [] stmt.type \in {"IF", "WHILE"} ->
         GenRefer(s, chain, Expr(path, 1), stmt.cond, "")
           \cup GenUses(s, chain, stmt.body, Append(path, 1))
    [] stmt.type = "IFELSE" ->
         GenRefer(s, chain, Expr(path, 1), stmt.cond, "")
           \cup GenUses(s, chain, stmt.body, Append(path, 1))
           \cup GenUses(s, chain, stmt.other, Append(path, 2))
    [] stmt.type \in {"RET", "EXPR"} -> GenRefer(s, chain, Expr(path, 1), stmt.cond, "")
    [] OTHER -> {}

\* compile_globals and compile_function, for every global.
Generated(s, p) ==
  UNION {IF IsFunction(At(p, root)) /\ At(p, root).exprs[1].type = "BLOCK"
           THEN GenUses(s, <<1, s.scopes[1][At(p, root).names[1]].params>>,
                        At(p, root).exprs[1], Expr(root, 1))
           ELSE GenUses(s, <<1>>, At(p, root), root) : root \in Defs(p)}

RECURSIVE After(_, _)
After(decl, node) ==
  CASE decl = <<>> \/ node = <<>> -> FALSE
    [] Head(decl) = Head(node) -> After(Tail(decl), Tail(node))
    [] OTHER -> Head(decl) > Head(node) \/ (Head(decl) \in 11 .. 15 /\ Head(node) \in 21 .. Head(decl) + 10)

\* decl is local and not complete where node is: it comes later, or in the same
\* statement.
Later(decl, node) == Len(decl) > 3 /\ After(decl, node)

================================================================================
