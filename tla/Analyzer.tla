-------------------------------- MODULE Analyzer --------------------------------
(***************************************************************************)
(* The semantic analysis of a parsed program (src/analyzer.cpp): passes     *)
(* over the global statements that declare names and types, then the        *)
(* initializers and function bodies.                                        *)
(*                                                                          *)
(* Syntax.  A program is a sequence of files, a file a sequence of          *)
(* statements, a statement a record with a field type.  A node is known by  *)
(* its path, the sequence of child numbers that leads to it.  Of an         *)
(* expression only the identifiers it mentions matter, left to right: no    *)
(* operator changes the search stack (a variable never has a type in        *)
(* type_name, see NoTypes) and none stops at the first failure.             *)
(*   DEF    names, types (one or, AST_MUL_TYPES, several), exprs, single    *)
(*   BLOCK  list         IF, IFELSE, WHILE  cond, body, other               *)
(*   RET, EXPR  expr     BREAK, CONTINUE    TYPEDEF (struct, union, enum)   *)
(* A type is [array, size, indirect, base]: the expression of its length,   *)
(* whether a pointer is in front of base.  base "ARR" is a second array.    *)
(*                                                                          *)
(* NoTypes: analyze_struct, _union and _enum return false at once, so that  *)
(* no entry is ever an ENTRY_TYPE and a name used as a type is unknown, or  *)
(* is a variable or function.                                               *)
(***************************************************************************)
EXTENDS Integers, Sequences, SequencesExt, FiniteSets, FiniteSetsExt, TLC

CONSTANTS
  Programs,   \* the programs that are analyzed
  MaxPasses   \* bound on the passes over the global statements, 10 in the program

ASSUME PassesAssumption == MaxPasses \in Nat \ {0}

VARIABLES
  prog,          \* the program
  st,            \* analyzer_state_t and what it points to, see EmptyState
  state,         \* GLOBAL_ANALYSIS, CODE_ANALYSIS or DONE
  pass, file, root,  \* the statement that is analyzed next
  not_finished,  \* a statement of this pass was not analyzed before
  todo,          \* global entries analyze_code has not visited
  valid          \* no error so far

analyzerVars == <<prog, st, state, pass, file, root, not_finished, todo, valid>>

(* scopes          tables of names: scope 1 is global, then blocks and parameters   *)
(* search          current_search_stack, as indexes of scopes                      *)
(* internal_deps   names whose definition is being resolved                        *)
(* symbol_deps     names each of them was seen to mention                          *)
(* analyzed        nodes marked as analyzed                                        *)
(* scope_index     scope of each block                                             *)
(* resolved        declarations found so far, as <<expression, name, declaration>> *)
(* wait            should_wait; code: state is STATE_CODE_ANALYSIS                 *)
(* asserted        an assertion failed: debug builds stop there                    *)
EmptyState ==
  [scopes |-> << <<>> >>, search |-> <<1>>, internal_deps |-> <<>>, symbol_deps |-> <<>>,
   analyzed |-> {}, scope_index |-> <<>>, resolved |-> {},
   wait |-> FALSE, code |-> FALSE, asserted |-> FALSE]

Yes(s) == [st |-> s, ok |-> TRUE]
No(s) == [st |-> s, ok |-> FALSE]
And(ok, r) == [r EXCEPT !.ok = ok /\ @]

Mark(s, node) == [s EXCEPT !.analyzed = @ \cup {node}]

\* Paths of the parts of a statement.
Name(path, i) == Append(path, 10 + i)
Expr(path, i) == Append(path, 20 + i)
ReturnPath(path, i) == Append(path, 30 + i)
Param(path, i) == Append(path, 15 + i)

--------------------------------------------------------------------------------
(* Entries.  A reference to one is <<scope, name>>.                             *)

NoExpr == [type |-> "NONE"]

Get(s, ref) == s.scopes[ref[1]][ref[2]]

Update(s, ref, entry) == [s EXCEPT !.scopes[ref[1]] = (ref[2] :> entry) @@ @]

SetType(s, ref, type) == [s EXCEPT !.scopes[ref[1]][ref[2]].type = type]

\* A table for a block or for the parameters of a function.
AddScope(s) == [s EXCEPT !.scopes = Append(@, <<>>)]

PushScope(s, scope) == [s EXCEPT !.search = Append(@, scope)]

\* The scope definitions go to, stack_peek(&state->current_search_stack).
Current(s) == Last(s.search)

\* Mutant: a second definition takes the name over.
check_if_unique_Shared(s, d) == TRUE

\* check_if_unique: a name has one node, however often that node is analyzed.
check_if_unique(s, d) ==
  d.key \in DOMAIN s.scopes[Current(s)] => s.scopes[Current(s)][d.key].node = d.node

BlankEntry(d) ==
  [type |-> "ERROR", uninit |-> FALSE, node |-> d.node, expr |-> d.expr,
   expr_node |-> d.expr_node, params |-> 0, rets |-> 0]

\* aquire_entry and the assignments after it: a new entry or the one the node has.
Declare(s, d) ==
  Update(s, <<Current(s), d.key>>,
         IF d.key \in DOMAIN s.scopes[Current(s)]
           THEN [s.scopes[Current(s)][d.key] EXCEPT
                   !.node = d.node, !.expr = d.expr, !.expr_node = d.expr_node]
           ELSE BlankEntry(d))

\* hashmap_add: an entry that exists is kept.
AddDeps(s, key) ==
  [s EXCEPT !.symbol_deps = IF key \in DOMAIN @ THEN @ ELSE (key :> {}) @@ @]

\* Notes that the definition in hand mentions a name.
NoteDep(s, name) ==
  IF s.internal_deps = <<>> THEN s
  ELSE [s EXCEPT !.symbol_deps[Last(s.internal_deps)] = @ \cup {name}]

DepsOf(s, key) == IF key \in DOMAIN s.symbol_deps THEN s.symbol_deps[key] ELSE {}

\* Mutant: only the name itself is compared.
check_dependencies_Self(s, key) == \A d \in Range(s.internal_deps) : d # key

check_dependencies(s, key) ==
  \A d \in Range(s.internal_deps) : d # key /\ d \notin DepsOf(s, key)

(* get_if_exists: from the top of the search stack down, the first entry that   *)
(* is not the variable being initialized.                                       *)
EntryAt(s, i, key) == s.scopes[s.search[i]][key]

Holding(s, key) == {i \in DOMAIN s.search : key \in DOMAIN s.scopes[s.search[i]]}

Recursive(s, i, key) ==
  (EntryAt(s, i, key).type # "VAR" \/ s.code) /\ ~check_dependencies(s, key)

\* Mutant: the variable being initialized is not stepped over.
StopsAt_Itself(s, i, key) == TRUE

StopsAt(s, i, key) == Recursive(s, i, key) \/ ~EntryAt(s, i, key).uninit

Found(status, s, i, key) == [status |-> status, entry |-> EntryAt(s, i, key)]

Answer(s, i, key) ==
  IF Recursive(s, i, key) THEN Found("DEPS_ERROR", s, i, key)
  ELSE IF EntryAt(s, i, key).node \in s.analyzed THEN Found("SUCCESS", s, i, key)
  ELSE Found("NOT_ANALYZED", s, i, key)

\* Mutant: the search starts at the global scope.
get_if_exists_Outermost(s, key) ==
  IF Holding(s, key) = {} THEN [status |-> "NOT_FIND", entry |-> NoExpr]
  ELSE Answer(s, Min(Holding(s, key)), key)

get_if_exists(s, key) ==
  CASE Holding(s, key) = {} -> [status |-> "NOT_FIND", entry |-> NoExpr]
    [] \E i \in Holding(s, key) : StopsAt(s, i, key) ->
         Answer(s, Max({i \in Holding(s, key) : StopsAt(s, i, key)}), key)
    [] OTHER -> Found("SUCCESS", s, Min(Holding(s, key)), key)

--------------------------------------------------------------------------------
(* Expressions.                                                                 *)

\* A name in an expression: found is what get_if_exists answered.
UseOf(s, node, name, found) ==
  CASE found.status = "NOT_ANALYZED" -> No([s EXCEPT !.asserted = TRUE])
    [] found.status # "SUCCESS" -> No(s)
    [] found.entry.type = "FUNC" \/ (found.entry.type = "VAR" /\ ~found.entry.uninit) ->
         Yes([s EXCEPT !.resolved = @ \cup {<<node, name, found.entry.node>>}])
    [] OTHER -> No(s)

analyze_ident(s, node, name) == UseOf(s, node, name, get_if_exists(s, name))

analyze_expression(s, node, uses) ==
  FoldLeft(LAMBDA r, name : And(r.ok, analyze_ident(NoteDep(r.st, name), node, name)),
           Yes(s), uses)

--------------------------------------------------------------------------------
(* Definitions.                                                                 *)

\* What analyze_definition is called with for the i-th name of a statement.
Definition(stmt, path, i) ==
  LET e == IF Len(stmt.exprs) > 1 THEN i ELSE 1
  IN  [node |-> IF stmt.single THEN path ELSE Name(path, i),
       key |-> stmt.names[i],
       type |-> stmt.types[IF Len(stmt.types) > 1 THEN i ELSE 1],
       expr |-> IF stmt.exprs = <<>> THEN NoExpr ELSE stmt.exprs[e],
       expr_node |-> Expr(path, e),
       can_do_func |-> stmt.single /\ stmt.exprs # <<>>]

\* A parameter of the function in d.
ParamDefinition(d, i) ==
  [node |-> Param(d.node, i), key |-> d.type.base.params[i].name,
   type |-> d.type.base.params[i].type, expr |-> NoExpr,
   expr_node |-> d.node, can_do_func |-> FALSE]

\* Types and initializers are one for all the names, or one for each of them.
CountsAgree(stmt) ==
  /\ Len(stmt.types) > 1 => Len(stmt.types) = Len(stmt.names)
  /\ Len(stmt.exprs) > 1 => Len(stmt.exprs) = Len(stmt.names)

RECURSIVE analyze_definition(_, _), analyze_names(_, _, _, _), analyze_params(_, _, _, _),
          analyze_returns(_, _, _, _), analyze_function(_, _, _), EnterFunction(_, _),
          analyze_definition_expr(_, _),
          analyze_body(_, _, _), analyze_block(_, _, _, _), analyze_statement(_, _, _, _)

\* The entry is of no use, and is not looked at again.
Reject(s, ref) == No(Mark(SetType(s, ref, "ERROR"), Get(s, ref).node))

\* Mutant: in a function only the statement is marked.
Finish_Global(r, ref) ==
  IF r.st.wait \/ r.st.code THEN r ELSE [r EXCEPT !.st = Mark(@, Get(r.st, ref).node)]

\* What had to wait is looked at again in the next pass.
Finish(r, ref) ==
  IF r.st.wait THEN r ELSE [r EXCEPT !.st = Mark(@, Get(r.st, ref).node)]

\* In a function the initializer is analyzed with the definition.
DefinitionOf(s, ref) ==
  Finish(IF s.code THEN analyze_definition_expr(s, ref) ELSE Yes(s), ref)

\* Mutant: any name that is known will do.
NamedType_Any(s, ref, indirect, found) ==
  IF found.status = "SUCCESS" THEN DefinitionOf(SetType(s, ref, "VAR"), ref)
  ELSE DefinitionOf([s EXCEPT !.wait = TRUE], ref)

\* A name as a type.  found: what get_if_exists answered.
NamedType(s, ref, indirect, found) ==
  CASE found.status \in {"NOT_FIND", "NOT_ANALYZED"} ->
         DefinitionOf([s EXCEPT !.wait = TRUE], ref)
    [] found.status = "DEPS_ERROR" /\ ~indirect -> No(s)
    [] OTHER -> Reject(s, ref)

NoteType(s, type) == IF type.indirect THEN s ELSE NoteDep(s, type.base.name)

\* analyze_function has analyzed the type of the function.
FunctionOf(r, ref) == IF r.ok THEN DefinitionOf(r.st, ref) ELSE Reject(r.st, ref)

TypeOf(r, ref, d) ==
  CASE ~r.ok \/ d.type.base.type = "ARR" -> No(r.st)
    [] d.type.base.type = "FUNC" /\ d.can_do_func ->
         FunctionOf(analyze_function(SetType(r.st, ref, "FUNC"), ref, d), ref)
    [] d.type.base.type = "STD" \/ (d.type.base.type = "VOID" /\ d.type.indirect) ->
         DefinitionOf(SetType(r.st, ref, "VAR"), ref)
    [] d.type.base.type = "UNKN" ->
         NamedType(NoteType(r.st, d.type), ref, d.type.indirect,
                   get_if_exists(NoteType(r.st, d.type), d.type.base.name))
    [] OTHER -> Reject(r.st, ref)

analyze_definition(s, d) ==
  IF ~check_if_unique(s, d) THEN No(s)
  ELSE TypeOf(IF d.type.array
                THEN analyze_expression(Declare(s, d), d.node, d.type.size)
                ELSE Yes(Declare(s, d)),
              <<Current(s), d.key>>, d)

--------------------------------------------------------------------------------
(* Functions.                                                                   *)

\* The table of parameters is part of the entry, and there from the start.
EnterFunction(s, ref) ==
  IF Get(s, ref).params # 0
    THEN AddDeps([PushScope(s, Get(s, ref).params) EXCEPT !.internal_deps = Append(@, ref[2])], ref[2])
    ELSE EnterFunction([AddScope(s) EXCEPT
                          !.scopes[ref[1]][ref[2]].params = Len(s.scopes) + 1], ref)

\* A parameter that waits ends the list, one that fails does not.
analyze_params(r, ref, d, i) ==
  IF i > Len(d.type.base.params) \/ r.st.wait THEN r
  ELSE analyze_params(And(r.ok, analyze_definition(r.st, ParamDefinition(d, i))), ref, d, i + 1)

\* return false before the scopes are left.
Early(s) == [st |-> s, ok |-> FALSE, early |-> TRUE]

\* A return type that is refused; the scopes are left after it.
Erroneous(s, ref) == [st |-> SetType(s, ref, "ERROR"), ok |-> FALSE, early |-> FALSE]

NamedReturn(s, r, ref, indirect, found) ==
  CASE found.status \in {"NOT_FIND", "NOT_ANALYZED"} -> [r EXCEPT !.st = [s EXCEPT !.wait = TRUE]]
    [] found.status = "DEPS_ERROR" /\ ~indirect -> Early(s)
    [] OTHER -> Erroneous(s, ref)

ReturnOf(r, ref, type, size) ==
  CASE ~size.ok -> Early(size.st)
    [] type.base.type = "ARR" -> [r EXCEPT !.st.asserted = TRUE, !.ok = FALSE]
    [] type.base.type = "VOID" /\ ~type.indirect -> Erroneous(r.st, ref)
    [] type.base.type = "UNKN" ->
         NamedReturn(NoteType(r.st, type), r, ref, type.indirect,
                     get_if_exists(NoteType(r.st, type), type.base.name))
    [] OTHER -> r

\* Goes on to the next return type, or stops with what was found.
NextReturn(r, ref, d, i) ==
  IF r.early \/ ~r.ok \/ r.st.wait THEN r
  ELSE analyze_returns([r EXCEPT !.st = Mark([@ EXCEPT !.scopes[ref[1]][ref[2]].rets = @ + 1],
                                             ReturnPath(d.node, i))], ref, d, i + 1)

analyze_returns(r, ref, d, i) ==
  CASE i > Len(d.type.base.rets) -> r
    [] ReturnPath(d.node, i) \in r.st.analyzed -> analyze_returns(r, ref, d, i + 1)
    [] OTHER ->
         NextReturn(ReturnOf(r, ref, d.type.base.rets[i],
                             IF d.type.base.rets[i].array
                               THEN analyze_expression(r.st, d.node, d.type.base.rets[i].size)
                               ELSE Yes(r.st)), ref, d, i)

\* Mutant: only the parameters are left.
LeaveFunction_Deps(r, ref) ==
  Finish([st |-> [r.st EXCEPT !.search = Front(@)], ok |-> r.ok], ref)

LeaveFunction(r, ref) ==
  IF r.early THEN No(r.st)
  ELSE Finish([st |-> [r.st EXCEPT !.internal_deps = Front(@), !.search = Front(@)], ok |-> r.ok], ref)

WithEarly(r) == [st |-> r.st, ok |-> r.ok, early |-> FALSE]

analyze_function(s, ref, d) ==
  LeaveFunction(analyze_returns(WithEarly(analyze_params(Yes(EnterFunction(s, ref)), ref, d, 1)),
                                ref, d, 1), ref)

--------------------------------------------------------------------------------
(* Initializers and bodies.                                                     *)

\* The table of a block, on top of the search stack.
EnterBlock(s, path) ==
  [PushScope(AddScope(s), Len(s.scopes) + 1) EXCEPT
     !.scope_index = (path :> Len(s.scopes) + 1) @@ @]

BlockStep(r, jumps, q) ==
  [st |-> q.st,
   ok |-> r.ok /\ q.res # "ERR" /\ (~jumps => q.res \notin {"BREAK", "CONTINUE"})]

\* The statements of a block; jumps: break and continue may stand in it.
analyze_block(s, jumps, list, path) ==
  FoldLeft(LAMBDA r, j : BlockStep(r, jumps, analyze_statement(r.st, FALSE, list[j], Append(path, j))),
           Yes(s), [j \in 1 .. Len(list) |-> j])

\* No name of the block itself is the name of a parameter.
Shadows(s, ref, path) ==
  DOMAIN s.scopes[Get(s, ref).params] \cap DOMAIN s.scopes[s.scope_index[path]] # {}

LeaveBody(r, s, ref, path) ==
  [st |-> Mark([r.st EXCEPT !.search = s.search], path),
   ok |-> r.ok /\ ~Shadows(r.st, ref, path)]

analyze_body(s, ref, path) ==
  LeaveBody(analyze_block(EnterBlock(PushScope(s, Get(s, ref).params), path), FALSE,
                          Get(s, ref).expr.list, path),
            s, ref, path)

\* The variable exists once its initializer was analyzed without an error.
Initialized(r, ref, path) ==
  [r EXCEPT !.st = Mark([@ EXCEPT !.scopes[ref[1]][ref[2]].uninit = ~r.ok], path)]

analyze_definition_expr(s, ref) ==
  CASE Get(s, ref).expr = NoExpr -> [st |-> s, ok |-> Get(s, ref).type # "FUNC"]
    [] Get(s, ref).expr_node \in s.analyzed -> Yes(s)
    [] Get(s, ref).type = "FUNC" ->
         CASE Get(s, ref).expr.type = "EXT" -> Yes(s)
           [] Get(s, ref).expr.type = "BLOCK" -> analyze_body(s, ref, Get(s, ref).expr_node)
           [] OTHER -> No(s)
    [] Get(s, ref).type = "VAR" ->
         Initialized(analyze_expression([s EXCEPT !.scopes[ref[1]][ref[2]].uninit = TRUE],
                                        Get(s, ref).expr_node, Get(s, ref).expr.uses),
                     ref, Get(s, ref).expr_node)
    [] OTHER -> Yes(Mark(s, Get(s, ref).expr_node))

--------------------------------------------------------------------------------
(* Statements.                                                                  *)

\* analyze_unary_var_def, _unkn_def, _bin_var_def and _tern_def: the names in
\* turn, up to one that fails or has to wait.
analyze_names(r, stmt, path, i) ==
  IF ~r.ok \/ r.st.wait THEN r
  ELSE IF i <= Len(stmt.names)
    THEN analyze_names(analyze_definition(r.st, Definition(stmt, path, i)), stmt, path, i + 1)
  ELSE IF stmt.single THEN r ELSE Yes(Mark(r.st, path))

analyze_def(s, stmt, path) ==
  IF CountsAgree(stmt) THEN analyze_names(Yes(s), stmt, path, 1)
  ELSE No(IF stmt.exprs = <<>> THEN s ELSE Mark(s, path))

\* What a statement comes to: RETURN, BREAK and CONTINUE, ERR, or OK.
Res(s, res) == [st |-> s, res |-> res]
OkOrErr(r) == Res(r.st, IF r.ok THEN "OK" ELSE "ERR")

IfRes(q) == Res(q.st, IF q.res = "ERR" THEN "ERR" ELSE "OK")

IfElseRes(lr, rr) ==
  Res(rr.st, CASE lr.res = "RETURN" /\ rr.res = "RETURN" -> "RETURN"
               [] "ERR" \in {lr.res, rr.res} -> "ERR"
               [] OTHER -> "OK")

Else(lr, in_loop, stmt, path) ==
  IfElseRes(lr, analyze_statement(lr.st, in_loop, stmt.other, Append(path, 2)))

\* Where a break in a block is accepted: the check is the wrong way round, and
\* in_loop is not handed on to the statements of a block.
JumpsAllowed(in_loop) == ~in_loop

\* After the condition, when there was no error in it.
Branch(r, in_loop, stmt, path) ==
  IF ~r.ok THEN Res(r.st, "ERR")
  ELSE CASE stmt.type = "IF" -> IfRes(analyze_statement(r.st, in_loop, stmt.body, Append(path, 1)))
         [] stmt.type = "IFELSE" ->
              Else(analyze_statement(r.st, in_loop, stmt.body, Append(path, 1)),
                   in_loop, stmt, path)
         [] stmt.type = "WHILE" -> analyze_statement(r.st, TRUE, stmt.body, Append(path, 1))
         [] OTHER -> Res(r.st, "RETURN")

Statement(s, in_loop, stmt, path) ==
  CASE stmt.type = "BLOCK" ->
         OkOrErr(analyze_block(EnterBlock(s, path), JumpsAllowed(in_loop), stmt.list, path))
    [] stmt.type \in {"IF", "IFELSE", "WHILE", "RET"} ->
         Branch(analyze_expression(s, Expr(path, 1), stmt.cond), in_loop, stmt, path)
    [] stmt.type \in {"BREAK", "CONTINUE"} -> Res(s, stmt.type)
    [] stmt.type = "DEF" -> OkOrErr(analyze_def(s, stmt, path))
    [] stmt.type = "EXPR" -> OkOrErr(analyze_expression(s, Expr(path, 1), stmt.cond))
    [] OTHER -> Res(s, "ERR")

\* The search stack is cut back, and what has to wait is an error in a block.
LeaveStatement(q, s, path) ==
  Res(Mark([q.st EXCEPT !.search = s.search, !.wait = s.wait], path),
      IF q.st.wait THEN "ERR" ELSE q.res)

analyze_statement(s, in_loop, stmt, path) ==
  LeaveStatement(Statement([s EXCEPT !.wait = FALSE], in_loop, stmt, path), s, path)

analyze_global_statement(s, stmt, path) ==
  IF stmt.type = "DEF" THEN analyze_def([s EXCEPT !.wait = FALSE], stmt, path)
  ELSE No([s EXCEPT !.wait = FALSE])

--------------------------------------------------------------------------------
(* The passes.                                                                  *)

AnalyzerInit ==
  /\ prog \in Programs
  /\ st = EmptyState
  /\ state = "GLOBAL_ANALYSIS"
  /\ pass = 1 /\ file = 1 /\ root = 1
  /\ not_finished = FALSE
  /\ todo = {}
  /\ valid = TRUE

\* A statement that no pass before this one has resolved.
Analyze(r) ==
  /\ st' = r.st
  /\ valid' = (valid /\ r.ok)

GlobalStatement ==
  /\ state = "GLOBAL_ANALYSIS" /\ file <= Len(prog) /\ root <= Len(prog[file])
  /\ root' = root + 1
  /\ IF <<file, root>> \in st.analyzed
       THEN UNCHANGED <<st, valid, not_finished>>
       ELSE /\ Analyze(analyze_global_statement(st, prog[file][root], <<file, root>>))
            /\ not_finished' = TRUE
  /\ UNCHANGED <<prog, state, pass, file, todo>>

\* An error ends the pass with its file.
EndFile ==
  /\ state = "GLOBAL_ANALYSIS" /\ file <= Len(prog) /\ root > Len(prog[file])
  /\ file' = IF valid THEN file + 1 ELSE Len(prog) + 1
  /\ root' = 1
  /\ not_finished' = (valid /\ not_finished)
  /\ UNCHANGED <<prog, st, state, pass, todo, valid>>

\* Another pass, the second phase, or the end: an error, or names that stay unknown.
EndPass ==
  /\ state = "GLOBAL_ANALYSIS" /\ file > Len(prog)
  /\ IF not_finished /\ pass < MaxPasses
       THEN /\ pass' = pass + 1 /\ file' = 1
            /\ not_finished' = FALSE
            /\ UNCHANGED <<st, state, todo, valid>>
       ELSE /\ valid' = (valid /\ ~not_finished)
            /\ IF valid'
                 THEN /\ state' = "CODE_ANALYSIS"
                      /\ todo' = DOMAIN st.scopes[1]
                      /\ st' = [st EXCEPT !.symbol_deps = <<>>, !.internal_deps = <<>>,
                                          !.code = TRUE,
                                          !.asserted = @ \/ Len(st.search) # 1]
                 ELSE state' = "DONE" /\ UNCHANGED <<st, todo>>
            /\ UNCHANGED <<pass, file, not_finished>>
  /\ UNCHANGED <<prog, root>>

\* The initializer of a global entry is analyzed as a dependency of its name.
EnterEntry(s, name) ==
  IF Get(s, <<1, name>>).type = "FUNC" THEN AddDeps(s, name)
  ELSE [AddDeps(s, name) EXCEPT !.internal_deps = Append(@, name)]

LeaveEntry(r, name) ==
  [r EXCEPT !.st = [@ EXCEPT
     !.internal_deps = IF Get(r.st, <<1, name>>).type = "FUNC" THEN @ ELSE Front(@),
     !.asserted = @ \/ Len(r.st.search) # 1]]

CodeEntry ==
  /\ state = "CODE_ANALYSIS"
  /\ \E name \in todo :
       /\ todo' = todo \ {name}
       /\ Analyze(LeaveEntry(analyze_definition_expr(EnterEntry(st, name), <<1, name>>), name))
  /\ UNCHANGED <<prog, state, pass, file, root, not_finished>>

EndCode ==
  /\ state = "CODE_ANALYSIS" /\ todo = {}
  /\ state' = "DONE"
  /\ UNCHANGED <<prog, st, pass, file, root, not_finished, todo, valid>>

AnalyzerNext == GlobalStatement \/ EndFile \/ EndPass \/ CodeEntry \/ EndCode

AnalyzerSpec == AnalyzerInit /\ [][AnalyzerNext]_analyzerVars

================================================================================
