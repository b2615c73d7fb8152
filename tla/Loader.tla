--------------------------------- MODULE Loader ---------------------------------
(***************************************************************************)
(* How the files of a program are loaded: those named on the command line   *)
(* (main.cpp), then every module that a loaded file uses                    *)
(* (analyzer_preload_all_files, find_and_add_file, load_and_process_file).  *)
(*                                                                          *)
(* The files are kept in a hash table, and the walk over it adds files to   *)
(* it: a file may land in front of the walk or behind it, and the add may   *)
(* rebuild the table so that every file moves.  The table is the one of     *)
(* Hashmap, whose actions are part of the actions below.                    *)
(***************************************************************************)
EXTENDS Integers, Sequences, FiniteSets

CONSTANTS
  Files,         \* the names of files that occur in the projects
  ZeroFile,      \* one of them, the key of an unused entry
  Hash,          \* get_string_hash, a function from names to numbers
  StandardSize,  \* STANDART_MAP_SIZE
  MaxCapacity,   \* bound of the model: the largest table
  Projects       \* what may be on disk and on the command line

\* A project has finitely many files; one of the names is that of no entry.
ASSUME NamesAssumption == IsFiniteSet(Files) /\ ZeroFile \in Files

\* What the table needs, see Hashmap.
ASSUME TableAssumption == Hash \in [Files -> Nat] /\ StandardSize \in Nat \ {0}

\* A project: the files on the command line; for each file the modules it uses,
\* each as the names find_and_add_file tries in turn; and what is on disk under
\* each name: nothing, an empty file, a file that does not parse, or one that
\* does.
ASSUME ProjectsAssumption ==
  \A p \in Projects :
    /\ p.args \in Seq(Files) \ {<<>>}
    /\ p.uses \in [Files -> Seq(Seq(Files))]
    /\ p.disk \in [Files -> {"absent", "empty", "broken", "fine"}]

VARIABLES
  project,     \* the project that is compiled
  phase,       \* where the program is
  arg,         \* i of the loop in main
  notFinished, \* not_finished and ...
  result,      \* ... result of analyzer_preload_all_files
  slot,        \* i, the entry of the table the walk is at
  pair,        \* the copy of that entry
  use,         \* j, the statement of the file in pair
  target,      \* the file load_and_process_file is called for
  analyzed,    \* <<f, n>> once node->analyzed is set for the n-th use of f
  map, old, cursor, pending, pc, res  \* compiler->files, see Hashmap

tableVars == <<map, old, cursor, pending, pc, res>>
walkVars == <<notFinished, result, slot, pair, use, analyzed>>
loaderVars == <<project, phase, arg, target, walkVars, tableVars>>

\* A source_file_t is "new" until parse_file has filled its parsed_roots.
Table == INSTANCE Hashmap WITH
  Keys <- Files, Values <- {"new", "parsed"},
  ZeroKey <- ZeroFile, ZeroValue <- "new",
  InitSizes <- {}, AllocMayFail <- FALSE, AddAfterRemove <- FALSE

--------------------------------------------------------------------------------

Exists(f) == project.disk[f] # "absent"

\* find_and_add_file takes f: the first of the names that exists.
Finds(names, f) ==
  \E n \in DOMAIN names :
    /\ f = names[n]
    /\ Exists(f)
    /\ \A before \in 1..n-1 : ~Exists(names[before])

\* The uses in the roots that the copied entry knows of.
Roots == IF pair.value = "parsed" THEN project.uses[pair.key] ELSE <<>>

Node == <<pair.key, use>>

\* parse_file filled the roots of the file in slot i, through the pointer that
\* hashmap_get returned.
Parsed(i) ==
  [map EXCEPT !.entries = [map.entries EXCEPT ![i] =
     [map.entries[i] EXCEPT !.value = "parsed"]]]

--------------------------------------------------------------------------------
(* The two callers of load_and_process_file.                                    *)

\* Mutant: the last file decides.
LoadEnds_LastCounts(ok) ==
  \/ /\ arg <= Len(project.args)
     /\ IF ok THEN arg' = arg + 1 /\ phase' = "main"
              ELSE arg' = arg /\ phase' = "failed"
     /\ UNCHANGED walkVars
  \/ /\ arg > Len(project.args)
     /\ analyzed' = analyzed \cup {Node}
     /\ result' = ok
     /\ use' = use + 1
     /\ phase' = "uses"
     /\ UNCHANGED <<arg, notFinished, slot, pair>>

\* load_and_process_file returns ok: main goes on or stops, and the walk notes
\* that the node is done and goes on with the other nodes of the file.
LoadEnds(ok) ==
  \/ /\ arg <= Len(project.args)
     /\ IF ok THEN arg' = arg + 1 /\ phase' = "main"
              ELSE arg' = arg /\ phase' = "failed"
     /\ UNCHANGED walkVars
  \/ /\ arg > Len(project.args)
     /\ analyzed' = analyzed \cup {Node}
     /\ result' = (result /\ ok)
     /\ use' = use + 1
     /\ phase' = "uses"
     /\ UNCHANGED <<arg, notFinished, slot, pair>>

\* The next file of the command line.
LoadArgument ==
  /\ phase = "main"
  /\ arg <= Len(project.args)
  /\ target' = project.args[arg]
  /\ phase' = "load"
  /\ UNCHANGED <<project, arg, walkVars, tableVars>>

\* compile starts with analyzer_preload_all_files.
StartPreload ==
  /\ phase = "main"
  /\ arg > Len(project.args)
  /\ phase' = "while"
  /\ UNCHANGED <<project, arg, target, walkVars, tableVars>>

--------------------------------------------------------------------------------
(* analyzer_preload_all_files.                                                  *)

StartWalk ==
  /\ phase = "while"
  /\ notFinished
  /\ notFinished' = FALSE
  /\ slot' = 0
  /\ phase' = "walk"
  /\ UNCHANGED <<project, arg, target, result, pair, use, analyzed, tableVars>>

EndPreload ==
  /\ phase = "while"
  /\ ~notFinished
  /\ phase' = IF result THEN "loaded" ELSE "failed"
  /\ UNCHANGED <<project, arg, target, walkVars, tableVars>>

\* No entry, or one that was removed.
SkipEntry ==
  /\ phase = "walk"
  /\ slot < map.capacity
  /\ ~Table!Live(map.entries[slot])
  /\ slot' = slot + 1
  /\ UNCHANGED <<project, phase, arg, target, notFinished, result, pair, use,
                 analyzed, tableVars>>

OpenEntry ==
  /\ phase = "walk"
  /\ slot < map.capacity
  /\ Table!Live(map.entries[slot])
  /\ pair' = map.entries[slot]
  /\ use' = 1
  /\ phase' = "uses"
  /\ UNCHANGED <<project, arg, target, notFinished, result, slot, analyzed,
                 tableVars>>

EndWalk ==
  /\ phase = "walk"
  /\ slot >= map.capacity
  /\ phase' = "while"
  /\ UNCHANGED <<project, arg, target, walkVars, tableVars>>

\* Mutant: not_finished is set before the node is looked at.
SkipUse_NotFinished ==
  /\ phase = "uses"
  /\ use <= Len(Roots)
  /\ Node \in analyzed
  /\ use' = use + 1
  /\ notFinished' = TRUE
  /\ UNCHANGED <<project, phase, arg, target, result, slot, pair, analyzed,
                 tableVars>>

SkipUse ==
  /\ phase = "uses"
  /\ use <= Len(Roots)
  /\ Node \in analyzed
  /\ use' = use + 1
  /\ UNCHANGED <<project, phase, arg, target, notFinished, result, slot, pair,
                 analyzed, tableVars>>

\* Mutant: the walk is not repeated after a file was found.
FindUse_OneWalk ==
  /\ phase = "uses"
  /\ use <= Len(Roots)
  /\ Node \notin analyzed
  /\ \E f \in Files : Finds(Roots[use], f) /\ target' = f
  /\ phase' = "load"
  /\ UNCHANGED <<project, arg, walkVars, tableVars>>

\* find_and_add_file finds a file for the node.
FindUse ==
  /\ phase = "uses"
  /\ use <= Len(Roots)
  /\ Node \notin analyzed
  /\ \E f \in Files : Finds(Roots[use], f) /\ target' = f
  /\ notFinished' = TRUE
  /\ phase' = "load"
  /\ UNCHANGED <<project, arg, result, slot, pair, use, analyzed, tableVars>>

\* find_and_add_file finds none.
MissUse ==
  /\ phase = "uses"
  /\ use <= Len(Roots)
  /\ Node \notin analyzed
  /\ \A f \in Files : ~Finds(Roots[use], f)
  /\ notFinished' = TRUE
  /\ analyzed' = analyzed \cup {Node}
  /\ result' = FALSE
  /\ use' = use + 1
  /\ UNCHANGED <<project, phase, arg, target, slot, pair, tableVars>>

\* The roots of the file are through: the next entry, or the end of both loops
\* if anything went wrong.
CloseEntry ==
  /\ phase = "uses"
  /\ use > Len(Roots)
  /\ IF result
       THEN slot' = slot + 1 /\ phase' = "walk" /\ UNCHANGED notFinished
       ELSE notFinished' = FALSE /\ phase' = "while" /\ UNCHANGED slot
  /\ UNCHANGED <<project, arg, target, result, pair, use, analyzed, tableVars>>

--------------------------------------------------------------------------------
(* load_and_process_file.                                                       *)

\* platform_read_file_into_string finds no file, or an empty one.
ReadFails ==
  /\ phase = "load"
  /\ project.disk[target] \in {"absent", "empty"}
  /\ LoadEnds(FALSE)
  /\ UNCHANGED <<project, target, tableVars>>

\* hashmap_add, which may start a rebuild.
AddFile ==
  /\ phase = "load"
  /\ project.disk[target] \notin {"absent", "empty"}
  /\ \/ Table!AddDirectly(target, "new") /\ phase' = "parse"
     \/ Table!StartRebuild(target, "new") /\ phase' = "grow"
  /\ UNCHANGED <<project, arg, target, walkVars>>

\* The rebuild inside hashmap_add.
GrowTable ==
  /\ phase = "grow"
  /\ \/ Table!Reinsert /\ UNCHANGED phase
     \/ Table!FinishAdd /\ phase' = "parse"
  /\ UNCHANGED <<project, arg, target, walkVars>>

\* The name was in the table already.
AddFails ==
  /\ phase = "parse"
  /\ ~res.ok
  /\ LoadEnds(FALSE)
  /\ UNCHANGED <<project, target, tableVars>>

\* parse_file looks the file up and fills in its roots, which are kept if the
\* file has errors; if the file is not there it gives up.
ParseFile ==
  /\ phase = "parse"
  /\ res.ok
  /\ IF Table!Misses(map, target)
       THEN LoadEnds(FALSE) /\ UNCHANGED map
       ELSE /\ \E i \in 0..map.capacity-1 :
                 Table!Finds(map, target, i) /\ map' = Parsed(i)
            /\ LoadEnds(project.disk[target] = "fine")
  /\ UNCHANGED <<project, target, old, cursor, pending, pc, res>>

--------------------------------------------------------------------------------
LoaderInit ==
  /\ project \in Projects
  /\ phase = "main"
  /\ arg = 1
  /\ notFinished = TRUE
  /\ result = TRUE
  /\ slot = 0
  /\ pair = Table!ZeroEntry
  /\ use = 1
  /\ target = ZeroFile
  /\ analyzed = {}
  /\ Table!Init

Main == LoadArgument \/ StartPreload
Preload == StartWalk \/ EndPreload \/ SkipEntry \/ OpenEntry \/ EndWalk
Uses == SkipUse \/ FindUse \/ MissUse \/ CloseEntry
LoadFile == ReadFails \/ AddFile \/ GrowTable \/ AddFails \/ ParseFile

LoaderNext == Main \/ Preload \/ Uses \/ LoadFile

LoaderSpec == LoaderInit /\ [][LoaderNext]_loaderVars /\ WF_loaderVars(LoaderNext)

--------------------------------------------------------------------------------
(* Properties.                                                                  *)

\* The table to look into: the old one while it is being rebuilt.
IsParsed(f) ==
  \E i \in Table!LiveSlots(Table!Current) :
    /\ Table!Current.entries[i].key = f
    /\ Table!Current.entries[i].value = "parsed"

\* The files and uses of the program, by reachability: the smallest set of files
\* that holds the arguments and, with a file, what its uses stand for.
Closed(S) ==
  /\ \A n \in DOMAIN project.args : project.args[n] \in S
  /\ \A f \in S : \A n \in DOMAIN project.uses[f] :
       \A g \in Files : Finds(project.uses[f][n], g) => g \in S

Reached == {f \in Files : \A S \in SUBSET Files : Closed(S) => f \in S}

ReachedNodes ==
  UNION {{<<f, n>> : n \in DOMAIN project.uses[f]} : f \in Reached}

\* How many arguments and uses ask for f.
Requests(f) ==
  Cardinality({n \in DOMAIN project.args : project.args[n] = f}) +
  Cardinality({node \in ReachedNodes :
                 Finds(project.uses[node[1]][node[2]], f)})

\* Every use stands for a file, every file is in order and asked for once.
IsForest ==
  /\ \A node \in ReachedNodes :
       \E f \in Files : Finds(project.uses[node[1]][node[2]], f)
  /\ \A f \in Reached : project.disk[f] = "fine" /\ Requests(f) = 1

\* Although the table is walked over while it grows and is rebuilt, nothing is
\* passed over: when analyzer_preload_all_files reports success, exactly the
\* files the program needs are in the table, parsed, and every use in them was
\* dealt with.
LoadsEverything ==
  phase = "loaded" =>
    /\ Reached = {f \in Files : IsParsed(f)}
    /\ Reached = Table!LiveKeys(map)
    /\ analyzed = ReachedNodes

\* Loading fails for the programs that have a reason to, and for no other: a
\* file missing, empty or wrong, or one that is asked for twice, which
\* load_and_process_file takes for an error (so that no two modules can use a
\* third, and no modules each other).
FailsForAReason ==
  /\ phase = "loaded" => IsForest
  /\ phase = "failed" => ~IsForest

\* A file that was parsed keeps its place and its roots whatever the loads
\* after it do to the table, in the middle of a rebuild as well.
ParsedFilesStay ==
  [][\A f \in Files : IsParsed(f) => IsParsed(f)']_loaderVars

\* The repeated walks come to an end, on cyclic uses too.
Terminates == <>(phase \in {"loaded", "failed"})
================================================================================
