-------------------------------- MODULE MCParts --------------------------------
(***************************************************************************)
(* The loader, the analyzer, the driver and the libraries of the compiler,   *)
(* one at a time: part says which one moves.  The text of the code generator *)
(* and its arena move together.                                              *)
(***************************************************************************)
EXTENDS Containers, Sorter, Driver, MCLoader, MCAnalyzer

VARIABLE part

libraryVars == <<memoryVars, textVars, collectionVars, sorterVars>>
mcVars == <<libraryVars, driverVars, loaderVars, analyzerVars, part>>

\* All arrays of three values and up to five elements, and all orders of five
\* different ones.
MCLists ==
  UNION {[1 .. n -> 0 .. 2] : n \in 0 .. 5}
    \cup {list \in [1 .. 5 -> 0 .. 4] : IsInjective(list)}

\* Requests around the size of the first chunk, and up to the second one.
ArenaSizes == {0, 7, 20, 32, 33}

\* Requests shorter than the warning, longer than it, and the whole buffer and
\* more.
TempSizes == {0, 1, 2, 3, 5, 6, 7}

NoText == [count |-> 0, grow |-> 0, cells |-> <<>>, at |-> 0]

NoSorting == given = <<>> /\ data = <<>> /\ rest = <<>> /\ call = NoCall

NoDriving ==
  /\ arguments = <<>> /\ stage = "none" /\ next = 0 /\ status = FALSE
  /\ at_least_one_file_loaded = FALSE /\ wait_for_output_filename = FALSE
  /\ loads = <<>> /\ filename = 0 /\ block_stack = <<>> /\ mismatched = FALSE /\ failed = FALSE

\* A program whose only file is not there, when that was noticed.
NoLoading ==
  /\ project = [args |-> <<none>>, uses |-> [f \in Files |-> <<>>], disk |-> Disk("absent")]
  /\ phase = "failed" /\ arg = 1 /\ notFinished = TRUE /\ result = TRUE /\ slot = 0
  /\ pair = Table!ZeroEntry /\ use = 1 /\ target = none /\ analyzed = {} /\ Table!Init

NoAnalysis ==
  /\ prog = <<>> /\ st = EmptyState /\ state = "none" /\ pass = 0 /\ file = 0 /\ root = 0
  /\ not_finished = FALSE /\ todo = {} /\ valid = TRUE

PartsInit ==
  /\ CollectionsInit /\ TempInit
  /\ \/ /\ part \in {"arena", "temp", "collections", "sort", "driver", "load", "analyze"}
        /\ ArenaInit /\ text = NoText /\ adding = NotAdding
     \/ part = "text" /\ TextInit
  /\ IF part = "sort" THEN SorterInit ELSE NoSorting
  /\ IF part = "driver" THEN DriverInit ELSE NoDriving
  /\ IF part = "load" THEN LoaderInit ELSE NoLoading
  /\ IF part = "analyze" THEN AnalyzerInit ELSE NoAnalysis

\* What does not move while a library, or the text, does.
PhasesStay == UNCHANGED <<driverVars, loaderVars, analyzerVars, part>>

ArenaMoves ==
  /\ part = "arena" /\ ArenaNext(ArenaSizes)
  /\ UNCHANGED <<textVars, collectionVars, sorterVars>> /\ PhasesStay

TempMoves ==
  /\ part = "temp" /\ TempNext(TempSizes)
  /\ UNCHANGED <<textVars, collectionVars, sorterVars>> /\ PhasesStay

TextMoves ==
  /\ part = "text" /\ TextNext
  /\ UNCHANGED <<tempVars, collectionVars, sorterVars>> /\ PhasesStay

CollectionsMove ==
  /\ part = "collections" /\ CollectionsNext
  /\ UNCHANGED <<memoryVars, textVars, sorterVars>> /\ PhasesStay

SorterMoves ==
  /\ part = "sort" /\ SorterNext
  /\ UNCHANGED <<memoryVars, textVars, collectionVars>> /\ PhasesStay

DriverMoves ==
  /\ part = "driver" /\ DriverNext
  /\ UNCHANGED <<libraryVars, loaderVars, analyzerVars, part>>

LoaderMoves ==
  /\ part = "load" /\ LoaderNext
  /\ UNCHANGED <<libraryVars, driverVars, analyzerVars, part>>

AnalyzerMoves ==
  /\ part = "analyze" /\ AnalyzerNext
  /\ UNCHANGED <<libraryVars, driverVars, loaderVars, part>>

PartsNext ==
  \/ ArenaMoves \/ TempMoves \/ TextMoves \/ CollectionsMove \/ SorterMoves
  \/ DriverMoves \/ LoaderMoves \/ AnalyzerMoves

\* Only the loader has a property that asks for progress.
PartsSpec == PartsInit /\ [][PartsNext]_mcVars /\ WF_mcVars(LoaderMoves)

================================================================================
