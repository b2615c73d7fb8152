------------------------------ MODULE LoaderProofs ------------------------------
(***************************************************************************)
(* What holds of the loading of files for every project, every hash function *)
(* and every size of the table: all files the program needs are loaded, each *)
(* failure has a reason, and what was parsed stays.                          *)
(*                                                                          *)
(* The table is known by what HashmapProofs proves of it.  The rest of the   *)
(* argument sees it as the set of pairs it stores, and as its slots only     *)
(* during a walk that adds nothing.                                          *)
(***************************************************************************)
EXTENDS Loader, SequenceTheorems, FiniteSetTheorems, TLAPS

\* The table again, with the lemmas that are proved of it.
P == INSTANCE HashmapProofs WITH
  Keys <- Files, Values <- {"new", "parsed"},
  ZeroKey <- ZeroFile, ZeroValue <- "new",
  InitSizes <- {}, AllocMayFail <- FALSE, AddAfterRemove <- FALSE

--------------------------------------------------------------------------------
(* The table.                                                                   *)

\* The pairs of a table, and those of the one to look into.
PairsOf(m) == P!Pairs(m, m.capacity)
Stored == PairsOf(P!Current)

\* The files under some pairs, and those of them that were parsed.
FilesIn(pairs) == {f \in Files : \E v \in {"new", "parsed"} : <<f, v>> \in pairs}
ParsedIn(pairs) == {f \in Files : <<f, "parsed">> \in pairs}

\* The files that were added, and those whose roots are filled in.
Known == FilesIn(Stored)
Loaded == ParsedIn(Stored)

\* What HashmapProofs keeps of the table: the counts and probes are right, a
\* rebuild has room, no file is stored twice, and a rebuild copies all pairs.
TableGood == P!GoodInv /\ P!RoomInv /\ P!UniqueInv /\ P!RebuildKeepsPairs

\* And how far it is with the add of a file.
TableInv ==
  /\ TableGood
  /\ pc = "rebuild" <=> phase = "grow"
  /\ phase = "grow" => pending = [key |-> target, value |-> "new"]

--------------------------------------------------------------------------------
(* The two instances of Hashmap are one.                                        *)

\* What HashmapProofs assumes of its constants holds of the table of files.
LEMMA TableConstants ==
  /\ ZeroFile \in Files /\ "new" \in {"new", "parsed"}
  /\ Hash \in [Files -> Nat]
  /\ StandardSize \in Nat \ {0} /\ {} \subseteq Nat \ {0}
  /\ FALSE \in BOOLEAN
BY NamesAssumption, TableAssumption

\* The calls and operators of Table, with which Loader is written, and those of
\* P, of which the lemmas speak, have the same definitions.
LEMMA SameCalls ==
  ASSUME NEW f \in Files
  PROVE  /\ Table!AddDirectly(f, "new") => P!AddDirectly(f, "new")
         /\ Table!StartRebuild(f, "new") => P!StartRebuild(f, "new")
         /\ Table!Reinsert => P!Reinsert
         /\ Table!FinishAdd => P!FinishAdd
BY DEF Table!AddDirectly, Table!StartRebuild, Table!Reinsert, Table!FinishAdd,
       P!AddDirectly, P!StartRebuild, P!Reinsert, P!FinishAdd,
       Table!Idle, P!Idle, Table!HasTombstone, P!HasTombstone,
       Table!Ensured, P!Ensured, Table!NewMap, P!NewMap, Table!NullMap, P!NullMap,
       Table!Overloaded, P!Overloaded,
       Table!Inserts, P!Inserts, Table!AddLandsAt, P!AddLandsAt,
       Table!AddStops, P!AddStops, Table!SlotAt, P!SlotAt, Table!Live, P!Live,
       Table!NoRoom, P!NoRoom, Table!Filled, P!Filled,
       Table!ZeroEntry, P!ZeroEntry, Table!Result, P!Result,
       Table!NotRebuilding, P!NotRebuilding

LEMMA SameOperators ==
  /\ \A e : Table!Live(e) <=> P!Live(e)
  /\ \A m : Table!LiveSlots(m) = P!LiveSlots(m) /\ Table!LiveKeys(m) = P!LiveKeys(m)
  /\ \A m, f, i : Table!Finds(m, f, i) <=> P!Finds(m, f, i)
  /\ \A m, f : Table!Misses(m, f) <=> P!Misses(m, f)
  /\ Table!Current = P!Current
  /\ Table!Init <=> P!Init
  /\ Table!ZeroEntry = P!ZeroEntry
BY DEF Table!Live, P!Live, Table!LiveSlots, P!LiveSlots, Table!LiveKeys, P!LiveKeys,
       Table!Finds, P!Finds, Table!Misses, P!Misses,
       Table!LookupStops, P!LookupStops, Table!SlotAt, P!SlotAt,
       Table!Current, P!Current, Table!Init, P!Init, Table!NullMap, P!NullMap,
       Table!NewMap, P!NewMap, Table!ZeroEntry, P!ZeroEntry, Table!Result, P!Result
--------------------------------------------------------------------------------
(* What the calls do to the pairs of the table.                                 *)

\* The files of a table are its live keys.
LEMMA KeysOfPairs ==
  ASSUME NEW m, P!IsMap(m)
  PROVE  P!LiveKeys(m) = FilesIn(PairsOf(m))
<1>1. {j \in P!LiveSlots(m) : j < m.capacity} = P!LiveSlots(m)
  BY DEF P!LiveSlots, P!IsMap
<1>2. \A i \in P!LiveSlots(m) : /\ m.entries[i].key \in Files
                                /\ m.entries[i].value \in {"new", "parsed"}
  BY DEF P!LiveSlots, P!IsMap, P!Entry
<1> QED
  BY <1>1, <1>2 DEF P!Pairs, P!LiveKeys, PairsOf, FilesIn

\* All that is proved of the table holds after one more call.
LEMMA TableStep == TableGood /\ [P!Next]_(P!vars) => TableGood'
<1>1. ~FALSE
  OBVIOUS
<1> QED
  BY <1>1, P!GoodStep, P!RoomStep, P!UniqueStep, P!PairsStep, TableConstants
     DEF TableGood

\* Other steps leave the table and its pairs alone.
LEMMA TableRests ==
  ASSUME TableGood, UNCHANGED tableVars
  PROVE  TableGood' /\ Stored' = Stored
<1>1. UNCHANGED P!vars
  BY DEF tableVars, P!vars
<1>2. Stored' = Stored
  BY DEF tableVars, Stored, PairsOf, P!Current, P!Pairs, P!LiveSlots, P!Live
<1> QED
  BY <1>1, <1>2, TableStep

\* A probe in a table with room: a new file is stored, one that is there is left.
LEMMA InsertedPairs ==
  ASSUME NEW m, P!Good(m), ~P!HasTombstone(m), m.load < m.capacity,
         NEW f \in Files, NEW after, NEW ok \in BOOLEAN,
         P!Inserts(m, f, "new", after, ok)
  PROVE  /\ ok <=> f \notin FilesIn(PairsOf(m))
         /\ ok => PairsOf(after) = PairsOf(m) \cup {<<f, "new">>}
         /\ ~ok => PairsOf(after) = PairsOf(m)
<1>1. /\ ok <=> f \notin P!LiveKeys(m)
      /\ f \in P!LiveKeys(m) => after = m
      /\ f \notin P!LiveKeys(m) =>
           \E i \in 0..m.capacity-1 : /\ ~P!Live(m.entries[i])
                                      /\ after = P!Filled(m, f, "new", i)
  BY P!InsertOutcome, TableConstants
<1>2. P!IsMap(m)
  BY DEF P!Good
<1>3. f \in P!LiveKeys(m) <=> f \in FilesIn(PairsOf(m))
  BY <1>2, KeysOfPairs
<1>4. ASSUME ok
      PROVE  PairsOf(after) = PairsOf(m) \cup {<<f, "new">>}
  <2>1. PICK i \in 0..m.capacity-1 : /\ ~P!Live(m.entries[i])
                                     /\ after = P!Filled(m, f, "new", i)
    BY <1>1, <1>4
  <2> QED
    BY <1>2, <2>1, P!FilledPairs, TableConstants DEF PairsOf
<1> QED
  BY <1>1, <1>3, <1>4
\* A completed hashmap_add: a new file is there, not parsed; one that is there
\* already makes it return false.
Added(f) ==
  /\ pc' = "idle"
  /\ res'.ok \in BOOLEAN
  /\ res'.ok <=> f \notin Known
  /\ Stored' = IF f \in Known THEN Stored ELSE Stored \cup {<<f, "new">>}

\* An add in a table that has room: below the load limit there is an entry left.
LEMMA AddOutcome ==
  ASSUME TableGood, NEW f \in Files, P!AddDirectly(f, "new")
  PROVE  Added(f)
<1> DEFINE m == P!Ensured(map)
<1>1. P!Good(m) /\ m.capacity # 0
  BY P!EnsuredIsGood, TableConstants DEF TableGood, P!GoodInv
<1>2. ~P!HasTombstone(m)
  BY P!EnsuredIsUnique, TableConstants
     DEF P!AddDirectly, TableGood, P!UniqueInv
<1>3. m.load < m.capacity
  <2>1. m.load \in Nat /\ m.capacity \in Nat
    BY <1>1 DEF P!Good, P!IsMap
  <2>2. ~(4 * m.load > 3 * m.capacity)
    BY DEF P!AddDirectly, P!Overloaded
  <2> QED
    BY <1>1, <2>1, <2>2
<1>4. pc = "idle" /\ pc' = "idle" /\ UNCHANGED old
  BY DEF P!AddDirectly, P!Idle, P!NotRebuilding
<1>5. PICK ok \in BOOLEAN : /\ P!Inserts(m, f, "new", map', ok)
                            /\ res' = P!Result("add", f, ok, "new")
  BY DEF P!AddDirectly
<1>6. PairsOf(m) = Stored
  <2>1. CASE map.capacity = 0
    <3>1. P!LiveSlots(map) = {}
      BY <2>1 DEF P!LiveSlots
    <3>2. StandardSize \in Nat
      BY TableConstants
    <3>3. P!LiveSlots(m) = {}
      BY <2>1, <3>2, P!NewMapIsGood, TableConstants DEF P!Ensured
    <3> HIDE DEF m
    <3> QED
      BY <1>4, <3>1, <3>3 DEF Stored, PairsOf, P!Current, P!Pairs
  <2>2. CASE map.capacity # 0
    BY <1>4, <2>2 DEF P!Ensured, Stored, P!Current
  <2> QED
    BY <2>1, <2>2
<1> HIDE DEF m
<1>7. /\ ok <=> f \notin Known
      /\ ok => PairsOf(map') = Stored \cup {<<f, "new">>}
      /\ ~ok => PairsOf(map') = Stored
  BY <1>1, <1>2, <1>3, <1>5, <1>6, InsertedPairs DEF Known
<1>8. Stored' = PairsOf(map')
  BY <1>4 DEF Stored, PairsOf, P!Current, P!Pairs, P!LiveSlots, P!Live
<1>9. res'.ok = ok
  BY <1>5 DEF P!Result
<1> QED
  BY <1>4, <1>7, <1>8, <1>9 DEF Added

\* A rebuild starts with all pairs in the old table, ...
LEMMA StartOutcome ==
  ASSUME TableGood, NEW f \in Files, P!StartRebuild(f, "new")
  PROVE  /\ pc' = "rebuild" /\ pending' = [key |-> f, value |-> "new"]
         /\ Stored' = Stored
BY DEF P!StartRebuild, P!Idle, Stored, PairsOf, P!Current, P!Pairs, P!LiveSlots, P!Live

\* ... where they stay ...
LEMMA ReinsertOutcome ==
  ASSUME TableGood, P!Reinsert
  PROVE  /\ pc' = "rebuild" /\ UNCHANGED <<pending, res>>
         /\ Stored' = Stored
BY DEF P!Reinsert, Stored, PairsOf, P!Current, P!Pairs, P!LiveSlots, P!Live

\* ... until they are all in the new one.
LEMMA FinishOutcome ==
  ASSUME TableGood, NEW f \in Files, pending = [key |-> f, value |-> "new"],
         P!FinishAdd
  PROVE  Added(f)
<1>1. P!Good(map) /\ P!Good(old)
  BY DEF TableGood, P!GoodInv
<1>2. /\ pc = "rebuild" /\ cursor = old.capacity
      /\ pc' = "idle"
  BY DEF P!FinishAdd
<1>3. ~P!HasTombstone(map)
  BY <1>2 DEF TableGood, P!UniqueInv
<1>4. map.load < map.capacity
  <2>1. map.load \in Nat /\ old.capacity \in Nat
    BY <1>1 DEF P!Good, P!IsMap
  <2>2. old.capacity # 0 /\ map.capacity = 2 * old.capacity /\ map.load <= cursor
    BY <1>2 DEF TableGood, P!RoomInv
  <2> QED
    BY <1>2, <2>1, <2>2
<1>5. PICK ok \in BOOLEAN : /\ P!Inserts(map, f, "new", map', ok)
                            /\ res' = P!Result("add", f, ok, "new")
  BY DEF P!FinishAdd
<1>6. PairsOf(map) = Stored
  BY <1>2 DEF TableGood, P!RebuildKeepsPairs, PairsOf, Stored, P!Current
<1>7. /\ ok <=> f \notin Known
      /\ ok => PairsOf(map') = Stored \cup {<<f, "new">>}
      /\ ~ok => PairsOf(map') = Stored
  BY <1>1, <1>3, <1>4, <1>5, <1>6, InsertedPairs DEF Known
<1>8. Stored' = PairsOf(map')
  BY <1>2 DEF Stored, PairsOf, P!Current, P!Pairs, P!LiveSlots, P!Live
<1>9. res'.ok = ok
  BY <1>5 DEF P!Result
<1> QED
  BY <1>2, <1>7, <1>8, <1>9 DEF Added

\* The pairs of a table where no file is stored twice.
LEMMA LoadedSlots ==
  ASSUME NEW m, P!IsMap(m), P!UniqueIn(m)
  PROVE  /\ \A f \in FilesIn(PairsOf(m)) : \E i \in P!LiveSlots(m) : m.entries[i].key = f
         /\ \A i \in P!LiveSlots(m) :
              /\ m.entries[i].key \in FilesIn(PairsOf(m))
              /\ m.entries[i].key \in ParsedIn(PairsOf(m)) <=> m.entries[i].value = "parsed"
<1>1. {j \in P!LiveSlots(m) : j < m.capacity} = P!LiveSlots(m)
  BY DEF P!LiveSlots, P!IsMap
<1>2. \A i \in P!LiveSlots(m) : /\ m.entries[i].key \in Files
                                /\ m.entries[i].value \in {"new", "parsed"}
  BY DEF P!LiveSlots, P!IsMap, P!Entry
<1>3. PairsOf(m) = {<<m.entries[i].key, m.entries[i].value>> : i \in P!LiveSlots(m)}
  BY <1>1 DEF PairsOf, P!Pairs
<1>4. \A i, j \in P!LiveSlots(m) : m.entries[i].key = m.entries[j].key => i = j
  BY DEF P!UniqueIn
<1>5. \A f \in FilesIn(PairsOf(m)) : \E i \in P!LiveSlots(m) : m.entries[i].key = f
  BY <1>3 DEF FilesIn
<1>6. ASSUME NEW i \in P!LiveSlots(m)
      PROVE  /\ m.entries[i].key \in FilesIn(PairsOf(m))
             /\ m.entries[i].key \in ParsedIn(PairsOf(m)) <=> m.entries[i].value = "parsed"
  <2>1. m.entries[i].key \in FilesIn(PairsOf(m))
    BY <1>2, <1>3 DEF FilesIn
  <2>2. ASSUME m.entries[i].key \in ParsedIn(PairsOf(m))
        PROVE  m.entries[i].value = "parsed"
    <3>1. PICK j \in P!LiveSlots(m) :
            <<m.entries[j].key, m.entries[j].value>> = <<m.entries[i].key, "parsed">>
      BY <1>3, <2>2 DEF ParsedIn
    <3> QED
      BY <1>4, <3>1
  <2>3. ASSUME m.entries[i].value = "parsed"
        PROVE  m.entries[i].key \in ParsedIn(PairsOf(m))
    BY <1>2, <1>3, <2>3 DEF ParsedIn
  <2> QED
    BY <2>1, <2>2, <2>3
<1> QED
  BY <1>5, <1>6

\* parse_file changes nothing but the value it points at.
LEMMA ParsedTable ==
  ASSUME NEW m, P!Good(m), P!UniqueIn(m), NEW i \in P!LiveSlots(m), NEW n,
         n = [m EXCEPT !.entries = [m.entries EXCEPT ![i] =
                [m.entries[i] EXCEPT !.value = "parsed"]]]
  PROVE  /\ P!Good(n) /\ P!UniqueIn(n) /\ n.capacity = m.capacity
         /\ FilesIn(PairsOf(n)) = FilesIn(PairsOf(m))
         /\ ParsedIn(PairsOf(n)) = ParsedIn(PairsOf(m)) \cup {m.entries[i].key}
<1> DEFINE e == [m.entries[i] EXCEPT !.value = "parsed"]
           ne == [m.entries EXCEPT ![i] = e]
<1>1. /\ P!IsMap(m)
      /\ i \in 0..m.capacity-1
      /\ m.entries \in [0..m.capacity-1 -> P!Entry]
  BY DEF P!Good, P!IsMap, P!LiveSlots
<1>2. /\ e \in P!Entry
      /\ e.key = m.entries[i].key /\ e.occupied = m.entries[i].occupied
      /\ e.deleted = m.entries[i].deleted
      /\ e.value = "parsed"
  <2>1. m.entries[i] \in P!Entry
    BY <1>1
  <2> QED
    BY <2>1 DEF P!Entry
<1> HIDE DEF e
<1>3. /\ ne \in [0..m.capacity-1 -> P!Entry]
      /\ ne[i] = e
      /\ \A j \in 0..m.capacity-1 : j # i => ne[j] = m.entries[j]
  BY <1>1, <1>2
<1> HIDE DEF ne
<1>4. n = [capacity |-> m.capacity, load |-> m.load, entries |-> ne]
  <2>1. n = [m EXCEPT !.entries = ne]
    BY DEF ne, e
  <2>2. m = [capacity |-> m.capacity, load |-> m.load, entries |-> m.entries]
    BY <1>1 DEF P!IsMap
  <2> QED
    BY <2>1, <2>2
<1>5. n.capacity = m.capacity /\ n.load = m.load /\ n.entries = ne
  BY <1>4
<1>6. P!IsMap(n)
  BY <1>1, <1>3, <1>4, <1>5 DEF P!IsMap
<1>7. \A j \in 0..m.capacity-1 : /\ ne[j].key = m.entries[j].key
                                 /\ ne[j].occupied = m.entries[j].occupied
                                 /\ ne[j].deleted = m.entries[j].deleted
                                 /\ j # i => ne[j].value = m.entries[j].value
  BY <1>2, <1>3
<1>8. P!LiveSlots(n) = P!LiveSlots(m)
  BY <1>5, <1>7 DEF P!LiveSlots, P!Live
<1>9. P!UniqueIn(n)
  BY <1>1, <1>5, <1>7, <1>8 DEF P!UniqueIn, P!LiveSlots
<1>10. P!Good(n)
  <2>1. P!LoadExactIn(n)
    BY <1>5, <1>8 DEF P!LoadExactIn, P!Good
  <2>2. P!ReachableIn(n)
    <3> SUFFICES ASSUME NEW j \in P!LiveSlots(m)
                 PROVE  \E offset \in 0..m.capacity-1 :
                          /\ j = P!SlotAt(n, ne[j].key, offset)
                          /\ \A before \in 0..offset-1 :
                               ne[P!SlotAt(n, ne[j].key, before)].occupied
      BY <1>5, <1>8 DEF P!ReachableIn
    <3>1. j \in 0..m.capacity-1
      BY DEF P!LiveSlots
    <3>2. PICK offset \in 0..m.capacity-1 :
            /\ j = P!SlotAt(m, m.entries[j].key, offset)
            /\ \A before \in 0..offset-1 :
                 m.entries[P!SlotAt(m, m.entries[j].key, before)].occupied
      BY DEF P!Good, P!ReachableIn
    <3>3. \A o \in Nat : /\ P!SlotAt(n, ne[j].key, o) = P!SlotAt(m, m.entries[j].key, o)
                         /\ P!SlotAt(m, m.entries[j].key, o) \in 0..m.capacity-1
      <4>1. m.entries[j].key \in Files
        BY <1>1, <3>1 DEF P!Entry
      <4>2. m.capacity # 0
        BY <1>1, <3>1 DEF P!IsMap
      <4>3. \A o \in Nat : P!SlotAt(m, m.entries[j].key, o) \in 0..m.capacity-1
        BY <1>1, <4>1, <4>2, P!SlotInRange, TableConstants
      <4>4. \A o : P!SlotAt(n, ne[j].key, o) = P!SlotAt(m, m.entries[j].key, o)
        BY <1>5, <1>7, <3>1 DEF P!SlotAt
      <4> QED
        BY <4>3, <4>4
    <3>4. offset \in Nat /\ \A before \in 0..offset-1 : before \in Nat
      BY <1>1, <3>2 DEF P!IsMap
    <3>5. \A before \in 0..offset-1 : ne[P!SlotAt(n, ne[j].key, before)].occupied
      BY <1>7, <3>2, <3>3, <3>4
    <3> QED
      BY <3>2, <3>3, <3>4, <3>5
  <2> QED
    BY <1>6, <2>1, <2>2 DEF P!Good
<1>11. FilesIn(PairsOf(n)) = FilesIn(PairsOf(m))
  <2>1. P!LiveKeys(n) = P!LiveKeys(m)
    BY <1>5, <1>7, <1>8 DEF P!LiveKeys, P!LiveSlots
  <2> QED
    BY <1>1, <1>6, <2>1, KeysOfPairs
<1>12. ParsedIn(PairsOf(n)) = ParsedIn(PairsOf(m)) \cup {m.entries[i].key}
  <2>1. ASSUME NEW f \in Files
        PROVE  f \in ParsedIn(PairsOf(n)) <=> f \in ParsedIn(PairsOf(m)) \/ f = m.entries[i].key
    <3>1. CASE f \in FilesIn(PairsOf(m))
      <4>1. PICK j \in P!LiveSlots(m) : m.entries[j].key = f
        BY <1>1, <3>1, LoadedSlots
      <4>2. j \in 0..m.capacity-1
        BY DEF P!LiveSlots
      <4>3. f \in ParsedIn(PairsOf(m)) <=> m.entries[j].value = "parsed"
        BY <1>1, <4>1, LoadedSlots
      <4>4. n.entries[j].key = f
        BY <1>5, <1>7, <4>1, <4>2
      <4>5. f \in ParsedIn(PairsOf(n)) <=> n.entries[j].value = "parsed"
        BY <1>6, <1>8, <1>9, <4>4, LoadedSlots
      <4>6. m.entries[i].key = f => i = j
        BY <4>1 DEF P!UniqueIn
      <4> QED
        BY <1>2, <1>3, <1>5, <1>7, <4>1, <4>2, <4>3, <4>5, <4>6
    <3>2. CASE f \notin FilesIn(PairsOf(m))
      <4>1. f # m.entries[i].key
        BY <1>1, <3>2, LoadedSlots
      <4>2. f \notin ParsedIn(PairsOf(n)) /\ f \notin ParsedIn(PairsOf(m))
        BY <1>11, <3>2 DEF ParsedIn, FilesIn
      <4> QED
        BY <4>1, <4>2
    <3> QED
      BY <3>1, <3>2
  <2>2. m.entries[i].key \in Files
    BY <1>1 DEF P!Entry
  <2> QED
    BY <2>1, <2>2 DEF ParsedIn
<1> QED
  BY <1>5, <1>9, <1>10, <1>11, <1>12

\* The file that is looked up is there, and is parsed.
LEMMA ParseOutcome ==
  ASSUME TableGood, pc = "idle", NEW f \in Files, NEW i \in 0..map.capacity-1,
         P!Finds(map, f, i), map' = Parsed(i),
         UNCHANGED <<old, cursor, pending, pc, res>>
  PROVE  TableGood' /\ Known' = Known /\ Loaded' = Loaded \cup {f}
<1>1. P!Good(map) /\ P!UniqueIn(map) /\ P!TypeOK
  BY DEF TableGood, P!GoodInv, P!UniqueInv
<1>2. i \in P!LiveSlots(map) /\ map.entries[i].key = f
  BY <1>1, P!LookupIsExact, TableConstants
<1>3. map' = [map EXCEPT !.entries = [map.entries EXCEPT ![i] =
                [map.entries[i] EXCEPT !.value = "parsed"]]]
  BY DEF Parsed
<1>4. /\ P!Good(map') /\ P!UniqueIn(map')
      /\ FilesIn(PairsOf(map')) = FilesIn(PairsOf(map))
      /\ ParsedIn(PairsOf(map')) = ParsedIn(PairsOf(map)) \cup {f}
  BY <1>1, <1>2, <1>3, ParsedTable
<1>5. Stored = PairsOf(map)
  BY DEF Stored, P!Current
<1>6. Stored' = PairsOf(map')
  BY DEF Stored, PairsOf, P!Current, P!Pairs, P!LiveSlots, P!Live
<1>7. FilesIn(Stored)' = FilesIn(PairsOf(map')) /\ ParsedIn(Stored)' = ParsedIn(PairsOf(map'))
  BY <1>6 DEF FilesIn, ParsedIn
<1>8. P!GoodInv'
  <2>1. P!Good(map)'
    BY <1>4 DEF P!Good, P!IsMap, P!LoadExactIn, P!ReachableIn, P!LiveSlots, P!Live, P!SlotAt
  <2>2. P!Good(old)' 
    BY DEF TableGood, P!GoodInv, P!Good, P!IsMap, P!LoadExactIn, P!ReachableIn,
           P!LiveSlots, P!Live, P!SlotAt
  <2>3. P!IsMap(map)' /\ P!IsMap(old)'
    BY <2>1, <2>2 DEF P!Good
  <2> QED
    BY <1>1, <2>1, <2>2, <2>3 DEF P!GoodInv, P!TypeOK
<1>9. P!UniqueInv'
  <2>1. P!UniqueIn(map)'
    BY <1>4 DEF P!UniqueIn, P!LiveSlots, P!Live
  <2>2. P!UniqueIn(old)'
    BY DEF TableGood, P!UniqueInv, P!UniqueIn, P!LiveSlots, P!Live
  <2> QED
    BY <2>1, <2>2 DEF P!UniqueInv
<1>10. P!RoomInv' /\ P!RebuildKeepsPairs'
  BY DEF P!RoomInv, P!RebuildKeepsPairs
<1> QED
  BY <1>4, <1>5, <1>7, <1>8, <1>9, <1>10 DEF TableGood, Known, Loaded

--------------------------------------------------------------------------------
(* The invariant.                                                               *)

\* load_and_process_file runs, ...
Loading == phase \in {"load", "grow", "parse"}

\* ... called by main; or else by the walk.
FromMain == arg <= Len(project.args)

\* Types, and what the phases tell: the walk starts after the command line is
\* through, and main goes on only as long as nothing went wrong.
LoaderShape ==
  /\ project \in Projects
  /\ phase \in {"main", "load", "grow", "parse", "while", "walk", "uses", "loaded", "failed"}
  /\ arg \in 1 .. Len(project.args) + 1 /\ target \in Files
  /\ notFinished \in BOOLEAN /\ result \in BOOLEAN /\ slot \in Nat /\ use \in Nat \ {0}
  /\ phase = "main" \/ FromMain => result /\ notFinished /\ analyzed = {}
  /\ phase \in {"while", "walk", "uses", "loaded"} => ~FromMain
  /\ phase = "loaded" => result /\ ~notFinished

\* The file that is being loaded is the only one that is not parsed.
Adding ==
  IF phase = "parse" /\ res.ok
    THEN target \notin Loaded /\ Known = Loaded \cup {target}
    ELSE Known = Loaded /\ (phase = "parse" => target \in Loaded)

\* The uses in f, by number and as the nodes that analyzed is about.
UsesOf(f) == DOMAIN project.uses[f]
NodesOf(f) == {<<f, n>> : n \in UsesOf(f)}

\* The node finds the file f.
NodeFinds(node, f) == Finds(project.uses[node[1]][node[2]], f)

\* The entry the walk is at was copied when its file was parsed, and the nodes in
\* front of use are done.
AtNode ==
  phase = "uses" \/ (Loading /\ ~FromMain) =>
    /\ pair.key \in Loaded /\ pair.value = "parsed"
    /\ \A n \in UsesOf(pair.key) : n < use => <<pair.key, n>> \in analyzed

\* Somebody asks for the file that is being loaded.
Requested ==
  Loading =>
    IF FromMain THEN target = project.args[arg]
    ELSE /\ use \in UsesOf(pair.key) /\ Node \notin analyzed /\ NodeFinds(Node, target)
         /\ notFinished

\* No more is loaded than the program needs.
Needed ==
  /\ Loaded \subseteq Reached
  /\ \A node \in analyzed : \E f \in Loaded : node \in NodesOf(f)

\* Who asked for f so far.
ArgsFor(f) == {n \in 1 .. arg - 1 : project.args[n] = f}
NodesFor(f) == {node \in analyzed : NodeFinds(node, f)}

\* One request in all, by an argument or by a use.
One(S, T) == Cardinality(S) + Cardinality(T) = 1

\* As long as nothing went wrong, all that was asked for is there, asked for once.
WellSoFar ==
  result /\ phase # "failed" =>
    /\ \A n \in 1 .. arg - 1 : project.args[n] \in Loaded
    /\ \A node \in analyzed : \E f \in Loaded : NodeFinds(node, f)
    /\ \A f \in Loaded : project.disk[f] = "fine" /\ One(ArgsFor(f), NodesFor(f))

\* Whatever went wrong shows that the program is no forest.
HasReason == ~result \/ phase = "failed" => ~IsForest

\* What a walk has passed, when it found nothing to load: the nodes of the files
\* behind it are done.
WalkedOver ==
  result /\ ~notFinished =>
    /\ phase \in {"walk", "uses"} =>
         \A i \in P!LiveSlots(map) : i < slot => NodesOf(map.entries[i].key) \subseteq analyzed
    /\ phase = "uses" => slot \in P!LiveSlots(map) /\ pair.key = map.entries[slot].key
    /\ phase \in {"while", "loaded"} => \A f \in Loaded : NodesOf(f) \subseteq analyzed

LoaderInv ==
  /\ LoaderShape /\ TableInv /\ Adding /\ AtNode /\ Requested /\ Needed
  /\ WellSoFar /\ HasReason /\ WalkedOver

--------------------------------------------------------------------------------
(* The project.                                                                 *)

\* Its parts have the types that ProjectsAssumption gives them.
LEMMA ProjectFacts ==
  ASSUME project \in Projects
  PROVE  /\ Len(project.args) \in Nat \ {0}
         /\ DOMAIN project.args = 1 .. Len(project.args)
         /\ \A n \in DOMAIN project.args : project.args[n] \in Files
         /\ \A f \in Files :
              /\ Len(project.uses[f]) \in Nat
              /\ UsesOf(f) = 1 .. Len(project.uses[f])
              /\ \A n \in UsesOf(f) : project.uses[f][n] \in Seq(Files)
         /\ \A f \in Files : project.disk[f] \in {"absent", "empty", "broken", "fine"}
<1>1. /\ project.args \in Seq(Files) \ {<<>>}
      /\ project.uses \in [Files -> Seq(Seq(Files))]
      /\ project.disk \in [Files -> {"absent", "empty", "broken", "fine"}]
  BY ProjectsAssumption
<1>2. /\ Len(project.args) \in Nat \ {0}
      /\ DOMAIN project.args = 1 .. Len(project.args)
      /\ \A n \in DOMAIN project.args : project.args[n] \in Files
  BY <1>1, EmptySeq, LenProperties, ElementOfSeq
<1>3. ASSUME NEW f \in Files
      PROVE  /\ Len(project.uses[f]) \in Nat
             /\ UsesOf(f) = 1 .. Len(project.uses[f])
             /\ \A n \in UsesOf(f) : project.uses[f][n] \in Seq(Files)
  <2>1. project.uses[f] \in Seq(Seq(Files))
    BY <1>1
  <2> QED
    BY <2>1, LenProperties, ElementOfSeq DEF UsesOf
<1> QED
  BY <1>1, <1>2, <1>3

\* find_and_add_file tries the names in order: a use stands for one file.
LEMMA FindsOne ==
  ASSUME NEW names \in Seq(Files), NEW f, NEW g, Finds(names, f), Finds(names, g)
  PROVE  f = g
<1>1. DOMAIN names = 1 .. Len(names) /\ Len(names) \in Nat
  BY LenProperties
<1>2. PICK n \in DOMAIN names : /\ f = names[n] /\ Exists(f)
                                /\ \A before \in 1..n-1 : ~Exists(names[before])
  BY DEF Finds
<1>3. PICK m \in DOMAIN names : /\ g = names[m] /\ Exists(g)
                                /\ \A before \in 1..m-1 : ~Exists(names[before])
  BY DEF Finds
<1>4. n = m
  BY <1>1, <1>2, <1>3
<1> QED
  BY <1>2, <1>3, <1>4

\* What a node stands for does not change while the project is loaded.
LEMMA ProjectRests ==
  ASSUME UNCHANGED project
  PROVE  /\ Reached' = Reached /\ ReachedNodes' = ReachedNodes
         /\ IsForest' = IsForest
         /\ \A f : UsesOf(f)' = UsesOf(f) /\ NodesOf(f)' = NodesOf(f)
         /\ \A node, f : NodeFinds(node, f)' = NodeFinds(node, f)
BY DEF Reached, ReachedNodes, IsForest, Requests, Closed, Finds, Exists, UsesOf, NodesOf, NodeFinds

\* Reached is closed under uses, and within every set that is.
LEMMA ReachedFacts ==
  ASSUME project \in Projects
  PROVE  /\ Reached \subseteq Files
         /\ \A n \in DOMAIN project.args : project.args[n] \in Reached
         /\ \A f \in Reached, g \in Files : \A node \in NodesOf(f) :
              NodeFinds(node, g) => g \in Reached
         /\ \A S \in SUBSET Files : Closed(S) => Reached \subseteq S
         /\ \A node : node \in ReachedNodes <=> \E f \in Reached : node \in NodesOf(f)
<1>1. Reached \subseteq Files
  BY DEF Reached
<1>2. \A n \in DOMAIN project.args : project.args[n] \in Reached
  BY ProjectFacts DEF Reached, Closed
<1>3. ASSUME NEW f \in Reached, NEW g \in Files, NEW node \in NodesOf(f), NodeFinds(node, g)
      PROVE  g \in Reached
  <2>1. PICK n \in UsesOf(f) : node = <<f, n>>
    BY DEF NodesOf
  <2>2. Finds(project.uses[f][n], g)
    BY <1>3, <2>1 DEF NodeFinds
  <2> SUFFICES ASSUME NEW S \in SUBSET Files, Closed(S)
               PROVE  g \in S
    BY DEF Reached
  <2>3. f \in S
    BY DEF Reached
  <2> QED
    BY <2>2, <2>3 DEF Closed, UsesOf
<1>4. \A S \in SUBSET Files : Closed(S) => Reached \subseteq S
  BY DEF Reached
<1>5. \A node : node \in ReachedNodes <=> \E f \in Reached : node \in NodesOf(f)
  BY DEF ReachedNodes, NodesOf, UsesOf
<1> QED
  BY <1>1, <1>2, <1>3, <1>4, <1>5

\* A program has finitely many uses, so that Requests counts them.
LEMMA ReachedNodesFinite ==
  ASSUME project \in Projects
  PROVE  IsFiniteSet(ReachedNodes)
<1>1. \A f \in Reached : IsFiniteSet(NodesOf(f))
  <2> SUFFICES ASSUME NEW f \in Reached
               PROVE  IsFiniteSet(NodesOf(f))
    OBVIOUS
  <2>1. UsesOf(f) = 1 .. Len(project.uses[f]) /\ Len(project.uses[f]) \in Nat
    BY ProjectFacts DEF Reached
  <2>2. IsFiniteSet(UsesOf(f))
    BY <2>1, FS_Interval
  <2>3. IsFiniteSet({f} \X UsesOf(f))
    BY <2>2, FS_Singleton, FS_Product
  <2>4. NodesOf(f) = {f} \X UsesOf(f)
    BY DEF NodesOf
  <2> QED
    BY <2>3, <2>4
<1>2. IsFiniteSet(Reached)
  BY NamesAssumption, FS_Subset DEF Reached
<1> DEFINE all == {NodesOf(f) : f \in Reached}
<1>3. IsFiniteSet(all)
  <2> DEFINE F == [f \in Reached |-> NodesOf(f)]
  <2>1. F \in Surjection(Reached, all)
    BY DEF Surjection
  <2> QED
    BY <1>2, <2>1, FS_Surjection
<1>4. \A T \in all : IsFiniteSet(T)
  BY <1>1
<1>5. IsFiniteSet(UNION all)
  <2> HIDE DEF all
  <2> QED
    BY <1>3, <1>4, FS_UNION
<1> QED
  BY <1>5 DEF ReachedNodes, NodesOf, UsesOf

\* In a forest nobody asks for a file that was asked for.
LEMMA AskedOnce ==
  ASSUME project \in Projects, IsForest, NEW f \in Reached,
         NEW S \in SUBSET {n \in DOMAIN project.args : project.args[n] = f},
         NEW T \in SUBSET {node \in ReachedNodes : NodeFinds(node, f)}
  PROVE  /\ IsFiniteSet(S) /\ IsFiniteSet(T)
         /\ Cardinality(S) \in Nat /\ Cardinality(T) \in Nat
         /\ Cardinality(S) + Cardinality(T) <= 1
<1> DEFINE args == {n \in DOMAIN project.args : project.args[n] = f}
           nodes == {node \in ReachedNodes : NodeFinds(node, f)}
<1>1. IsFiniteSet(args)
  <2>1. IsFiniteSet(DOMAIN project.args)
    BY ProjectFacts, FS_Interval
  <2> QED
    BY <2>1, FS_Subset
<1>2. IsFiniteSet(nodes)
  BY ReachedNodesFinite, FS_Subset
<1>3. Cardinality(args) + Cardinality(nodes) = 1
  BY DEF IsForest, Requests, NodeFinds
<1> HIDE DEF args, nodes
<1>4. S \subseteq args /\ T \subseteq nodes
  BY DEF args, nodes
<1>5. /\ IsFiniteSet(S) /\ Cardinality(S) <= Cardinality(args)
      /\ IsFiniteSet(T) /\ Cardinality(T) <= Cardinality(nodes)
  BY <1>1, <1>2, <1>4, FS_Subset
<1>6. /\ Cardinality(S) \in Nat /\ Cardinality(T) \in Nat
      /\ Cardinality(args) \in Nat /\ Cardinality(nodes) \in Nat
  BY <1>1, <1>2, <1>5, FS_CardinalityType
<1> QED
  BY <1>3, <1>5, <1>6

--------------------------------------------------------------------------------
(* Steps that neither load a file nor finish a node.                            *)

\* They leave what is needed, what was asked for and the reasons as they are.
LEMMA Quiet ==
  ASSUME LoaderInv, UNCHANGED <<project, arg, analyzed, result>>, Loaded' = Loaded,
         phase # "failed", phase' = "failed" => ~result
  PROVE  Needed' /\ WellSoFar' /\ HasReason'
<1>1. Needed'
  BY ProjectRests DEF LoaderInv, Needed
<1>2. WellSoFar'
  <2>1. /\ \A f : ArgsFor(f)' = ArgsFor(f)
        /\ \A f : NodesFor(f)' = NodesFor(f)
    BY ProjectRests DEF ArgsFor, NodesFor
  <2>2. /\ WellSoFar
        /\ \A node, f : NodeFinds(node, f)' = NodeFinds(node, f)
    BY ProjectRests DEF LoaderInv
  <2> SUFFICES ASSUME result
               PROVE  /\ \A n \in 1 .. arg - 1 : project.args[n] \in Loaded
                      /\ \A node \in analyzed : \E f \in Loaded : NodeFinds(node, f)
                      /\ \A f \in Loaded : project.disk[f] = "fine" /\ One(ArgsFor(f), NodesFor(f))
    BY <2>1, <2>2 DEF WellSoFar, One
  <2> QED
    BY <2>2 DEF WellSoFar
<1>3. HasReason'
  BY ProjectRests DEF LoaderInv, HasReason
<1> QED
  BY <1>1, <1>2, <1>3

LEMMA TableQuiet ==
  ASSUME LoaderInv, UNCHANGED tableVars
  PROVE  TableGood' /\ Known' = Known /\ Loaded' = Loaded
<1>1. TableGood' /\ Stored' = Stored
  BY TableRests DEF LoaderInv, TableInv
<1>2. FilesIn(Stored)' = FilesIn(Stored) /\ ParsedIn(Stored)' = ParsedIn(Stored)
  BY <1>1 DEF FilesIn, ParsedIn
<1> QED
  BY <1>1, <1>2 DEF Known, Loaded

LEMMA LoadArgumentStep == LoaderInv /\ LoadArgument => LoaderInv'
<1> SUFFICES ASSUME LoaderInv, LoadArgument
             PROVE  LoaderInv'
  OBVIOUS
<1>1. TableGood' /\ Known' = Known /\ Loaded' = Loaded
  BY TableQuiet DEF LoadArgument
<1>2. Needed' /\ WellSoFar' /\ HasReason'
  BY <1>1, Quiet DEF LoadArgument, walkVars
<1>3. LoaderShape'
  <2>1. project.args[arg] \in Files
    BY ProjectFacts DEF LoadArgument, LoaderInv, LoaderShape
  <2> QED
    BY <2>1 DEF LoadArgument, LoaderInv, LoaderShape, FromMain, walkVars
<1>4. TableInv' /\ Adding'
  BY <1>1 DEF LoadArgument, LoaderInv, TableInv, Adding, tableVars
<1>5. AtNode' /\ Requested'
  BY DEF LoadArgument, AtNode, Requested, Loading, FromMain
<1>6. WalkedOver'
  BY DEF LoadArgument, LoaderInv, LoaderShape, WalkedOver, walkVars
<1> QED
  BY <1>2, <1>3, <1>4, <1>5, <1>6 DEF LoaderInv

LEMMA StartPreloadStep == LoaderInv /\ StartPreload => LoaderInv'
<1> SUFFICES ASSUME LoaderInv, StartPreload
             PROVE  LoaderInv'
  OBVIOUS
<1>1. TableGood' /\ Known' = Known /\ Loaded' = Loaded
  BY TableQuiet DEF StartPreload
<1>2. Needed' /\ WellSoFar' /\ HasReason'
  BY <1>1, Quiet DEF StartPreload, walkVars
<1>3. LoaderShape'
  BY DEF StartPreload, LoaderInv, LoaderShape, FromMain, walkVars
<1>4. TableInv' /\ Adding'
  BY <1>1 DEF StartPreload, LoaderInv, TableInv, Adding, tableVars
<1>5. AtNode' /\ Requested'
  BY DEF StartPreload, AtNode, Requested, Loading
<1>6. WalkedOver'
  BY DEF StartPreload, LoaderInv, LoaderShape, WalkedOver, walkVars
<1> QED
  BY <1>2, <1>3, <1>4, <1>5, <1>6 DEF LoaderInv

LEMMA StartWalkStep == LoaderInv /\ StartWalk => LoaderInv'
<1> SUFFICES ASSUME LoaderInv, StartWalk
             PROVE  LoaderInv'
  OBVIOUS
<1>1. TableGood' /\ Known' = Known /\ Loaded' = Loaded
  BY TableQuiet DEF StartWalk
<1>2. Needed' /\ WellSoFar' /\ HasReason'
  BY <1>1, Quiet DEF StartWalk
<1>3. LoaderShape'
  BY DEF StartWalk, LoaderInv, LoaderShape, FromMain
<1>4. TableInv' /\ Adding'
  BY <1>1 DEF StartWalk, LoaderInv, TableInv, Adding, tableVars
<1>5. AtNode' /\ Requested'
  BY DEF StartWalk, AtNode, Requested, Loading
<1>6. WalkedOver'
  <2>1. \A i \in P!LiveSlots(map)' : ~(i < 0)
    BY DEF P!LiveSlots
  <2> QED
    BY <2>1 DEF StartWalk, WalkedOver
<1> QED
  BY <1>2, <1>3, <1>4, <1>5, <1>6 DEF LoaderInv

LEMMA EndPreloadStep == LoaderInv /\ EndPreload => LoaderInv'
<1> SUFFICES ASSUME LoaderInv, EndPreload
             PROVE  LoaderInv'
  OBVIOUS
<1>1. TableGood' /\ Known' = Known /\ Loaded' = Loaded
  BY TableQuiet DEF EndPreload
<1>2. Needed' /\ WellSoFar' /\ HasReason'
  BY <1>1, Quiet DEF EndPreload, walkVars
<1>3. LoaderShape'
  BY DEF EndPreload, LoaderInv, LoaderShape, FromMain, walkVars
<1>4. TableInv' /\ Adding'
  BY <1>1 DEF EndPreload, LoaderInv, TableInv, Adding, tableVars
<1>5. AtNode' /\ Requested'
  BY DEF EndPreload, AtNode, Requested, Loading
<1>6. WalkedOver'
  BY <1>1, ProjectRests DEF EndPreload, LoaderInv, WalkedOver, walkVars
<1> QED
  BY <1>2, <1>3, <1>4, <1>5, <1>6 DEF LoaderInv

LEMMA SkipEntryStep == LoaderInv /\ SkipEntry => LoaderInv'
<1> SUFFICES ASSUME LoaderInv, SkipEntry
             PROVE  LoaderInv'
  OBVIOUS
<1>1. TableGood' /\ Known' = Known /\ Loaded' = Loaded
  BY TableQuiet DEF SkipEntry
<1>2. Needed' /\ WellSoFar' /\ HasReason'
  BY <1>1, Quiet DEF SkipEntry
<1>3. LoaderShape'
  BY DEF SkipEntry, LoaderInv, LoaderShape, FromMain
<1>4. TableInv' /\ Adding'
  BY <1>1 DEF SkipEntry, LoaderInv, TableInv, Adding, tableVars
<1>5. AtNode' /\ Requested'
  BY DEF SkipEntry, AtNode, Requested, Loading
<1>6. WalkedOver'
  <2>1. P!LiveSlots(map)' = P!LiveSlots(map) /\ map' = map
    BY DEF SkipEntry, tableVars, P!LiveSlots, P!Live
  <2>2. \A i \in P!LiveSlots(map) : i \in Int /\ i # slot
    BY SameOperators DEF SkipEntry, P!LiveSlots
  <2>3. \A i \in P!LiveSlots(map) : i < slot + 1 => i < slot
    BY <2>2 DEF LoaderInv, LoaderShape
  <2> QED
    BY <2>1, <2>3, ProjectRests DEF SkipEntry, LoaderInv, WalkedOver
<1> QED
  BY <1>2, <1>3, <1>4, <1>5, <1>6 DEF LoaderInv

LEMMA OpenEntryStep == LoaderInv /\ OpenEntry => LoaderInv'
<1> SUFFICES ASSUME LoaderInv, OpenEntry
             PROVE  LoaderInv'
  OBVIOUS
<1>1. TableGood' /\ Known' = Known /\ Loaded' = Loaded
  BY TableQuiet DEF OpenEntry
<1>2. Needed' /\ WellSoFar' /\ HasReason'
  BY <1>1, Quiet DEF OpenEntry
<1>3. LoaderShape'
  BY DEF OpenEntry, LoaderInv, LoaderShape, FromMain
<1>4. TableInv' /\ Adding'
  BY <1>1 DEF OpenEntry, LoaderInv, TableInv, Adding, tableVars
<1>5. slot \in P!LiveSlots(map)
  <2>1. map.capacity \in Nat
    BY DEF LoaderInv, TableInv, TableGood, P!GoodInv, P!Good, P!IsMap
  <2>2. slot \in Nat /\ slot < map.capacity
    BY DEF OpenEntry, LoaderInv, LoaderShape
  <2>3. P!Live(map.entries[slot])
    BY SameOperators DEF OpenEntry
  <2> QED
    BY <2>1, <2>2, <2>3 DEF P!LiveSlots
<1>6. AtNode'
  <2>1. P!IsMap(map) /\ P!UniqueIn(map)
    BY DEF LoaderInv, TableInv, TableGood, P!GoodInv, P!Good, P!UniqueInv
  <2>2. Stored = PairsOf(map)
    BY DEF OpenEntry, LoaderInv, TableInv, Stored, P!Current
  <2>3. map.entries[slot].key \in Loaded /\ map.entries[slot].value = "parsed"
    BY <1>5, <2>1, <2>2, LoadedSlots DEF OpenEntry, LoaderInv, Adding, Known, Loaded
  <2>4. Loaded \subseteq Files
    BY DEF Loaded, ParsedIn
  <2>5. \A n \in UsesOf(map.entries[slot].key) : ~(n < 1)
    BY <2>3, <2>4, ProjectFacts DEF LoaderInv, LoaderShape
  <2> QED
    BY <1>1, <2>3, <2>5, ProjectRests DEF OpenEntry, AtNode
<1>7. Requested'
  BY DEF OpenEntry, Requested, Loading
<1>8. WalkedOver'
  <2>1. P!LiveSlots(map)' = P!LiveSlots(map) /\ map' = map
    BY DEF OpenEntry, tableVars, P!LiveSlots, P!Live
  <2> QED
    BY <1>5, <2>1, ProjectRests DEF OpenEntry, LoaderInv, WalkedOver
<1> QED
  BY <1>2, <1>3, <1>4, <1>6, <1>7, <1>8 DEF LoaderInv

LEMMA EndWalkStep == LoaderInv /\ EndWalk => LoaderInv'
<1> SUFFICES ASSUME LoaderInv, EndWalk
             PROVE  LoaderInv'
  OBVIOUS
<1>1. TableGood' /\ Known' = Known /\ Loaded' = Loaded
  BY TableQuiet DEF EndWalk
<1>2. Needed' /\ WellSoFar' /\ HasReason'
  BY <1>1, Quiet DEF EndWalk, walkVars
<1>3. LoaderShape'
  BY DEF EndWalk, LoaderInv, LoaderShape, FromMain, walkVars
<1>4. TableInv' /\ Adding'
  BY <1>1 DEF EndWalk, LoaderInv, TableInv, Adding, tableVars
<1>5. AtNode' /\ Requested'
  BY DEF EndWalk, AtNode, Requested, Loading
<1>6. WalkedOver'
  <2>1. P!IsMap(map) /\ P!UniqueIn(map)
    BY DEF LoaderInv, TableInv, TableGood, P!GoodInv, P!Good, P!UniqueInv
  <2>2. Stored = PairsOf(map)
    BY DEF EndWalk, LoaderInv, TableInv, Stored, P!Current
  <2>3. ASSUME NEW f \in Loaded, result, ~notFinished
        PROVE  NodesOf(f) \subseteq analyzed
    <3>1. PICK i \in P!LiveSlots(map) : map.entries[i].key = f
      BY <2>1, <2>2, LoadedSlots DEF EndWalk, LoaderInv, Adding, Known
    <3>2. i < slot
      BY <2>1 DEF P!LiveSlots, P!IsMap, EndWalk, LoaderInv, LoaderShape
    <3> QED
      BY <2>3, <3>1, <3>2 DEF EndWalk, LoaderInv, WalkedOver
  <2> QED
    BY <1>1, <2>3, ProjectRests DEF EndWalk, WalkedOver, walkVars
<1> QED
  BY <1>2, <1>3, <1>4, <1>5, <1>6 DEF LoaderInv

--------------------------------------------------------------------------------
(* The nodes of the file the walk is at.                                        *)

\* While the walk is at a file its copy is up to date.
LEMMA AtUse ==
  ASSUME LoaderInv, phase = "uses" \/ (Loading /\ ~FromMain)
  PROVE  /\ pair.key \in Loaded /\ pair.key \in Files
         /\ Roots = project.uses[pair.key]
         /\ Len(Roots) \in Nat
         /\ UsesOf(pair.key) = 1 .. Len(Roots)
         /\ use \in UsesOf(pair.key) <=> use <= Len(Roots)
         /\ \A n \in UsesOf(pair.key) : n < use => <<pair.key, n>> \in analyzed
         /\ use \in UsesOf(pair.key) => Node \in NodesOf(pair.key)
<1>1. /\ pair.key \in Loaded /\ pair.value = "parsed"
      /\ \A n \in UsesOf(pair.key) : n < use => <<pair.key, n>> \in analyzed
  BY DEF LoaderInv, AtNode
<1>2. pair.key \in Files
  BY <1>1 DEF Loaded, ParsedIn
<1>3. Roots = project.uses[pair.key]
  BY <1>1 DEF Roots
<1>4. UsesOf(pair.key) = 1 .. Len(Roots) /\ Len(Roots) \in Nat
  BY <1>2, <1>3, ProjectFacts DEF LoaderInv, LoaderShape
<1>5. use \in UsesOf(pair.key) <=> use <= Len(Roots)
  BY <1>4 DEF LoaderInv, LoaderShape
<1>6. use \in UsesOf(pair.key) => Node \in NodesOf(pair.key)
  BY DEF Node, NodesOf
<1> QED
  BY <1>1, <1>2, <1>3, <1>4, <1>5, <1>6

LEMMA SkipUseStep == LoaderInv /\ SkipUse => LoaderInv'
<1> SUFFICES ASSUME LoaderInv, SkipUse
             PROVE  LoaderInv'
  OBVIOUS
<1>1. TableGood' /\ Known' = Known /\ Loaded' = Loaded
  BY TableQuiet DEF SkipUse
<1>2. Needed' /\ WellSoFar' /\ HasReason'
  BY <1>1, Quiet DEF SkipUse
<1>3. LoaderShape'
  BY DEF SkipUse, LoaderInv, LoaderShape, FromMain
<1>4. TableInv' /\ Adding'
  BY <1>1 DEF SkipUse, LoaderInv, TableInv, Adding, tableVars
<1>5. AtNode'
  <2>1. ASSUME NEW n \in UsesOf(pair.key), n < use + 1
        PROVE  <<pair.key, n>> \in analyzed
    <3>1. n \in Int /\ use \in Int
      BY AtUse DEF SkipUse, LoaderInv, LoaderShape
    <3>2. CASE n = use
      BY <3>2 DEF SkipUse, Node
    <3>3. CASE n < use
      BY <3>3, AtUse DEF SkipUse
    <3> QED
      BY <2>1, <3>1, <3>2, <3>3
  <2>2. UsesOf(pair.key)' = UsesOf(pair.key)
    BY DEF SkipUse, UsesOf
  <2>3. pair.key \in Loaded /\ pair.value = "parsed"
    BY DEF SkipUse, LoaderInv, AtNode
  <2> QED
    BY <1>1, <2>1, <2>2, <2>3 DEF SkipUse, AtNode
<1>6. Requested'
  BY DEF SkipUse, Requested, Loading
<1>7. WalkedOver'
  <2>1. P!LiveSlots(map)' = P!LiveSlots(map) /\ map' = map
    BY DEF SkipUse, tableVars, P!LiveSlots, P!Live
  <2> QED
    BY <2>1, ProjectRests DEF SkipUse, LoaderInv, WalkedOver
<1> QED
  BY <1>2, <1>3, <1>4, <1>5, <1>6, <1>7 DEF LoaderInv

LEMMA FindUseStep == LoaderInv /\ FindUse => LoaderInv'
<1> SUFFICES ASSUME LoaderInv, FindUse
             PROVE  LoaderInv'
  OBVIOUS
<1>1. TableGood' /\ Known' = Known /\ Loaded' = Loaded
  BY TableQuiet DEF FindUse
<1>2. Needed' /\ WellSoFar' /\ HasReason'
  BY <1>1, Quiet DEF FindUse
<1>3. LoaderShape'
  BY DEF FindUse, LoaderInv, LoaderShape, FromMain
<1>4. TableInv' /\ Adding'
  BY <1>1 DEF FindUse, LoaderInv, TableInv, Adding, tableVars
<1>5. AtNode'
  <2>1. UsesOf(pair.key)' = UsesOf(pair.key)
    BY DEF FindUse, UsesOf
  <2> QED
    BY <1>1, <2>1 DEF FindUse, LoaderInv, AtNode
<1>6. Requested'
  <2>1. use \in UsesOf(pair.key)
    BY AtUse DEF FindUse
  <2>2. NodeFinds(Node, target)'
    <3>1. Finds(Roots[use], target')
      BY DEF FindUse
    <3>2. Finds(project.uses[pair.key][use], target')
      BY <3>1, AtUse DEF FindUse
    <3> QED
      BY <3>2 DEF FindUse, NodeFinds, Node, Finds, Exists
  <2>3. UsesOf(pair.key)' = UsesOf(pair.key) /\ Node' = Node /\ ~FromMain'
    BY DEF FindUse, UsesOf, Node, LoaderInv, LoaderShape, FromMain
  <2> QED
    BY <2>1, <2>2, <2>3 DEF FindUse, Requested
<1>7. WalkedOver'
  BY DEF FindUse, WalkedOver
<1> QED
  BY <1>2, <1>3, <1>4, <1>5, <1>6, <1>7 DEF LoaderInv

LEMMA CloseEntryStep == LoaderInv /\ CloseEntry => LoaderInv'
<1> SUFFICES ASSUME LoaderInv, CloseEntry
             PROVE  LoaderInv'
  OBVIOUS
<1>1. TableGood' /\ Known' = Known /\ Loaded' = Loaded
  BY TableQuiet DEF CloseEntry
<1>2. Needed' /\ WellSoFar' /\ HasReason'
  BY <1>1, Quiet DEF CloseEntry
<1>3. LoaderShape'
  <2>1. ~FromMain' /\ ~FromMain
    BY DEF CloseEntry, LoaderInv, LoaderShape, FromMain
  <2>2. /\ slot' \in Nat /\ phase' \in {"walk", "while"}
        /\ notFinished' \in BOOLEAN /\ result' \in BOOLEAN
    <3>1. slot \in Nat /\ notFinished \in BOOLEAN /\ result \in BOOLEAN /\ UNCHANGED result
      BY DEF CloseEntry, LoaderInv, LoaderShape
    <3>2. CASE result
      BY <3>1, <3>2 DEF CloseEntry
    <3>3. CASE ~result
      BY <3>1, <3>3 DEF CloseEntry
    <3> QED
      BY <3>2, <3>3
  <2>3. UNCHANGED <<project, arg, target, use>>
    BY DEF CloseEntry
  <2> QED
    BY <2>1, <2>2, <2>3 DEF LoaderInv, LoaderShape
<1>4. TableInv' /\ Adding'
  BY <1>1 DEF CloseEntry, LoaderInv, TableInv, Adding, tableVars
<1>5. AtNode' /\ Requested'
  BY DEF CloseEntry, AtNode, Requested, Loading
<1>6. NodesOf(pair.key) \subseteq analyzed
  <2>1. \A n \in UsesOf(pair.key) : n < use
    BY AtUse DEF CloseEntry, LoaderInv, LoaderShape
  <2> QED
    BY <2>1, AtUse DEF CloseEntry, NodesOf
<1>7. WalkedOver'
  <2>1. P!LiveSlots(map)' = P!LiveSlots(map) /\ map' = map
    BY DEF CloseEntry, tableVars, P!LiveSlots, P!Live
  <2>2. \A i \in P!LiveSlots(map) : i < slot + 1 => i < slot \/ i = slot
    BY DEF P!LiveSlots, LoaderInv, LoaderShape
  <2> QED
    BY <1>6, <2>1, <2>2, ProjectRests DEF CloseEntry, LoaderInv, WalkedOver
<1> QED
  BY <1>2, <1>3, <1>4, <1>5, <1>7 DEF LoaderInv

LEMMA MissUseStep == LoaderInv /\ MissUse => LoaderInv'
<1> SUFFICES ASSUME LoaderInv, MissUse
             PROVE  LoaderInv'
  OBVIOUS
<1>1. TableGood' /\ Known' = Known /\ Loaded' = Loaded
  BY TableQuiet DEF MissUse
<1>2. LoaderShape'
  <2>1. ~FromMain' /\ ~FromMain
    BY DEF MissUse, LoaderInv, LoaderShape, FromMain
  <2>2. use' \in Nat \ {0} /\ notFinished' = TRUE /\ result' = FALSE
    BY DEF MissUse, LoaderInv, LoaderShape
  <2>3. UNCHANGED <<project, arg, target, slot, phase>> /\ phase = "uses"
    BY DEF MissUse
  <2> QED
    BY <2>1, <2>2, <2>3 DEF LoaderInv, LoaderShape
<1>3. TableInv' /\ Adding'
  BY <1>1 DEF MissUse, LoaderInv, TableInv, Adding, tableVars
<1>4. AtNode'
  <2>1. ASSUME NEW n \in UsesOf(pair.key), n < use + 1
        PROVE  <<pair.key, n>> \in analyzed \cup {Node}
    <3>1. n \in Int /\ use \in Int
      BY AtUse DEF MissUse, LoaderInv, LoaderShape
    <3>2. CASE n = use
      BY <3>2 DEF Node
    <3>3. CASE n < use
      BY <3>3, AtUse DEF MissUse
    <3> QED
      BY <2>1, <3>1, <3>2, <3>3
  <2>2. UsesOf(pair.key)' = UsesOf(pair.key)
    BY DEF MissUse, UsesOf
  <2>3. pair.key \in Loaded /\ pair.value = "parsed"
    BY DEF MissUse, LoaderInv, AtNode
  <2> QED
    BY <1>1, <2>1, <2>2, <2>3 DEF MissUse, AtNode
<1>5. Requested'
  BY DEF MissUse, Requested, Loading
<1>6. Node \in NodesOf(pair.key) /\ pair.key \in Loaded
  BY AtUse DEF MissUse
<1>7. Needed'
  BY <1>1, <1>6, ProjectRests DEF MissUse, LoaderInv, Needed
<1>8. WellSoFar' /\ WalkedOver'
  BY DEF MissUse, WellSoFar, WalkedOver
<1>9. HasReason'
  <2>1. Node \in ReachedNodes
    BY <1>6, ReachedFacts DEF LoaderInv, LoaderShape, Needed
  <2>2. \A f \in Files : ~NodeFinds(Node, f)
    <3>2. \A f \in Files : ~Finds(project.uses[pair.key][use], f)
      BY AtUse DEF MissUse
    <3> QED
      BY <3>2 DEF NodeFinds, Node
  <2>3. ~IsForest
    BY <2>1, <2>2 DEF IsForest, NodeFinds
  <2> QED
    BY <2>3, ProjectRests DEF MissUse, HasReason
<1> QED
  BY <1>2, <1>3, <1>4, <1>5, <1>7, <1>8, <1>9 DEF LoaderInv

--------------------------------------------------------------------------------
(* load_and_process_file.                                                       *)

\* An add leaves the file known, and unparsed if it was new.
LEMMA AddedFile ==
  ASSUME NEW f \in Files, Known = Loaded, Added(f)
  PROVE  /\ res'.ok => f \notin Loaded /\ Known' = Loaded \cup {f}
         /\ ~res'.ok => f \in Loaded /\ Known' = Loaded
BY DEF Added, Known, FilesIn

\* The steps of load_and_process_file up to its return concern the table only.
LEMMA LoadGoesOn ==
  ASSUME LoaderInv, phase \in {"load", "grow"}, phase' \in {"grow", "parse"},
         UNCHANGED <<project, arg, target, walkVars>>, Loaded' = Loaded,
         TableInv', Adding'
  PROVE  LoaderInv'
<1>1. Needed' /\ WellSoFar' /\ HasReason'
  BY Quiet DEF walkVars
<1>2. LoaderShape'
  BY DEF LoaderInv, LoaderShape, FromMain, walkVars
<1>3. AtNode'
  <2>1. UsesOf(pair.key)' = UsesOf(pair.key)
    BY DEF UsesOf, walkVars
  <2> QED
    BY <2>1 DEF LoaderInv, AtNode, Loading, FromMain, walkVars
<1>4. Requested'
  <2>1. UsesOf(pair.key)' = UsesOf(pair.key) /\ Node' = Node
    BY DEF UsesOf, Node, walkVars
  <2>2. NodeFinds(Node, target)' <=> NodeFinds(Node, target)
    BY DEF NodeFinds, Node, Finds, Exists, walkVars
  <2> QED
    BY <2>1, <2>2 DEF LoaderInv, Requested, Loading, FromMain, walkVars
<1>5. WalkedOver'
  <2>1. result => notFinished
    BY DEF LoaderInv, LoaderShape, Requested, Loading
  <2> QED
    BY <2>1 DEF WalkedOver, walkVars
<1> QED
  BY <1>1, <1>2, <1>3, <1>4, <1>5 DEF LoaderInv

LEMMA AddFileStep == LoaderInv /\ AddFile => LoaderInv' /\ Loaded \subseteq Loaded'
<1> SUFFICES ASSUME LoaderInv, AddFile
             PROVE  LoaderInv' /\ Loaded \subseteq Loaded'
  OBVIOUS
<1>1. /\ phase = "load" /\ target \in Files /\ Known = Loaded
      /\ UNCHANGED <<project, arg, target, walkVars>>
      /\ TableGood
  BY DEF AddFile, LoaderInv, LoaderShape, Adding, TableInv
<1>2. /\ TableGood' /\ Loaded' = Loaded
      /\ \/ phase' = "parse" /\ Added(target)
         \/ /\ phase' = "grow" /\ pc' = "rebuild"
            /\ pending' = [key |-> target, value |-> "new"]
            /\ Known' = Known
  <2>1. CASE Table!AddDirectly(target, "new") /\ phase' = "parse"
    <3>1. P!AddDirectly(target, "new")
      BY <1>1, <2>1, SameCalls
    <3>2. Added(target)
      BY <1>1, <3>1, AddOutcome
    <3>3. P!Next
      BY <1>1, <3>1 DEF P!Next, P!Call
    <3>4. Loaded' = Loaded
      BY <3>2 DEF Added, Loaded, ParsedIn
    <3> QED
      BY <1>1, <2>1, <3>2, <3>3, <3>4, TableStep
  <2>2. CASE Table!StartRebuild(target, "new") /\ phase' = "grow"
    <3>1. P!StartRebuild(target, "new")
      BY <1>1, <2>2, SameCalls
    <3>2. P!Next
      BY <1>1, <3>1 DEF P!Next, P!Call
    <3>3. pc' = "rebuild" /\ pending' = [key |-> target, value |-> "new"] /\ Stored' = Stored
      BY <1>1, <3>1, StartOutcome
    <3>4. Loaded' = Loaded /\ Known' = Known
      BY <3>3 DEF Known, FilesIn, Loaded, ParsedIn
    <3> QED
      BY <1>1, <2>2, <3>2, <3>3, <3>4, TableStep
  <2> QED
    BY <2>1, <2>2 DEF AddFile
<1>3. TableInv'
  BY <1>1, <1>2 DEF TableInv, Added
<1>4. Adding'
  <2>1. CASE phase' = "parse" /\ Added(target)
    BY <1>1, <1>2, <2>1, AddedFile DEF Adding
  <2>2. CASE phase' = "grow" /\ Known' = Known
    BY <1>1, <1>2, <2>2 DEF Adding
  <2> QED
    BY <1>2, <2>1, <2>2
<1> QED
  BY <1>1, <1>2, <1>3, <1>4, LoadGoesOn

LEMMA GrowTableStep == LoaderInv /\ GrowTable => LoaderInv' /\ Loaded \subseteq Loaded'
<1> SUFFICES ASSUME LoaderInv, GrowTable
             PROVE  LoaderInv' /\ Loaded \subseteq Loaded'
  OBVIOUS
<1>1. /\ phase = "grow" /\ target \in Files /\ Known = Loaded
      /\ pending = [key |-> target, value |-> "new"]
      /\ UNCHANGED <<project, arg, target, walkVars>>
      /\ TableGood
  BY DEF GrowTable, LoaderInv, LoaderShape, Adding, TableInv
<1>2. /\ TableGood' /\ Loaded' = Loaded
      /\ \/ phase' = "parse" /\ Added(target)
         \/ /\ phase' = "grow" /\ pc' = "rebuild" /\ UNCHANGED pending
            /\ Known' = Known
  <2>1. CASE Table!FinishAdd /\ phase' = "parse"
    <3>1. P!FinishAdd
      BY <1>1, <2>1, SameCalls
    <3>2. Added(target)
      BY <1>1, <3>1, FinishOutcome
    <3>3. P!Next
      BY <3>1 DEF P!Next, P!Rebuild
    <3>4. Loaded' = Loaded
      BY <3>2 DEF Added, Loaded, ParsedIn
    <3> QED
      BY <1>1, <2>1, <3>2, <3>3, <3>4, TableStep
  <2>2. CASE Table!Reinsert /\ UNCHANGED phase
    <3>1. P!Reinsert
      BY <1>1, <2>2, SameCalls
    <3>2. P!Next
      BY <3>1 DEF P!Next, P!Rebuild
    <3>3. pc' = "rebuild" /\ UNCHANGED pending /\ Stored' = Stored
      BY <1>1, <3>1, ReinsertOutcome
    <3>4. Loaded' = Loaded /\ Known' = Known
      BY <3>3 DEF Known, FilesIn, Loaded, ParsedIn
    <3> QED
      BY <1>1, <2>2, <3>2, <3>3, <3>4, TableStep
  <2> QED
    BY <2>1, <2>2 DEF GrowTable
<1>3. TableInv'
  BY <1>1, <1>2 DEF TableInv, Added
<1>4. Adding'
  <2>1. CASE phase' = "parse" /\ Added(target)
    BY <1>1, <1>2, <2>1, AddedFile DEF Adding
  <2>2. CASE phase' = "grow" /\ Known' = Known
    BY <1>1, <1>2, <2>2 DEF Adding
  <2> QED
    BY <1>2, <2>1, <2>2
<1> QED
  BY <1>1, <1>2, <1>3, <1>4, LoadGoesOn

--------------------------------------------------------------------------------
(* What a load that comes to its end means for the project.                     *)

\* A node stands for one file.
LEMMA NodeFindsOne ==
  ASSUME project \in Projects, NEW g \in Files, NEW node \in NodesOf(g),
         NEW f, NEW h, NodeFinds(node, f), NodeFinds(node, h)
  PROVE  f = h
<1>1. PICK n \in UsesOf(g) : node = <<g, n>>
  BY DEF NodesOf
<1>2. project.uses[g][n] \in Seq(Files)
  BY ProjectFacts
<1>3. Finds(project.uses[g][n], f) /\ Finds(project.uses[g][n], h)
  BY <1>1 DEF NodeFinds
<1> QED
  BY <1>2, <1>3, FindsOne

\* The program needs the file that is being loaded, for one more reason.
LEMMA TargetIsNeeded ==
  ASSUME LoaderInv, Loading
  PROVE  /\ project \in Projects /\ target \in Files /\ target \in Reached
         /\ FromMain => arg \in DOMAIN project.args /\ target = project.args[arg]
         /\ ~FromMain => /\ Node \in NodesOf(pair.key) /\ pair.key \in Loaded
                         /\ Node \notin analyzed /\ Node \in ReachedNodes
                         /\ NodeFinds(Node, target)
                         /\ notFinished
<1>1. project \in Projects /\ target \in Files
  BY DEF LoaderInv, LoaderShape
<1>2. CASE FromMain
  <2>1. target = project.args[arg]
    BY <1>2 DEF LoaderInv, Requested
  <2>2. arg \in DOMAIN project.args
    BY <1>1, <1>2, ProjectFacts DEF LoaderInv, LoaderShape, FromMain
  <2> QED
    BY <1>1, <1>2, <2>1, <2>2, ReachedFacts
<1>3. CASE ~FromMain
  <2>1. /\ use \in UsesOf(pair.key) /\ Node \notin analyzed /\ NodeFinds(Node, target)
        /\ notFinished
    BY <1>3 DEF LoaderInv, Requested
  <2>2. Node \in NodesOf(pair.key) /\ pair.key \in Loaded
    BY <1>3, <2>1, AtUse
  <2>3. pair.key \in Reached
    BY <2>2 DEF LoaderInv, Needed
  <2> QED
    BY <1>1, <1>3, <2>1, <2>2, <2>3, ReachedFacts
<1> QED
  BY <1>2, <1>3

\* Nobody asked for it before, if it is not there and nothing went wrong.
LEMMA FirstRequest ==
  ASSUME LoaderInv, Loading, result, target \notin Loaded
  PROVE  ArgsFor(target) = {} /\ NodesFor(target) = {}
<1>1. /\ \A n \in 1 .. arg - 1 : project.args[n] \in Loaded
      /\ \A node \in analyzed : \E f \in Loaded : NodeFinds(node, f)
  BY DEF LoaderInv, WellSoFar, Loading
<1>2. ArgsFor(target) = {}
  BY <1>1 DEF ArgsFor
<1>3. ASSUME NEW node \in analyzed, NodeFinds(node, target)
      PROVE  FALSE
  <2>1. PICK f \in Loaded : NodeFinds(node, f)
    BY <1>1
  <2>2. PICK g \in Loaded : node \in NodesOf(g)
    BY DEF LoaderInv, Needed
  <2>3. g \in Files /\ project \in Projects
    BY DEF Loaded, ParsedIn, LoaderInv, LoaderShape
  <2>4. f = target
    BY <1>3, <2>1, <2>2, <2>3, NodeFindsOne
  <2> QED
    BY <2>1, <2>4
<1> QED
  BY <1>2, <1>3 DEF NodesFor

\* Somebody asked for it before, if it is there.
LEMMA SecondRequest ==
  ASSUME LoaderInv, Loading, target \in Loaded
  PROVE  ~IsForest
<1>1. CASE ~result
  BY <1>1 DEF LoaderInv, HasReason
<1>2. CASE result
  <2> SUFFICES ASSUME IsForest
               PROVE  FALSE
    OBVIOUS
  <2> DEFINE S == ArgsFor(target)
             T == NodesFor(target)
  <2>1. Cardinality(S) + Cardinality(T) = 1
    BY <1>2 DEF LoaderInv, WellSoFar, Loading, One
  <2>2. S \in SUBSET {n \in DOMAIN project.args : project.args[n] = target}
    BY TargetIsNeeded, ProjectFacts DEF ArgsFor, LoaderInv, LoaderShape
  <2>3. T \in SUBSET {node \in ReachedNodes : NodeFinds(node, target)}
    <3>1. analyzed \subseteq ReachedNodes
      BY TargetIsNeeded, ReachedFacts DEF LoaderInv, Needed
    <3> QED
      BY <3>1 DEF NodesFor
  <2>4. IsFiniteSet(S) /\ IsFiniteSet(T) /\ Cardinality(S) \in Nat /\ Cardinality(T) \in Nat
    BY <2>2, <2>3, TargetIsNeeded, AskedOnce
  <2>5. CASE FromMain
    <3>1. arg \notin S
      BY DEF ArgsFor, LoaderInv, LoaderShape
    <3>2. S \cup {arg} \in SUBSET {n \in DOMAIN project.args : project.args[n] = target}
      BY <2>2, <2>5, TargetIsNeeded
    <3>3. Cardinality(S \cup {arg}) = Cardinality(S) + 1
      BY <2>4, <3>1, FS_AddElement
    <3>4. Cardinality(S \cup {arg}) + Cardinality(T) <= 1
      BY <2>3, <3>2, TargetIsNeeded, AskedOnce
    <3> QED
      BY <2>1, <2>4, <3>3, <3>4
  <2>6. CASE ~FromMain
    <3>1. Node \notin T
      BY <2>6, TargetIsNeeded DEF NodesFor
    <3>2. T \cup {Node} \in SUBSET {node \in ReachedNodes : NodeFinds(node, target)}
      BY <2>3, <2>6, TargetIsNeeded
    <3>3. Cardinality(T \cup {Node}) = Cardinality(T) + 1
      BY <2>4, <3>1, FS_AddElement
    <3>4. Cardinality(S) + Cardinality(T \cup {Node}) <= 1
      BY <2>2, <3>2, TargetIsNeeded, AskedOnce
    <3> QED
      BY <2>1, <2>4, <3>3, <3>4
  <2> QED
    BY <2>5, <2>6
<1> QED
  BY <1>1, <1>2 DEF LoaderInv, LoaderShape

--------------------------------------------------------------------------------
(* The return of load_and_process_file.                                         *)

\* What a load that returns ok has done.
Outcome(ok) ==
  /\ Loaded' \in {Loaded, Loaded \cup {target}}
  /\ ok => /\ target \notin Loaded /\ Loaded' = Loaded \cup {target}
           /\ project.disk[target] = "fine"
  /\ ~ok => ~IsForest

LEMMA OneRequest == \A x : One({x}, {}) /\ One({}, {x})
<1>1. Cardinality({}) = 0
  BY FS_EmptySet
<1>2. \A x : Cardinality({x}) = 1
  BY FS_Singleton
<1> QED
  BY <1>1, <1>2 DEF One

\* One more file of the command line is there, or main stops.
LEMMA ReturnToMain ==
  ASSUME LoaderInv, phase \in {"load", "parse"}, NEW ok \in BOOLEAN, LoadEnds(ok),
         UNCHANGED <<project, target>>, Known' = Loaded', Outcome(ok), TableInv',
         FromMain
  PROVE  LoaderInv'
<1>1. /\ Loading /\ result /\ notFinished /\ analyzed = {}
      /\ Len(project.args) \in Nat /\ arg \in 1 .. Len(project.args)
      /\ target = project.args[arg] /\ target \in Reached
  BY TargetIsNeeded, ProjectFacts DEF Loading, LoaderInv, LoaderShape
<1>2. /\ UNCHANGED walkVars
      /\ \/ ok /\ arg' = arg + 1 /\ phase' = "main"
         \/ ~ok /\ arg' = arg /\ phase' = "failed"
  <2>1. /\ UNCHANGED walkVars
        /\ IF ok THEN arg' = arg + 1 /\ phase' = "main"
                 ELSE arg' = arg /\ phase' = "failed"
    <3>1. ~(arg > Len(project.args))
      BY <1>1
    <3> QED
      BY <3>1 DEF LoadEnds
  <2>2. CASE ok
    BY <2>1, <2>2
  <2>3. CASE ~ok
    BY <2>1, <2>3
  <2> QED
    BY <2>2, <2>3
<1>3. LoaderShape'
  BY <1>1, <1>2 DEF LoaderInv, LoaderShape, FromMain, walkVars
<1>4. Adding' /\ AtNode' /\ Requested'
  BY <1>2 DEF Adding, AtNode, Requested, Loading
<1>5. Needed'
  BY <1>1, <1>2, ProjectRests DEF LoaderInv, Needed, walkVars, Outcome
<1>6. WellSoFar'
  <2> SUFFICES ASSUME ok, arg' = arg + 1
               PROVE  /\ \A n \in 1 .. arg : project.args[n] \in Loaded'
                      /\ \A f \in Loaded' : /\ project.disk[f] = "fine"
                                            /\ One({n \in 1 .. arg : project.args[n] = f}, {})
    <3>1. /\ \A n, i : project.args'[n] = project.args[n]
          /\ arg' = arg + 1 => arg' - 1 = arg
      BY <1>1
    <3>2. \A f : NodesFor(f)' = {}
      BY <1>1, <1>2 DEF NodesFor, walkVars
    <3>3. arg' = arg + 1 => \A f : ArgsFor(f)' = {n \in 1 .. arg : project.args[n] = f}
      BY <3>1 DEF ArgsFor
    <3>4. analyzed' = {}
      BY <1>1, <1>2 DEF walkVars
    <3> QED
      BY <1>2, <3>1, <3>2, <3>3, <3>4 DEF WellSoFar, One
  <2>1. /\ \A n \in 1 .. arg - 1 : project.args[n] \in Loaded
        /\ \A f \in Loaded : project.disk[f] = "fine" /\ One(ArgsFor(f), NodesFor(f))
    BY <1>1 DEF LoaderInv, WellSoFar, Loading
  <2>2. Loaded' = Loaded \cup {target} /\ target \notin Loaded /\ project.disk[target] = "fine"
    BY DEF Outcome
  <2>3. \A n \in 1 .. arg : project.args[n] \in Loaded'
    BY <1>1, <2>1, <2>2
  <2>4. ASSUME NEW f \in Loaded'
        PROVE  One({n \in 1 .. arg : project.args[n] = f}, {})
    <3>1. CASE f = target
      <4>1. {n \in 1 .. arg : project.args[n] = f} = {arg}
        BY <1>1, <2>2, <3>1, FirstRequest DEF ArgsFor
      <4> QED
        BY <4>1, OneRequest
    <3>2. CASE f # target
      <4>1. {n \in 1 .. arg : project.args[n] = f} = ArgsFor(f)
        BY <1>1, <3>2 DEF ArgsFor
      <4>2. NodesFor(f) = {}
        BY <1>1 DEF NodesFor
      <4> QED
        BY <2>1, <2>2, <3>2, <4>1, <4>2
    <3> QED
      BY <3>1, <3>2
  <2> QED
    BY <2>1, <2>2, <2>3, <2>4
<1>7. HasReason'
  BY <1>1, <1>2, ProjectRests DEF HasReason, Outcome, walkVars
<1>8. WalkedOver'
  BY <1>1, <1>2 DEF WalkedOver, walkVars
<1> QED
  BY <1>3, <1>4, <1>5, <1>6, <1>7, <1>8 DEF LoaderInv

\* One more node is done, well or with result FALSE.
LEMMA ReturnToWalk ==
  ASSUME LoaderInv, phase \in {"load", "parse"}, NEW ok \in BOOLEAN, LoadEnds(ok),
         UNCHANGED <<project, target>>, Known' = Loaded', Outcome(ok), TableInv',
         ~FromMain
  PROVE  LoaderInv'
<1>1. /\ Loading /\ notFinished /\ project \in Projects
      /\ Node \in NodesOf(pair.key) /\ pair.key \in Loaded /\ pair.key \in Files
      /\ Node \notin analyzed /\ NodeFinds(Node, target)
      /\ target \in Reached
  BY TargetIsNeeded DEF Loading, LoaderInv, LoaderShape, Loaded, ParsedIn
<1>2. /\ analyzed' = analyzed \cup {Node}
      /\ result' = (result /\ ok)
      /\ use' = use + 1
      /\ phase' = "uses"
      /\ UNCHANGED <<arg, notFinished, slot, pair>>
  BY DEF LoadEnds, FromMain
<1>3. LoaderShape'
  <2>1. ~FromMain'
    BY <1>2 DEF FromMain
  <2>2. use' \in Nat \ {0} /\ result' \in BOOLEAN
    BY <1>2 DEF LoaderInv, LoaderShape
  <2> QED
    BY <1>2, <2>1, <2>2 DEF LoaderInv, LoaderShape
<1>4. Loaded \subseteq Loaded' /\ Loaded' \subseteq Loaded \cup {target}
  BY DEF Outcome
<1>5. Adding' /\ Requested'
  BY <1>2 DEF Adding, Requested, Loading
<1>6. AtNode'
  <2>1. ASSUME NEW n \in UsesOf(pair.key), n < use + 1
        PROVE  <<pair.key, n>> \in analyzed \cup {Node}
    <3>1. n \in Int /\ use \in Int
      BY <1>1, AtUse DEF LoaderInv, LoaderShape
    <3>2. CASE n = use
      BY <3>2 DEF Node
    <3>3. CASE n < use
      BY <1>1, <3>3, AtUse
    <3> QED
      BY <2>1, <3>1, <3>2, <3>3
  <2>2. UsesOf(pair.key)' = UsesOf(pair.key)
    BY <1>2 DEF UsesOf
  <2>3. pair.value = "parsed"
    BY <1>1 DEF LoaderInv, AtNode
  <2> QED
    BY <1>1, <1>2, <1>4, <2>1, <2>2, <2>3 DEF AtNode
<1>7. Needed'
  <2>1. Loaded' \subseteq Reached
    BY <1>1, <1>4 DEF LoaderInv, Needed
  <2>2. \A node \in analyzed \cup {Node} : \E f \in Loaded' : node \in NodesOf(f)
    BY <1>1, <1>4 DEF LoaderInv, Needed
  <2> QED
    BY <1>2, <2>1, <2>2, ProjectRests DEF Needed
<1>8. WellSoFar'
  <2> SUFFICES ASSUME result, ok
               PROVE  /\ \A n \in 1 .. arg - 1 : project.args[n] \in Loaded'
                      /\ \A node \in analyzed \cup {Node} : \E f \in Loaded' : NodeFinds(node, f)
                      /\ \A f \in Loaded' :
                           /\ project.disk[f] = "fine"
                           /\ One(ArgsFor(f), {node \in analyzed \cup {Node} : NodeFinds(node, f)})
    <3>1. \A f : ArgsFor(f)' = ArgsFor(f)
      BY <1>2 DEF ArgsFor
    <3>2. \A f : NodesFor(f)' = {node \in analyzed \cup {Node} : NodeFinds(node, f)}
      BY <1>2, ProjectRests DEF NodesFor
    <3> QED
      BY <1>2, <3>1, <3>2, ProjectRests DEF WellSoFar, One
  <2>1. /\ \A n \in 1 .. arg - 1 : project.args[n] \in Loaded
        /\ \A node \in analyzed : \E f \in Loaded : NodeFinds(node, f)
        /\ \A f \in Loaded : project.disk[f] = "fine" /\ One(ArgsFor(f), NodesFor(f))
    BY <1>1 DEF LoaderInv, WellSoFar, Loading
  <2>2. Loaded' = Loaded \cup {target} /\ target \notin Loaded /\ project.disk[target] = "fine"
    BY DEF Outcome
  <2>3. ASSUME NEW f \in Loaded'
        PROVE  One(ArgsFor(f), {node \in analyzed \cup {Node} : NodeFinds(node, f)})
    <3>1. CASE f = target
      <4>1. ArgsFor(f) = {} /\ NodesFor(f) = {}
        BY <1>1, <2>2, <3>1, FirstRequest
      <4>2. {node \in analyzed \cup {Node} : NodeFinds(node, f)} = {Node}
        BY <1>1, <3>1, <4>1 DEF NodesFor
      <4> QED
        BY <4>1, <4>2, OneRequest
    <3>2. CASE f # target
      <4>1. ~NodeFinds(Node, f)
        BY <1>1, <3>2, NodeFindsOne
      <4>2. {node \in analyzed \cup {Node} : NodeFinds(node, f)} = NodesFor(f)
        BY <4>1 DEF NodesFor
      <4> QED
        BY <2>1, <2>2, <3>2, <4>2
    <3> QED
      BY <3>1, <3>2
  <2>4. \A node \in analyzed \cup {Node} : \E f \in Loaded' : NodeFinds(node, f)
    BY <1>1, <2>1, <2>2
  <2> QED
    BY <2>1, <2>2, <2>3, <2>4
<1>9. HasReason'
  BY <1>2, ProjectRests DEF LoaderInv, HasReason, Outcome
<1>10. WalkedOver'
  BY <1>1, <1>2 DEF WalkedOver
<1> QED
  BY <1>3, <1>5, <1>6, <1>7, <1>8, <1>9, <1>10 DEF LoaderInv

LEMMA ReturnStep ==
  ASSUME LoaderInv, phase \in {"load", "parse"}, NEW ok \in BOOLEAN, LoadEnds(ok),
         UNCHANGED <<project, target>>, Known' = Loaded', Outcome(ok), TableInv'
  PROVE  LoaderInv'
BY ReturnToMain, ReturnToWalk

LEMMA ReturnPhase ==
  ASSUME NEW ok, LoadEnds(ok)
  PROVE  phase' \in {"main", "failed", "uses"}
BY DEF LoadEnds

\* Its three ends: the file cannot be read, was there already, or is parsed.
LEMMA ReadFailsStep == LoaderInv /\ ReadFails => LoaderInv' /\ Loaded \subseteq Loaded'
<1> SUFFICES ASSUME LoaderInv, ReadFails
             PROVE  LoaderInv' /\ Loaded \subseteq Loaded'
  OBVIOUS
<1>1. TableGood' /\ Known' = Known /\ Loaded' = Loaded
  BY TableQuiet DEF ReadFails
<1>2. phase = "load" /\ Loading /\ Known = Loaded
  BY DEF ReadFails, Loading, LoaderInv, Adding
<1>3. phase' \in {"main", "failed", "uses"}
  BY ReturnPhase DEF ReadFails
<1>4. TableInv'
  BY <1>1, <1>2, <1>3 DEF ReadFails, LoaderInv, TableInv, tableVars
<1>5. Outcome(FALSE)
  <2>1. target \in Reached /\ project.disk[target] # "fine"
    BY <1>2, TargetIsNeeded DEF ReadFails
  <2> QED
    BY <1>1, <2>1 DEF Outcome, IsForest
<1> QED
  BY <1>1, <1>2, <1>4, <1>5, ReturnStep DEF ReadFails

LEMMA AddFailsStep == LoaderInv /\ AddFails => LoaderInv' /\ Loaded \subseteq Loaded'
<1> SUFFICES ASSUME LoaderInv, AddFails
             PROVE  LoaderInv' /\ Loaded \subseteq Loaded'
  OBVIOUS
<1>1. TableGood' /\ Known' = Known /\ Loaded' = Loaded
  BY TableQuiet DEF AddFails
<1>2. phase = "parse" /\ Loading /\ Known = Loaded /\ target \in Loaded
  BY DEF AddFails, Loading, LoaderInv, Adding
<1>3. phase' \in {"main", "failed", "uses"}
  BY ReturnPhase DEF AddFails
<1>4. TableInv'
  BY <1>1, <1>2, <1>3 DEF AddFails, LoaderInv, TableInv, tableVars
<1>5. Outcome(FALSE)
  BY <1>1, <1>2, SecondRequest DEF Outcome
<1> QED
  BY <1>1, <1>2, <1>4, <1>5, ReturnStep DEF AddFails

LEMMA ParseFileStep == LoaderInv /\ ParseFile => LoaderInv' /\ Loaded \subseteq Loaded'
<1> SUFFICES ASSUME LoaderInv, ParseFile
             PROVE  LoaderInv' /\ Loaded \subseteq Loaded'
  OBVIOUS
<1>1. /\ phase = "parse" /\ Loading /\ pc = "idle" /\ TableGood
      /\ target \notin Loaded /\ Known = Loaded \cup {target}
      /\ target \in Reached /\ target \in Files /\ project \in Projects
  <2>1. phase = "parse" /\ Loading /\ res.ok
    BY DEF ParseFile, Loading
  <2>2. pc \in {"idle", "rebuild"} /\ pc # "rebuild" /\ TableGood
    BY <2>1 DEF LoaderInv, TableInv, TableGood, P!GoodInv, P!TypeOK
  <2>3. target \notin Loaded /\ Known = Loaded \cup {target}
    BY <2>1 DEF LoaderInv, Adding
  <2> QED
    BY <2>1, <2>2, <2>3, TargetIsNeeded
<1> DEFINE ok == project.disk[target] = "fine"
<1>2. /\ \E i \in 0..map.capacity-1 : P!Finds(map, target, i) /\ map' = Parsed(i)
      /\ LoadEnds(ok)
  <2>1. P!Good(map)
    BY <1>1 DEF TableGood, P!GoodInv
  <2>2. target \in P!LiveKeys(map)
    <3>1. P!IsMap(map) /\ Known = FilesIn(PairsOf(map))
      BY <1>1, <2>1 DEF P!Good, Known, Stored, P!Current
    <3> QED
      BY <1>1, <3>1, KeysOfPairs
  <2>3. ~Table!Misses(map, target)
    BY <1>1, <2>1, <2>2, P!LookupIsExact, TableConstants, SameOperators
  <2> QED
    BY <2>3, SameOperators DEF ParseFile
<1>3. TableGood' /\ Known' = Known /\ Loaded' = Loaded \cup {target}
  BY <1>1, <1>2, ParseOutcome DEF ParseFile
<1>4. TableInv'
  <2>1. phase' \in {"main", "failed", "uses"}
    BY <1>2, ReturnPhase
  <2> QED
    BY <1>1, <1>3, <2>1 DEF ParseFile, TableInv
<1>5. Outcome(ok)
  <2>1. ~ok => ~IsForest
    BY <1>1 DEF IsForest
  <2> QED
    BY <1>1, <1>3, <2>1 DEF Outcome
<1>6. UNCHANGED <<project, target>> /\ ok \in BOOLEAN
  BY DEF ParseFile
<1> HIDE DEF ok
<1>7. LoaderInv'
  BY <1>1, <1>2, <1>3, <1>4, <1>5, <1>6, ReturnStep
<1> QED
  BY <1>3, <1>7

--------------------------------------------------------------------------------
(* The invariant, and what follows.                                             *)

LEMMA LoaderStarts == LoaderInit => LoaderInv
<1> SUFFICES ASSUME LoaderInit
             PROVE  LoaderInv
  OBVIOUS
<1>1. P!Init
  BY SameOperators DEF LoaderInit
<1>2. P!LiveSlots(map) = {} /\ P!LiveSlots(old) = {}
  BY <1>1 DEF P!Init, P!NullMap, P!NewMap, P!LiveSlots
<1>3. TableGood
  <2>1. P!GoodInv
    BY <1>1, P!GoodInit, TableConstants
  <2>2. P!RoomInv /\ P!RebuildKeepsPairs /\ P!UniqueInv
    BY <1>1, <1>2 DEF P!Init, P!RoomInv, P!RebuildKeepsPairs, P!UniqueInv, P!UniqueIn
  <2> QED
    BY <2>1, <2>2 DEF TableGood
<1>4. Known = {} /\ Loaded = {}
  <2>1. Stored = {}
    BY <1>2 DEF Stored, PairsOf, P!Pairs, P!Current
  <2> QED
    BY <2>1 DEF Known, Loaded, FilesIn, ParsedIn
<1>5. TableInv
  BY <1>1, <1>3 DEF LoaderInit, TableInv, P!Init
<1>6. LoaderShape
  <2>1. Len(project.args) \in Nat \ {0}
    BY ProjectFacts DEF LoaderInit
  <2> QED
    BY <2>1, NamesAssumption DEF LoaderInit, LoaderShape, FromMain
<1>7. Adding /\ AtNode /\ Requested /\ HasReason /\ WalkedOver
  BY <1>4 DEF LoaderInit, Adding, AtNode, Requested, Loading, HasReason, WalkedOver
<1>8. Needed /\ WellSoFar
  BY <1>4 DEF LoaderInit, Needed, WellSoFar
<1> QED
  BY <1>5, <1>6, <1>7, <1>8 DEF LoaderInv

LEMMA LoaderRests ==
  ASSUME LoaderInv, UNCHANGED loaderVars
  PROVE  LoaderInv'
<1>1. /\ UNCHANGED <<project, phase, arg, target, walkVars>>
      /\ UNCHANGED tableVars
  BY DEF loaderVars
<1>2. TableGood' /\ Known' = Known /\ Loaded' = Loaded
  BY <1>1, TableQuiet
<1>3. LoaderShape' /\ TableInv' /\ Adding'
  BY <1>1, <1>2 DEF LoaderInv, LoaderShape, FromMain, TableInv, Adding, walkVars, tableVars
<1>4. UsesOf(pair.key)' = UsesOf(pair.key) /\ Node' = Node
      /\ (NodeFinds(Node, target)' <=> NodeFinds(Node, target))
  BY <1>1 DEF UsesOf, Node, NodeFinds, Finds, Exists, walkVars
<1>5. AtNode' /\ Requested'
  BY <1>1, <1>2, <1>4 DEF LoaderInv, AtNode, Requested, Loading, FromMain, walkVars
<1>6. Needed' /\ HasReason'
  BY <1>1, <1>2, ProjectRests DEF LoaderInv, Needed, HasReason, walkVars
<1>7. WellSoFar'
  <2>1. CASE phase = "failed"
    BY <1>1, <2>1 DEF WellSoFar
  <2>2. CASE phase # "failed"
    BY <1>1, <1>2, <2>2, Quiet DEF walkVars
  <2> QED
    BY <2>1, <2>2
<1>8. WalkedOver'
  <2>1. P!LiveSlots(map)' = P!LiveSlots(map) /\ map' = map
    BY <1>1 DEF tableVars, P!LiveSlots, P!Live
  <2> QED
    BY <1>1, <1>2, <2>1, ProjectRests DEF LoaderInv, WalkedOver, walkVars
<1> QED
  BY <1>3, <1>5, <1>6, <1>7, <1>8 DEF LoaderInv

\* Every step keeps the invariant, and what was loaded.
LEMMA LoaderStep == LoaderInv /\ [LoaderNext]_loaderVars => LoaderInv' /\ Loaded \subseteq Loaded'
<1> SUFFICES ASSUME LoaderInv, [LoaderNext]_loaderVars
             PROVE  LoaderInv' /\ Loaded \subseteq Loaded'
  OBVIOUS
<1>1. CASE Main
  <2>1. UNCHANGED tableVars
    BY <1>1 DEF Main, LoadArgument, StartPreload
  <2> QED
    BY <1>1, <2>1, TableQuiet, LoadArgumentStep, StartPreloadStep DEF Main
<1>2. CASE Preload
  <2>1. UNCHANGED tableVars
    BY <1>2 DEF Preload, StartWalk, EndPreload, SkipEntry, OpenEntry, EndWalk
  <2> QED
    BY <1>2, <2>1, TableQuiet, StartWalkStep, EndPreloadStep, SkipEntryStep,
       OpenEntryStep, EndWalkStep DEF Preload
<1>3. CASE Uses
  <2>1. UNCHANGED tableVars
    BY <1>3 DEF Uses, SkipUse, FindUse, MissUse, CloseEntry
  <2> QED
    BY <1>3, <2>1, TableQuiet, SkipUseStep, FindUseStep, MissUseStep, CloseEntryStep DEF Uses
<1>4. CASE LoadFile
  BY <1>4, ReadFailsStep, AddFileStep, GrowTableStep, AddFailsStep, ParseFileStep DEF LoadFile
<1>5. CASE UNCHANGED loaderVars
  <2>1. UNCHANGED tableVars
    BY <1>5 DEF loaderVars
  <2> QED
    BY <1>5, <2>1, TableQuiet, LoaderRests
<1> QED
  BY <1>1, <1>2, <1>3, <1>4, <1>5 DEF LoaderNext

LEMMA LoaderAlways == LoaderSpec => []LoaderInv
<1>1. LoaderInv /\ [LoaderNext]_loaderVars => LoaderInv'
  BY LoaderStep
<1> QED
  BY <1>1, LoaderStarts, PTL DEF LoaderSpec

\* The files that LoadsEverything and ParsedFilesStay look for in the table.
ParsedAreLoaded == \A f \in Files : IsParsed(f) <=> f \in Loaded

LEMMA ParsedIsLoaded == LoaderInv => ParsedAreLoaded
<1> SUFFICES ASSUME LoaderInv, NEW f \in Files
             PROVE  IsParsed(f) <=> f \in Loaded
  BY DEF ParsedAreLoaded
<1> DEFINE m == P!Current
<1>1. P!IsMap(m) /\ P!UniqueIn(m)
  BY DEF LoaderInv, TableInv, TableGood, P!GoodInv, P!Good, P!UniqueInv, P!Current
<1>2. IsParsed(f) <=> \E i \in P!LiveSlots(m) : /\ m.entries[i].key = f
                                                /\ m.entries[i].value = "parsed"
  BY SameOperators DEF IsParsed
<1>3. Loaded = ParsedIn(PairsOf(m)) /\ ParsedIn(PairsOf(m)) \subseteq FilesIn(PairsOf(m))
  BY DEF Loaded, Stored, ParsedIn, FilesIn
<1> HIDE DEF m
<1> QED
  BY <1>1, <1>2, <1>3, LoadedSlots

\* When the loading is over, the needed files and their uses were dealt with.
LEMMA AllIsLoaded ==
  ASSUME LoaderInv, phase = "loaded"
  PROVE  /\ Reached = Loaded /\ Known = Loaded
         /\ analyzed = ReachedNodes
<1>1. /\ result /\ ~notFinished /\ arg = Len(project.args) + 1 /\ Len(project.args) \in Nat
      /\ project \in Projects
  BY ProjectFacts DEF LoaderInv, LoaderShape, FromMain
<1>2. \A f \in Loaded : NodesOf(f) \subseteq analyzed
  BY <1>1 DEF LoaderInv, WalkedOver
<1>3. /\ \A n \in 1 .. arg - 1 : project.args[n] \in Loaded
      /\ \A node \in analyzed : \E f \in Loaded : NodeFinds(node, f)
  BY <1>1 DEF LoaderInv, WellSoFar
<1>4. Loaded \subseteq Files
  BY DEF Loaded, ParsedIn
<1>5. Closed(Loaded)
  <2>1. \A n \in DOMAIN project.args : project.args[n] \in Loaded
    BY <1>1, <1>3, ProjectFacts
  <2>2. ASSUME NEW f \in Loaded, NEW n \in DOMAIN project.uses[f],
               NEW g \in Files, Finds(project.uses[f][n], g)
        PROVE  g \in Loaded
    <3> DEFINE node == <<f, n>>
    <3>1. node \in NodesOf(f)
      BY DEF NodesOf, UsesOf
    <3>2. PICK h \in Loaded : NodeFinds(node, h)
      BY <1>2, <1>3, <3>1
    <3>3. NodeFinds(node, g)
      BY <2>2 DEF NodeFinds
    <3> QED
      BY <1>1, <1>4, <3>1, <3>2, <3>3, NodeFindsOne
  <2> QED
    BY <2>1, <2>2 DEF Closed
<1>6. Reached = Loaded
  BY <1>1, <1>4, <1>5, ReachedFacts DEF LoaderInv, Needed
<1>7. analyzed = ReachedNodes
  BY <1>1, <1>2, <1>6, ReachedFacts DEF LoaderInv, Needed
<1>8. Known = Loaded
  BY DEF LoaderInv, Adding
<1> QED
  BY <1>6, <1>7, <1>8

\* When analyzer_preload_all_files reports success, exactly the files the program
\* needs are in the table, parsed, wherever the walk was when the table grew.
THEOREM LoadsAll == LoaderSpec => []LoadsEverything
<1>1. LoaderInv => LoadsEverything
  <2> SUFFICES ASSUME LoaderInv, phase = "loaded"
               PROVE  /\ Reached = {f \in Files : IsParsed(f)}
                      /\ Reached = Table!LiveKeys(map)
                      /\ analyzed = ReachedNodes
    BY DEF LoadsEverything
  <2>1. Reached = {f \in Files : IsParsed(f)}
    BY AllIsLoaded, ParsedIsLoaded DEF ParsedAreLoaded, Loaded, ParsedIn
  <2>2. Table!LiveKeys(map) = Known
    <3>1. P!IsMap(map) /\ Stored = PairsOf(map)
      BY DEF LoaderInv, TableInv, TableGood, P!GoodInv, P!Good, Stored, P!Current
    <3> QED
      BY <3>1, KeysOfPairs, SameOperators DEF Known
  <2> QED
    BY <2>1, <2>2, AllIsLoaded
<1> QED
  BY <1>1, LoaderAlways, PTL

\* Loading fails exactly for the programs with a file that is missing, empty,
\* wrong or asked for twice.
THEOREM FailuresHaveReasons == LoaderSpec => []FailsForAReason
<1>1. LoaderInv => FailsForAReason
  <2> SUFFICES ASSUME LoaderInv
               PROVE  FailsForAReason
    OBVIOUS
  <2>1. ASSUME phase = "loaded"
        PROVE  IsForest
    <3>1. /\ result /\ arg - 1 = Len(project.args)
          /\ DOMAIN project.args = 1 .. Len(project.args)
      BY <2>1, ProjectFacts DEF LoaderInv, LoaderShape, FromMain
    <3>2. /\ \A node \in analyzed : \E f \in Loaded : NodeFinds(node, f)
          /\ \A f \in Loaded : project.disk[f] = "fine" /\ One(ArgsFor(f), NodesFor(f))
      BY <2>1, <3>1 DEF LoaderInv, WellSoFar
    <3>3. Reached = Loaded /\ analyzed = ReachedNodes /\ Loaded \subseteq Files
      BY <2>1, AllIsLoaded DEF Loaded, ParsedIn
    <3>4. ASSUME NEW f \in Reached
          PROVE  Requests(f) = 1
      <4>1. ArgsFor(f) = {n \in DOMAIN project.args : project.args[n] = f}
        BY <3>1 DEF ArgsFor
      <4>2. NodesFor(f) = {node \in ReachedNodes : Finds(project.uses[node[1]][node[2]], f)}
        BY <3>3 DEF NodesFor, NodeFinds
      <4> QED
        BY <3>2, <3>3, <4>1, <4>2 DEF Requests, One
    <3> QED
      BY <3>2, <3>3, <3>4 DEF IsForest, NodeFinds
  <2>2. phase = "failed" => ~IsForest
    BY DEF LoaderInv, HasReason
  <2> QED
    BY <2>1, <2>2 DEF FailsForAReason
<1> QED
  BY <1>1, LoaderAlways, PTL

\* A file that was parsed keeps its roots under every load after it, half-way
\* through a rebuild of the table as well.
THEOREM ParsedStay == LoaderSpec => ParsedFilesStay
<1>1. LoaderInv' => ParsedAreLoaded'
  BY ParsedIsLoaded, PTL
<1>2. LoaderInv /\ LoaderInv' /\ [LoaderNext]_loaderVars => [\A f \in Files : IsParsed(f) => IsParsed(f)']_loaderVars
  <2> SUFFICES ASSUME LoaderInv, LoaderInv', [LoaderNext]_loaderVars, NEW f \in Files, IsParsed(f)
               PROVE  IsParsed(f)'
    OBVIOUS
  <2>1. f \in Loaded'
    BY LoaderStep, ParsedIsLoaded DEF ParsedAreLoaded
  <2> QED
    BY <1>1, <2>1 DEF ParsedAreLoaded
<1> QED
  BY <1>2, LoaderAlways, PTL DEF LoaderSpec, ParsedFilesStay
================================================================================
