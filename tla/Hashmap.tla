-------------------------------- MODULE Hashmap --------------------------------
(***************************************************************************)
(* hashmap_t (include/hashmap.h): the open-addressing, linear-probing table *)
(* that holds every scope, the loaded files, the symbol dependencies and    *)
(* the generated functions of the compiler.                                 *)
(*                                                                          *)
(* Every public operation is one action.  The table is rebuilt inside       *)
(* hashmap_add by re-adding the old entries one after the other; those      *)
(* re-adds are steps of their own (Reinsert), so that what holds half-way   *)
(* through a rebuild can be stated, and the add that caused the rebuild     *)
(* completes in FinishAdd.                                                  *)
(***************************************************************************)
EXTENDS Integers, FiniteSets

CONSTANTS
  Keys,           \* the values of KeyType
  Values,         \* the values of DataType
  ZeroKey,        \* the key ...
  ZeroValue,      \* ... and the value whose bytes are all zero
  Hash,           \* hash_func, a function from keys to numbers
  StandardSize,   \* STANDART_MAP_SIZE, the size of an implicit hashmap_create
  InitSizes,      \* the sizes given to an explicit hashmap_create
  MaxCapacity,    \* bound of the model: no rebuild beyond this capacity
  AllocMayFail,   \* may the allocation inside rebuild_map return NULL?
  AddAfterRemove  \* may hashmap_add be called on a table with tombstones?

ASSUME KeysAssumption == ZeroKey \in Keys /\ ZeroValue \in Values
ASSUME HashAssumption == Hash \in [Keys -> Nat]
ASSUME SizeAssumption ==
  /\ StandardSize \in Nat \ {0}
  /\ InitSizes \subseteq Nat \ {0}
ASSUME SwitchAssumption == AllocMayFail \in BOOLEAN /\ AddAfterRemove \in BOOLEAN

VARIABLES
  map,     \* *map: capacity, load and entries; capacity 0 is entries == NULL
  old,     \* old_map of a running rebuild_map
  cursor,  \* i of the loop in rebuild_map
  pending, \* key and value of the hashmap_add that is rebuilding
  pc,      \* "idle", or "rebuild" while the loop of rebuild_map runs
  res      \* the last completed call and what it returned

vars == <<map, old, cursor, pending, pc, res>>

--------------------------------------------------------------------------------
(* Entries and tables.                                                          *)

Entry == [key : Keys, value : Values, occupied : BOOLEAN, deleted : BOOLEAN]

ZeroEntry ==
  [key |-> ZeroKey, value |-> ZeroValue, occupied |-> FALSE, deleted |-> FALSE]

Live(e) == e.occupied /\ ~e.deleted

\* The table hashmap_create leaves behind: zeroed memory.
NewMap(size) ==
  [capacity |-> size, load |-> 0, entries |-> [i \in 0..size-1 |-> ZeroEntry]]

\* map = {}: the state before create_map_if_needed and after hashmap_delete.
NullMap == NewMap(0)

\* create_map_if_needed, at the head of get, add and remove.
Ensured(m) == IF m.capacity = 0 THEN NewMap(StandardSize) ELSE m

LiveSlots(m) == {i \in 0..m.capacity-1 : Live(m.entries[i])}

LiveKeys(m) == {m.entries[i].key : i \in LiveSlots(m)}

HasTombstone(m) == \E i \in 0..m.capacity-1 : m.entries[i].deleted

\* map->load > map->capacity * MAX_HASHMAP_LOAD
Overloaded(m) == 4 * m.load > 3 * m.capacity

--------------------------------------------------------------------------------
(* Probing.                                                                     *)

\* The slot visited at this offset of the probe for k.
SlotAt(m, k, offset) == (Hash[k] + offset) % m.capacity

\* Mutant: a tombstone is not skipped.
LookupStops_Tombstone(m, k, offset) ==
  LET e == m.entries[SlotAt(m, k, offset)] IN ~e.occupied \/ e.key = k

\* get and remove walk over tombstones and stop at a slot never used or at k.
LookupStops(m, k, offset) ==
  LET e == m.entries[SlotAt(m, k, offset)]
  IN  ~e.deleted /\ (~e.occupied \/ e.key = k)

\* Mutant: the keys on the way are not compared.
AddStops_NoCompare(m, k, offset) == ~Live(m.entries[SlotAt(m, k, offset)])

\* add stops at the first slot that is not live, or at k.
AddStops(m, k, offset) ==
  LET e == m.entries[SlotAt(m, k, offset)]
  IN  ~Live(e) \/ e.key = k

\* The lookup for k ends at a live slot i.
Finds(m, k, i) ==
  \E offset \in 0..m.capacity-1 :
    /\ i = SlotAt(m, k, offset)
    /\ LookupStops(m, k, offset)
    /\ \A before \in 0..offset-1 : ~LookupStops(m, k, before)
    /\ m.entries[i].occupied

\* The lookup for k runs into an unused slot or off the end of the table.
Misses(m, k) == \A i \in 0..m.capacity-1 : ~Finds(m, k, i)

\* Slot i is where an add of k ends its probe.
AddLandsAt(m, k, i) ==
  \E offset \in 0..m.capacity-1 :
    /\ i = SlotAt(m, k, offset)
    /\ AddStops(m, k, offset)
    /\ \A before \in 0..offset-1 : ~AddStops(m, k, before)

\* Every slot is live and holds another key.
NoRoom(m, k) == \A offset \in 0..m.capacity-1 : ~AddStops(m, k, offset)

\* Mutant: load is not incremented.
Filled_NoCount(m, k, v, i) ==
  [capacity |-> m.capacity,
   load     |-> m.load,
   entries  |-> [m.entries EXCEPT ![i] =
       [key |-> k, value |-> v, occupied |-> TRUE, deleted |-> FALSE]]]

\* The table after the add of <<k, v>> took slot i.
Filled(m, k, v, i) ==
  [capacity |-> m.capacity,
   load     |-> m.load + 1,
   entries  |-> [m.entries EXCEPT ![i] =
       [key |-> k, value |-> v, occupied |-> TRUE, deleted |-> FALSE]]]

\* Mutant: the slot becomes unused instead of a tombstone.
Buried_Unused(m, i) ==
  [capacity |-> m.capacity,
   load     |-> m.load - 1,
   entries  |-> [m.entries EXCEPT ![i] = ZeroEntry]]

\* Mutant: deleted is not set.
Buried_StillLive(m, i) ==
  [capacity |-> m.capacity, load |-> m.load - 1, entries |-> m.entries]

\* The table after the entry in slot i was removed: it becomes a tombstone,
\* which stays occupied.
Buried(m, i) ==
  LET e == m.entries[i]
  IN  [capacity |-> m.capacity,
       load     |-> m.load - 1,
       entries  |-> [m.entries EXCEPT ![i] =
           [key |-> e.key, value |-> e.value,
            occupied |-> e.occupied, deleted |-> TRUE]]]

\* The probe loop of hashmap_add on m, leaving after and returning ok.
Inserts(m, k, v, after, ok) ==
  \/ \E i \in 0..m.capacity-1 :
       /\ AddLandsAt(m, k, i)
       /\ ~Live(m.entries[i])
       /\ after = Filled(m, k, v, i)
       /\ ok = TRUE
  \/ /\ \/ \E i \in 0..m.capacity-1 : AddLandsAt(m, k, i) /\ Live(m.entries[i])
        \/ NoRoom(m, k)
     /\ after = m
     /\ ok = FALSE

--------------------------------------------------------------------------------
(* Actions.                                                                     *)

Result(op, k, ok, v) == [op |-> op, key |-> k, ok |-> ok, value |-> v]

Idle == pc = "idle"

NotRebuilding == UNCHANGED <<old, cursor, pending, pc>>

\* hashmap_create on a map that was never created, or was deleted.
Create(size) ==
  /\ Idle
  /\ map.capacity = 0
  /\ map' = NewMap(size)
  /\ res' = Result("create", ZeroKey, TRUE, ZeroValue)
  /\ NotRebuilding

\* hashmap_add without a rebuild: below the load limit, or rebuild_map could
\* not allocate, restored the table and the error was only logged.
AddDirectly(k, v) ==
  /\ Idle
  /\ AddAfterRemove \/ ~HasTombstone(map)
  /\ LET m == Ensured(map)
     IN  /\ ~Overloaded(m) \/ AllocMayFail
         /\ \E ok \in BOOLEAN : /\ Inserts(m, k, v, map', ok)
                                /\ res' = Result("add", k, ok, ZeroValue)
  /\ NotRebuilding

\* Mutant: the new table is as large as the old one.
StartRebuild_SameSize(k, v) ==
  /\ Idle
  /\ AddAfterRemove \/ ~HasTombstone(map)
  /\ map.capacity # 0
  /\ Overloaded(map)
  /\ map' = NewMap(map.capacity)
  /\ old' = map
  /\ cursor' = 0
  /\ pending' = [key |-> k, value |-> v]
  /\ pc' = "rebuild"
  /\ UNCHANGED res

\* hashmap_add that enters rebuild_map: the new table is twice as large.
StartRebuild(k, v) ==
  /\ Idle
  /\ AddAfterRemove \/ ~HasTombstone(map)
  /\ map.capacity # 0
  /\ Overloaded(map)
  /\ map.capacity * 2 <= MaxCapacity
  /\ map' = NewMap(map.capacity * 2)
  /\ old' = map
  /\ cursor' = 0
  /\ pending' = [key |-> k, value |-> v]
  /\ pc' = "rebuild"
  /\ UNCHANGED res

\* Mutant: the last entry of the old table is forgotten.
Reinsert_OneShort ==
  /\ pc = "rebuild"
  /\ cursor < old.capacity
  /\ LET e == old.entries[cursor]
     IN  IF Live(e) /\ cursor + 1 < old.capacity
           THEN \E ok \in BOOLEAN : Inserts(map, e.key, e.value, map', ok)
           ELSE UNCHANGED map
  /\ cursor' = cursor + 1
  /\ UNCHANGED <<old, pending, pc, res>>

\* One round of the loop in rebuild_map; the result of its hashmap_add is
\* not looked at.
Reinsert ==
  /\ pc = "rebuild"
  /\ cursor < old.capacity
  /\ LET e == old.entries[cursor]
     IN  IF Live(e)
           THEN \E ok \in BOOLEAN : Inserts(map, e.key, e.value, map', ok)
           ELSE UNCHANGED map
  /\ cursor' = cursor + 1
  /\ UNCHANGED <<old, pending, pc, res>>

\* The loop is done, the old table is freed, and the add goes on.
FinishAdd ==
  /\ pc = "rebuild"
  /\ cursor = old.capacity
  /\ \E ok \in BOOLEAN :
       /\ Inserts(map, pending.key, pending.value, map', ok)
       /\ res' = Result("add", pending.key, ok, ZeroValue)
  /\ old' = NullMap
  /\ cursor' = 0
  /\ pc' = "idle"
  /\ UNCHANGED pending

Get(k) ==
  /\ Idle
  /\ map' = Ensured(map)
  /\ \/ \E i \in 0..map'.capacity-1 :
          /\ Finds(map', k, i)
          /\ res' = Result("get", k, TRUE, map'.entries[i].value)
     \/ /\ Misses(map', k)
        /\ res' = Result("get", k, FALSE, ZeroValue)
  /\ NotRebuilding

Remove(k) ==
  /\ Idle
  /\ LET m == Ensured(map)
     IN  \/ \E i \in 0..m.capacity-1 :
              /\ Finds(m, k, i)
              /\ map' = Buried(m, i)
              /\ res' = Result("remove", k, TRUE, ZeroValue)
         \/ /\ Misses(m, k)
            /\ map' = m
            /\ res' = Result("remove", k, FALSE, ZeroValue)
  /\ NotRebuilding

\* hashmap_clear returns early on a map without entries.
Clear ==
  /\ Idle
  /\ map' = NewMap(map.capacity)
  /\ res' = Result("clear", ZeroKey, TRUE, ZeroValue)
  /\ NotRebuilding

Delete ==
  /\ Idle
  /\ map' = NullMap
  /\ res' = Result("delete", ZeroKey, TRUE, ZeroValue)
  /\ NotRebuilding

Init ==
  /\ map = NullMap
  /\ old = NullMap
  /\ cursor = 0
  /\ pending = [key |-> ZeroKey, value |-> ZeroValue]
  /\ pc = "idle"
  /\ res = Result("create", ZeroKey, TRUE, ZeroValue)

Rebuild == Reinsert \/ FinishAdd

Call ==
  \/ \E size \in InitSizes : Create(size)
  \/ \E k \in Keys, v \in Values : AddDirectly(k, v) \/ StartRebuild(k, v)
  \/ \E k \in Keys : Get(k) \/ Remove(k)
  \/ Clear
  \/ Delete

Next == Call \/ Rebuild

Spec == Init /\ [][Next]_vars

--------------------------------------------------------------------------------
(* Properties.                                                                  *)

IsMap(m) ==
  /\ m = [capacity |-> m.capacity, load |-> m.load, entries |-> m.entries]
  /\ m.capacity \in Nat
  /\ m.load \in Nat
  /\ m.entries \in [0..m.capacity-1 -> Entry]

\* Types of the variables, and the cursor of a rebuild within the old table.
TypeOK ==
  /\ IsMap(map)
  /\ IsMap(old)
  /\ cursor \in 0..old.capacity
  /\ pending \in [key : Keys, value : Values]
  /\ pc \in {"idle", "rebuild"}
  /\ res \in [op : {"create", "add", "get", "remove", "clear", "delete"},
              key : Keys, ok : BOOLEAN, value : Values]

LoadExactIn(m) == m.load = Cardinality(LiveSlots(m))

\* load, which decides when to grow and which is decremented without a check,
\* is exactly the number of live entries, also half-way through a rebuild.
LoadExact == LoadExactIn(map) /\ LoadExactIn(old)

ReachableIn(m) ==
  \A i \in LiveSlots(m) :
    \E offset \in 0..m.capacity-1 :
      /\ i = SlotAt(m, m.entries[i].key, offset)
      /\ \A before \in 0..offset-1 :
            m.entries[SlotAt(m, m.entries[i].key, before)].occupied

\* No slot that was never used lies between the home of a live key and the
\* slot it is stored in, so no lookup gives up before reaching it.
Reachable == ReachableIn(map) /\ ReachableIn(old)

\* A live key is found by hashmap_get, and only a live key is, whatever was
\* added, removed and rebuilt before.
LookupFindsLiveKeys ==
  \A k \in Keys : (k \in LiveKeys(map)) <=> ~Misses(map, k)

UniqueIn(m) ==
  \A i, j \in LiveSlots(m) : m.entries[i].key = m.entries[j].key => i = j

\* A key is stored once.  True as long as nothing is added to a table with
\* tombstones: the probe of hashmap_add stops at the first of them.
UniqueKeys == UniqueIn(map) /\ UniqueIn(old)

\* While rebuild_map re-adds entries, the nested hashmap_add never finds the
\* new table overloaded (which would start a rebuild inside the rebuild) nor
\* full (which would lose an entry without a word).
RebuildHasRoom ==
  pc = "rebuild" => /\ ~Overloaded(map)
                    /\ \A k \in Keys : ~NoRoom(map, k)

Pairs(m, upto) ==
  {<<m.entries[i].key, m.entries[i].value>> :
     i \in {j \in LiveSlots(m) : j < upto}}

\* A rebuild loses, invents and changes nothing: at every round the new table
\* holds exactly the pairs of the part of the old table already walked over.
RebuildKeepsPairs ==
  pc = "rebuild" => Pairs(map, map.capacity) = Pairs(old, cursor)

\* A removed key is absent: the tests of hashmap.cpp assert that map[key] is
\* NULL after a successful hashmap_remove of that key.
RemoveMakesAbsent ==
  [][\A k \in Keys : Remove(k) /\ res'.ok => k \notin LiveKeys(map')]_vars

--------------------------------------------------------------------------------
(* The table implements Dictionary: its contents are those of the table, or of  *)
(* the old table while a rebuild is running.                                    *)

Current == IF pc = "rebuild" THEN old ELSE map

Contents(m) ==
  [k \in LiveKeys(m) |->
     m.entries[CHOOSE i \in LiveSlots(m) : m.entries[i].key = k].value]

Dict == INSTANCE Dictionary WITH dict <- Contents(Current)

\* Every call behaves as the abstract map says, with the same results.
ImplementsDictionary == Dict!Spec
================================================================================
