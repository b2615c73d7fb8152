----------------------------- MODULE HashmapProofs -----------------------------
(***************************************************************************)
(* What holds of Hashmap for every set of keys, every hash function, every  *)
(* size and every order of calls.                                           *)
(*                                                                          *)
(* The argument is made once per table: Good says what is true of a single  *)
(* table, each way the code changes a table preserves it, and the actions   *)
(* only combine those.                                                      *)
(***************************************************************************)
EXTENDS Hashmap, FiniteSetTheorems, WellFoundedInduction, TLAPS

\* What holds of the table and of the old table of a rebuild at every step.
Good(m) == IsMap(m) /\ LoadExactIn(m) /\ ReachableIn(m)

\* The inductive invariant.  While a rebuild runs the new table has slots.
GoodInv ==
  /\ TypeOK
  /\ Good(map)
  /\ Good(old)
  /\ pc = "rebuild" => map.capacity # 0

--------------------------------------------------------------------------------
(* A single table.                                                              *)

\* The probe of hashmap_get, add and remove stays inside the entries.
LEMMA SlotInRange ==
  ASSUME NEW m, IsMap(m), m.capacity # 0, NEW k \in Keys, NEW offset \in Nat
  PROVE  SlotAt(m, k, offset) \in 0..m.capacity-1
<1>1. Hash[k] \in Nat
  BY HashAssumption
<1>2. m.capacity \in Nat \ {0}
  BY DEF IsMap
<1> DEFINE n == Hash[k] + offset
<1>3. n \in Nat
  BY <1>1
<1> HIDE DEF n
<1>4. n % m.capacity \in 0..m.capacity-1
  BY <1>2, <1>3
<1> QED
  BY <1>4 DEF SlotAt, n

\* hashmap_create leaves a good, empty table.
LEMMA NewMapIsGood ==
  ASSUME NEW size \in Nat
  PROVE  Good(NewMap(size)) /\ LiveSlots(NewMap(size)) = {}
<1>1. IsMap(NewMap(size))
  BY KeysAssumption DEF IsMap, NewMap, ZeroEntry, Entry
<1>2. LiveSlots(NewMap(size)) = {}
  BY DEF LiveSlots, NewMap, ZeroEntry, Live
<1>3. LoadExactIn(NewMap(size))
  BY <1>2, FS_EmptySet DEF LoadExactIn, NewMap
<1>4. ReachableIn(NewMap(size))
  BY <1>2 DEF ReachableIn
<1> QED
  BY <1>1, <1>2, <1>3, <1>4 DEF Good

\* create_map_if_needed makes a table with slots and keeps the live ones.
LEMMA EnsuredIsGood ==
  ASSUME NEW m, Good(m)
  PROVE  /\ Good(Ensured(m))
         /\ Ensured(m).capacity # 0
<1>1. CASE m.capacity = 0
  <2>1. StandardSize \in Nat /\ StandardSize # 0
    BY SizeAssumption
  <2> QED
    BY <1>1, <2>1, NewMapIsGood DEF Ensured, NewMap
<1>2. CASE m.capacity # 0
  BY <1>2 DEF Ensured
<1> QED
  BY <1>1, <1>2

\* The live slots of a table are finitely many.
LEMMA LiveSlotsFinite ==
  ASSUME NEW m, IsMap(m)
  PROVE  /\ IsFiniteSet(LiveSlots(m))
         /\ Cardinality(LiveSlots(m)) \in Nat
<1>1. m.capacity - 1 \in Int
  BY DEF IsMap
<1>2. IsFiniteSet(0..m.capacity-1)
  BY <1>1, FS_Interval
<1>3. IsFiniteSet(LiveSlots(m))
  BY <1>2, FS_Subset DEF LiveSlots
<1> QED
  BY <1>3, FS_CardinalityType

\* Writing a slot that is not live makes that slot live and no other.
LEMMA FilledSlots ==
  ASSUME NEW m, IsMap(m), NEW k \in Keys, NEW v \in Values,
         NEW i \in 0..m.capacity-1
  PROVE  /\ IsMap(Filled(m, k, v, i))
         /\ LiveSlots(Filled(m, k, v, i)) = LiveSlots(m) \cup {i}
<1> DEFINE e == [key |-> k, value |-> v, occupied |-> TRUE, deleted |-> FALSE]
<1>1. e \in Entry /\ Live(e)
  BY DEF Entry, Live
<1>2. Filled(m, k, v, i) = [capacity |-> m.capacity, load |-> m.load + 1,
                            entries |-> [m.entries EXCEPT ![i] = e]]
  BY DEF Filled
<1> HIDE DEF e
<1>3. [m.entries EXCEPT ![i] = e] \in [0..m.capacity-1 -> Entry]
  BY <1>1 DEF IsMap
<1>4. IsMap(Filled(m, k, v, i))
  BY <1>2, <1>3 DEF IsMap
<1>5. ASSUME NEW j \in 0..m.capacity-1
      PROVE  Filled(m, k, v, i).entries[j] = IF j = i THEN e ELSE m.entries[j]
  BY <1>2 DEF IsMap
<1>6. LiveSlots(Filled(m, k, v, i)) = LiveSlots(m) \cup {i}
  BY <1>1, <1>2, <1>5 DEF LiveSlots
<1> QED
  BY <1>4, <1>6

\* An add that took a slot leaves a good table: load still counts the live
\* slots, and the probe that led to the slot leads every lookup there.
LEMMA FilledIsGood ==
  ASSUME NEW m, Good(m), m.capacity # 0,
         NEW k \in Keys, NEW v \in Values, NEW i \in 0..m.capacity-1,
         AddLandsAt(m, k, i), ~Live(m.entries[i])
  PROVE  Good(Filled(m, k, v, i))
<1> DEFINE n == Filled(m, k, v, i)
<1>1. /\ IsMap(n)
      /\ LiveSlots(n) = LiveSlots(m) \cup {i}
      /\ n.capacity = m.capacity
      /\ n.load = m.load + 1
  BY FilledSlots DEF Good, Filled
<1>2. i \notin LiveSlots(m)
  BY DEF LiveSlots
<1>3. LoadExactIn(n)
  <2>1. Cardinality(LiveSlots(m) \cup {i}) = Cardinality(LiveSlots(m)) + 1
    BY <1>2, LiveSlotsFinite, FS_AddElement DEF Good
  <2> QED
    BY <1>1, <2>1 DEF LoadExactIn, Good
<1>4. n.entries[i].key = k /\ n.entries[i].occupied
  BY DEF Filled, Good, IsMap
<1>5. ASSUME NEW j \in 0..m.capacity-1, j # i
      PROVE  n.entries[j] = m.entries[j]
  BY <1>5 DEF Filled, Good, IsMap
<1>6. ASSUME NEW j \in 0..m.capacity-1, m.entries[j].occupied
      PROVE  n.entries[j].occupied
  BY <1>4, <1>5, <1>6
<1>7. ASSUME NEW x, NEW offset
      PROVE  SlotAt(n, x, offset) = SlotAt(m, x, offset)
  BY <1>1 DEF SlotAt
<1> HIDE DEF n
<1>8. ReachableIn(n)
  <2> SUFFICES ASSUME NEW j \in LiveSlots(n)
               PROVE  \E offset \in 0..n.capacity-1 :
                        /\ j = SlotAt(n, n.entries[j].key, offset)
                        /\ \A before \in 0..offset-1 :
                             n.entries[SlotAt(n, n.entries[j].key, before)].occupied
    BY DEF ReachableIn
  <2>1. CASE j = i
    <3>1. PICK offset \in 0..m.capacity-1 :
            /\ i = SlotAt(m, k, offset)
            /\ \A before \in 0..offset-1 : ~AddStops(m, k, before)
      BY DEF AddLandsAt
    <3>2. ASSUME NEW before \in 0..offset-1
          PROVE  n.entries[SlotAt(n, k, before)].occupied
      <4>1. SlotAt(m, k, before) \in 0..m.capacity-1
        BY SlotInRange DEF Good
      <4>2. m.entries[SlotAt(m, k, before)].occupied
        BY <3>1 DEF AddStops, Live
      <4> QED
        BY <4>1, <4>2, <1>6, <1>7
    <3> QED
      BY <2>1, <3>1, <3>2, <1>1, <1>4, <1>7
  <2>2. CASE j # i
    <3>1. j \in LiveSlots(m) /\ j \in 0..m.capacity-1
      BY <2>2, <1>1 DEF LiveSlots
    <3> DEFINE x == m.entries[j].key
    <3>2. n.entries[j].key = x /\ x \in Keys
      BY <2>2, <3>1, <1>5 DEF Good, IsMap, Entry
    <3>3. PICK offset \in 0..m.capacity-1 :
            /\ j = SlotAt(m, x, offset)
            /\ \A before \in 0..offset-1 : m.entries[SlotAt(m, x, before)].occupied
      BY <3>1 DEF Good, ReachableIn
    <3> HIDE DEF x
    <3>4. ASSUME NEW before \in 0..offset-1
          PROVE  n.entries[SlotAt(n, x, before)].occupied
      <4>1. SlotAt(m, x, before) \in 0..m.capacity-1
        BY <3>2, SlotInRange DEF Good
      <4> QED
        BY <4>1, <3>3, <1>6, <1>7
    <3> QED
      BY <3>2, <3>3, <3>4, <1>1, <1>7
  <2> QED
    BY <2>1, <2>2
<1> QED
  BY <1>1, <1>3, <1>8 DEF Good, n

\* Whatever the probe loop of hashmap_add does, the table stays good.
LEMMA InsertsKeepsGood ==
  ASSUME NEW m, Good(m), m.capacity # 0,
         NEW k \in Keys, NEW v \in Values, NEW after, NEW ok,
         Inserts(m, k, v, after, ok)
  PROVE  Good(after) /\ after.capacity = m.capacity
<1>1. CASE after = m
  BY <1>1
<1>2. CASE \E i \in 0..m.capacity-1 : /\ AddLandsAt(m, k, i)
                                      /\ ~Live(m.entries[i])
                                      /\ after = Filled(m, k, v, i)
  <2>1. PICK i \in 0..m.capacity-1 : /\ AddLandsAt(m, k, i)
                                     /\ ~Live(m.entries[i])
                                     /\ after = Filled(m, k, v, i)
    BY <1>2
  <2> QED
    BY <2>1, FilledIsGood DEF Filled
<1> QED
  BY <1>1, <1>2 DEF Inserts

\* A tombstone leaves a good table: load counts one slot less, and the slot,
\* still occupied, hides nothing behind it.
LEMMA BuriedIsGood ==
  ASSUME NEW m, Good(m), NEW i \in LiveSlots(m)
  PROVE  Good(Buried(m, i)) /\ LiveSlots(Buried(m, i)) = LiveSlots(m) \ {i}
<1> DEFINE n == Buried(m, i)
           e == [key |-> m.entries[i].key, value |-> m.entries[i].value,
                 occupied |-> m.entries[i].occupied, deleted |-> TRUE]
<1>1. /\ i \in 0..m.capacity-1
      /\ m.entries[i] \in Entry
      /\ m.entries[i].occupied
  BY DEF LiveSlots, Live, Good, IsMap
<1>2. e \in Entry /\ ~Live(e) /\ e.occupied
  BY <1>1 DEF Entry, Live
<1>3. n = [capacity |-> m.capacity, load |-> m.load - 1,
           entries |-> [m.entries EXCEPT ![i] = e]]
  BY DEF Buried
<1> HIDE DEF e, n
<1>4. /\ n.entries \in [0..m.capacity-1 -> Entry]
      /\ n.entries[i] = e
      /\ \A j \in 0..m.capacity-1 : j # i => n.entries[j] = m.entries[j]
      /\ n.capacity = m.capacity
      /\ n.load = m.load - 1
  BY <1>1, <1>2, <1>3 DEF Good, IsMap
<1>5. LiveSlots(n) = LiveSlots(m) \ {i}
  BY <1>2, <1>4 DEF LiveSlots
<1>6. Cardinality(LiveSlots(n)) = Cardinality(LiveSlots(m)) - 1
  BY <1>5, LiveSlotsFinite, FS_RemoveElement DEF Good
<1>7. LoadExactIn(n) /\ n.load \in Nat
  <2>1. /\ Cardinality(LiveSlots(n)) = m.load - 1
    BY <1>6 DEF Good, LoadExactIn
  <2>2. IsFiniteSet(LiveSlots(n))
    BY <1>5, LiveSlotsFinite, FS_RemoveElement DEF Good
  <2>3. Cardinality(LiveSlots(n)) \in Nat
    BY <2>2, FS_CardinalityType
  <2> QED
    BY <1>4, <2>1, <2>3 DEF LoadExactIn
<1>8. IsMap(n)
  BY <1>3, <1>4, <1>7 DEF IsMap, Good
<1>9. ASSUME NEW x, NEW offset
      PROVE  SlotAt(n, x, offset) = SlotAt(m, x, offset)
  BY <1>4 DEF SlotAt
<1>10. ReachableIn(n)
  <2> SUFFICES ASSUME NEW j \in LiveSlots(n)
               PROVE  \E offset \in 0..n.capacity-1 :
                        /\ j = SlotAt(n, n.entries[j].key, offset)
                        /\ \A before \in 0..offset-1 :
                             n.entries[SlotAt(n, n.entries[j].key, before)].occupied
    BY DEF ReachableIn
  <2> DEFINE x == n.entries[j].key
  <2>1. /\ j \in LiveSlots(m)
        /\ j \in 0..m.capacity-1
        /\ m.entries[j] = n.entries[j]
    BY <1>4, <1>5 DEF LiveSlots
  <2>2. x = m.entries[j].key /\ x \in Keys
    BY <2>1 DEF Good, IsMap, Entry
  <2>3. PICK offset \in 0..m.capacity-1 :
          /\ j = SlotAt(m, m.entries[j].key, offset)
          /\ \A before \in 0..offset-1 :
               m.entries[SlotAt(m, m.entries[j].key, before)].occupied
    BY <2>1 DEF Good, ReachableIn
  <2> HIDE DEF x
  <2>4. ASSUME NEW before \in 0..offset-1
        PROVE  n.entries[SlotAt(n, x, before)].occupied
    <3>1. SlotAt(m, x, before) \in 0..m.capacity-1
      BY <2>2, SlotInRange DEF Good
    <3> QED
      BY <3>1, <2>2, <2>3, <1>2, <1>4, <1>9
  <2> QED
    BY <2>2, <2>3, <2>4, <1>4, <1>9 DEF x
<1> QED
  BY <1>5, <1>7, <1>8, <1>10 DEF Good, n

\* A non-empty set of numbers has a least element.
LEMMA LeastNumber ==
  ASSUME NEW T, T \subseteq Nat, T # {}
  PROVE  \E x \in T : \A y \in T : x <= y
<1> DEFINE R == OpToRel(<, Nat)
<1>1. IsWellFoundedOn(R, Nat)
  BY NatLessThanWellFounded, Zenon
<1>2. \A x, y \in Nat : <<y, x>> \in R <=> y < x
  BY DEF OpToRel
<1> HIDE DEF R
<1>3. \E x \in T : \A y \in T : ~(<<y, x>> \in R)
  BY <1>1, WFMin, Zenon
<1>4. PICK x \in T : \A y \in T : ~(<<y, x>> \in R)
  BY <1>3
<1>5. ASSUME NEW y \in T
      PROVE  x <= y
  <2>1. ~(y < x) /\ x \in Nat /\ y \in Nat
    BY <1>2, <1>4
  <2> QED
    BY <2>1
<1> QED
  BY <1>5

\* In a good table the lookup succeeds exactly for the live keys, and the slot
\* it ends at is live and holds the key.
LEMMA LookupIsExact ==
  ASSUME NEW m, Good(m), NEW k \in Keys
  PROVE  /\ k \in LiveKeys(m) <=> ~Misses(m, k)
         /\ \A i \in 0..m.capacity-1 :
              Finds(m, k, i) => i \in LiveSlots(m) /\ m.entries[i].key = k
<1>1. ASSUME NEW i \in 0..m.capacity-1, Finds(m, k, i)
      PROVE  i \in LiveSlots(m) /\ m.entries[i].key = k
  BY <1>1 DEF Finds, LookupStops, LiveSlots, Live
<1>2. ASSUME k \in LiveKeys(m)
      PROVE  ~Misses(m, k)
  <2>1. PICK i \in LiveSlots(m) : m.entries[i].key = k
    BY <1>2 DEF LiveKeys
  <2>2. PICK offset \in 0..m.capacity-1 :
          /\ i = SlotAt(m, k, offset)
          /\ \A before \in 0..offset-1 : m.entries[SlotAt(m, k, before)].occupied
    BY <2>1 DEF Good, ReachableIn
  <2> DEFINE T == {p \in 0..m.capacity-1 : LookupStops(m, k, p)}
  <2>3. offset \in T
    BY <2>1, <2>2 DEF LookupStops, LiveSlots, Live
  <2>4. PICK p \in T : \A q \in T : p <= q
    <3>1. m.capacity \in Nat
      BY DEF Good, IsMap
    <3>2. T \subseteq Nat /\ T # {}
      BY <2>3, <3>1
    <3> QED
      BY <3>2, LeastNumber
  <2>5. /\ p \in 0..m.capacity-1
        /\ LookupStops(m, k, p)
        /\ p <= offset
    BY <2>3, <2>4
  <2>6. \A q \in 0..p-1 : ~LookupStops(m, k, q)
    <3> SUFFICES ASSUME NEW q \in 0..p-1, LookupStops(m, k, q)
                 PROVE  FALSE
      OBVIOUS
    <3>1. q \in 0..m.capacity-1 /\ q < p
      BY <2>5 DEF Good, IsMap
    <3>2. q \in T
      BY <3>1
    <3>3. p <= q
      BY <2>4, <3>2
    <3> QED
      BY <3>1, <3>3, <2>5
  <2>7. m.entries[SlotAt(m, k, p)].occupied
    <3>1. CASE p = offset
      BY <3>1, <2>1, <2>2 DEF LiveSlots, Live
    <3>2. CASE p # offset
      BY <3>2, <2>2, <2>5
    <3> QED
      BY <3>1, <3>2
  <2>8. SlotAt(m, k, p) \in 0..m.capacity-1
    <3>1. m.capacity # 0 /\ p \in Nat
      BY <2>5 DEF Good, IsMap
    <3> QED
      BY <3>1, SlotInRange DEF Good
  <2> QED
    BY <2>5, <2>6, <2>7, <2>8 DEF Misses, Finds
<1>3. ASSUME ~Misses(m, k)
      PROVE  k \in LiveKeys(m)
  BY <1>1, <1>3 DEF Misses, LiveKeys
<1> QED
  BY <1>1, <1>2, <1>3

\* Two numbers below c that differ by a multiple of c are equal.
LEMMA SameRemainder ==
  ASSUME NEW c \in Nat \ {0}, NEW i \in 0..c-1, NEW j \in 0..c-1,
         NEW p \in Int, NEW q \in Int, c * p + i = c * q + j
  PROVE  i = j
<1>1. CASE p = q
  BY <1>1
<1>2. CASE p < q
  <2>1. c * p + c <= c * q
    <3>1. c * (p + 1) <= c * q
      BY <1>2
    <3> QED
      BY <3>1
  <2> QED
    BY <2>1
<1>3. CASE q < p
  <2>1. c * q + c <= c * p
    <3>1. c * (q + 1) <= c * p
      BY <1>3
    <3> QED
      BY <3>1
  <2> QED
    BY <2>1
<1> QED
  BY <1>1, <1>2, <1>3

\* Linear probing visits every slot.
LEMMA ProbeVisitsAll ==
  ASSUME NEW m, IsMap(m), NEW k \in Keys, NEW i \in 0..m.capacity-1
  PROVE  \E offset \in 0..m.capacity-1 : SlotAt(m, k, offset) = i
<1> DEFINE c == m.capacity
           h == Hash[k]
           r == h % c
           q == h \div c
           offset == IF r <= i THEN i - r ELSE i - r + c
<1>1. c \in Nat \ {0} /\ h \in Nat
  BY HashAssumption DEF IsMap
<1> HIDE DEF c, h
<1>2. r \in 0..c-1 /\ q \in Int /\ h = c * q + r
  BY <1>1
<1> HIDE DEF r, q
<1>3. i \in 0..c-1
  BY DEF c
<1>4. offset \in 0..c-1
  BY <1>1, <1>2, <1>3
<1>5. PICK p \in Int : h + offset = c * p + i
  <2>1. CASE r <= i
    BY <2>1, <1>1, <1>2, <1>3
  <2>2. CASE ~(r <= i)
    <3>1. h + offset = c * (q + 1) + i
      BY <2>2, <1>1, <1>2, <1>3
    <3>2. q + 1 \in Int
      BY <1>2
    <3> QED
      BY <3>1, <3>2
  <2> QED
    BY <2>1, <2>2
<1> DEFINE n == h + offset
<1>6. n \in Nat
  BY <1>1, <1>4
<1> HIDE DEF offset
<1>7. n = c * p + i
  BY <1>5
<1> HIDE DEF n
<1>8. /\ n % c \in 0..c-1
      /\ n \div c \in Int
      /\ n = c * (n \div c) + (n % c)
  BY <1>1, <1>6
<1>9. n % c = i
  <2> DEFINE d == n \div c
             j == n % c
  <2>1. d \in Int /\ j \in 0..c-1 /\ c * d + j = c * p + i
    BY <1>7, <1>8
  <2> HIDE DEF d, j
  <2>2. j = i
    BY <1>1, <1>3, <1>5, <2>1, SameRemainder
  <2> QED
    BY <2>2 DEF j
<1> QED
  BY <1>4, <1>9 DEF SlotAt, c, h, n

\* A table with fewer live entries than slots has room for every key.
LEMMA RoomLeft ==
  ASSUME NEW m, Good(m), m.load < m.capacity, NEW k \in Keys
  PROVE  ~NoRoom(m, k)
<1>1. m.capacity \in Nat /\ m.load \in Nat
  BY DEF Good, IsMap
<1>2. LiveSlots(m) # 0..m.capacity-1
  <2>1. Cardinality(0..m.capacity-1) = m.capacity
    <3>1. m.capacity-1 \in Int /\ ~(0 > m.capacity-1) /\ m.capacity-1-0+1 = m.capacity
      BY <1>1
    <3> QED
      BY <3>1, FS_Interval
  <2> QED
    BY <1>1, <2>1 DEF Good, LoadExactIn
<1>3. PICK i \in 0..m.capacity-1 : ~Live(m.entries[i])
  BY <1>2 DEF LiveSlots
<1>4. PICK offset \in 0..m.capacity-1 : SlotAt(m, k, offset) = i
  BY ProbeVisitsAll DEF Good
<1> QED
  BY <1>3, <1>4 DEF NoRoom, AddStops

--------------------------------------------------------------------------------
(* Every call keeps both tables good.                                           *)

LEMMA GoodInit == Init => GoodInv
<1> SUFFICES ASSUME Init
             PROVE  GoodInv
  OBVIOUS
<1>1. Good(map) /\ Good(old)
  BY NewMapIsGood DEF Init, NullMap
<1>2. old.capacity = 0 /\ cursor \in 0..old.capacity
  BY DEF Init, NullMap, NewMap
<1>3. /\ pending \in [key : Keys, value : Values]
      /\ res \in [op : {"create", "add", "get", "remove", "clear", "delete"},
                  key : Keys, ok : BOOLEAN, value : Values]
      /\ pc = "idle"
  BY KeysAssumption DEF Init, Result
<1> QED
  BY <1>1, <1>2, <1>3 DEF GoodInv, TypeOK, Good

\* The record of a completed call has its type.
LEMMA ResultType ==
  ASSUME NEW op \in {"create", "add", "get", "remove", "clear", "delete"},
         NEW k \in Keys, NEW ok \in BOOLEAN, NEW v \in Values
  PROVE  Result(op, k, ok, v)
           \in [op : {"create", "add", "get", "remove", "clear", "delete"},
                key : Keys, ok : BOOLEAN, value : Values]
BY DEF Result

\* A call that only changes map and res keeps the invariant when it leaves a
\* good table and a result of the right type.
LEMMA GoodWhenIdle ==
  ASSUME GoodInv, Idle, NotRebuilding, Good(map)',
         res' \in [op : {"create", "add", "get", "remove", "clear", "delete"},
                   key : Keys, ok : BOOLEAN, value : Values]
  PROVE  GoodInv'
<1>1. Good(old)' /\ pc' = "idle"
  BY DEF GoodInv, Good, IsMap, LoadExactIn, ReachableIn, LiveSlots, SlotAt,
         NotRebuilding, Idle
<1> QED
  BY <1>1 DEF GoodInv, TypeOK, Good, Idle, NotRebuilding

LEMMA GoodStep == GoodInv /\ [Next]_vars => GoodInv'
<1> SUFFICES ASSUME GoodInv, [Next]_vars
             PROVE  GoodInv'
  OBVIOUS
<1>1. ASSUME NEW size \in InitSizes, Create(size)
      PROVE  GoodInv'
  <2>1. Good(map')
    BY <1>1, NewMapIsGood, SizeAssumption DEF Create
  <2> QED
    BY <1>1, <2>1, GoodWhenIdle, ResultType, KeysAssumption DEF Create, Good,
       IsMap, LoadExactIn, ReachableIn, LiveSlots, SlotAt
<1>2. ASSUME NEW k \in Keys, NEW v \in Values, AddDirectly(k, v)
      PROVE  GoodInv'
  <2>1. Good(Ensured(map)) /\ Ensured(map).capacity # 0
    BY EnsuredIsGood DEF GoodInv
  <2>2. PICK ok \in BOOLEAN : /\ Inserts(Ensured(map), k, v, map', ok)
                              /\ res' = Result("add", k, ok, ZeroValue)
    BY <1>2 DEF AddDirectly
  <2>3. Good(map')
    BY <2>1, <2>2, InsertsKeepsGood
  <2> QED
    BY <1>2, <2>2, <2>3, GoodWhenIdle, ResultType, KeysAssumption
       DEF AddDirectly
<1>3. ASSUME NEW k \in Keys, NEW v \in Values, StartRebuild(k, v)
      PROVE  GoodInv'
  <2>1. map.capacity \in Nat /\ map.capacity * 2 \in Nat
    BY DEF GoodInv, Good, IsMap
  <2>2. Good(map') /\ map'.capacity # 0
    <3>1. map' = NewMap(map.capacity * 2) /\ map.capacity # 0
      BY <1>3 DEF StartRebuild
    <3>2. map'.capacity = map.capacity * 2
      BY <3>1 DEF NewMap
    <3> QED
      BY <3>1, <3>2, <2>1, NewMapIsGood
  <2>3. Good(old')
    BY <1>3 DEF StartRebuild, GoodInv
  <2>4. cursor' \in 0..old'.capacity
    BY <1>3, <2>1 DEF StartRebuild
  <2> QED
    BY <1>3, <2>2, <2>3, <2>4 DEF StartRebuild, GoodInv, TypeOK, Good
<1>4. CASE Reinsert
  <2>1. cursor' \in 0..old'.capacity /\ Good(old') /\ old' = old
    <3>1. cursor \in 0..old.capacity /\ old.capacity \in Nat
      BY DEF GoodInv, TypeOK, Good, IsMap
    <3> QED
      BY <1>4, <3>1 DEF Reinsert, GoodInv
  <2>2. Good(map') /\ map'.capacity # 0
    <3>1. CASE Live(old.entries[cursor])
      <4> DEFINE e == old.entries[cursor]
      <4>1. e \in Entry
        BY <1>4 DEF Reinsert, GoodInv, TypeOK, Good, IsMap
      <4>2. PICK ok \in BOOLEAN : Inserts(map, e.key, e.value, map', ok)
        BY <1>4, <3>1 DEF Reinsert
      <4>3. e.key \in Keys /\ e.value \in Values /\ map.capacity # 0 /\ Good(map)
        BY <1>4, <4>1 DEF Reinsert, GoodInv, Entry
      <4> HIDE DEF e
      <4>4. Good(map') /\ map'.capacity = map.capacity
        BY <4>2, <4>3, InsertsKeepsGood
      <4> QED
        BY <4>3, <4>4
    <3>2. CASE ~Live(old.entries[cursor])
      BY <1>4, <3>2 DEF Reinsert, GoodInv
    <3> QED
      BY <3>1, <3>2
  <2> QED
    BY <1>4, <2>1, <2>2 DEF Reinsert, GoodInv, TypeOK, Good
<1>5. CASE FinishAdd
  <2>1. PICK ok \in BOOLEAN :
          /\ Inserts(map, pending.key, pending.value, map', ok)
          /\ res' = Result("add", pending.key, ok, ZeroValue)
    BY <1>5 DEF FinishAdd
  <2>2. /\ pending.key \in Keys
        /\ pending.value \in Values
        /\ map.capacity # 0
        /\ Good(map)
    BY <1>5 DEF FinishAdd, GoodInv, TypeOK
  <2>3. Good(map')
    BY <2>1, <2>2, InsertsKeepsGood
  <2>4. Good(old') /\ old'.capacity = 0
    BY <1>5, NewMapIsGood DEF FinishAdd, NullMap, NewMap
  <2>5. res' \in [op : {"create", "add", "get", "remove", "clear", "delete"},
                  key : Keys, ok : BOOLEAN, value : Values]
    BY <2>1, <2>2, ResultType, KeysAssumption
  <2> QED
    BY <1>5, <2>3, <2>4, <2>5 DEF FinishAdd, GoodInv, TypeOK, Good
<1>6. ASSUME NEW k \in Keys, Get(k)
      PROVE  GoodInv'
  <2>1. Good(map')
    BY <1>6, EnsuredIsGood DEF Get, GoodInv
  <2>2. res' \in [op : {"create", "add", "get", "remove", "clear", "delete"},
                  key : Keys, ok : BOOLEAN, value : Values]
    <3>1. CASE \E i \in 0..map'.capacity-1 :
                 res' = Result("get", k, TRUE, map'.entries[i].value)
      <4>1. PICK i \in 0..map'.capacity-1 :
                 res' = Result("get", k, TRUE, map'.entries[i].value)
        BY <3>1
      <4>2. map'.entries[i].value \in Values
        BY <2>1 DEF Good, IsMap, Entry
      <4> QED
        BY <4>1, <4>2, ResultType
    <3>2. CASE res' = Result("get", k, FALSE, ZeroValue)
      BY <3>2, ResultType, KeysAssumption
    <3> QED
      BY <1>6, <3>1, <3>2 DEF Get
  <2> QED
    BY <1>6, <2>1, <2>2, GoodWhenIdle DEF Get
<1>7. ASSUME NEW k \in Keys, Remove(k)
      PROVE  GoodInv'
  <2> DEFINE m == Ensured(map)
  <2>1. Good(m)
    BY EnsuredIsGood DEF GoodInv
  <2>2. Good(map')
    <3>1. CASE map' = m
      BY <2>1, <3>1
    <3>2. CASE \E i \in 0..m.capacity-1 : Finds(m, k, i) /\ map' = Buried(m, i)
      BY <2>1, <3>2, LookupIsExact, BuriedIsGood
    <3> QED
      BY <1>7, <3>1, <3>2 DEF Remove
  <2>3. res' \in [op : {"create", "add", "get", "remove", "clear", "delete"},
                  key : Keys, ok : BOOLEAN, value : Values]
    <3>1. PICK ok \in BOOLEAN : res' = Result("remove", k, ok, ZeroValue)
      BY <1>7 DEF Remove
    <3> QED
      BY <3>1, ResultType, KeysAssumption
  <2> QED
    BY <1>7, <2>2, <2>3, GoodWhenIdle DEF Remove
<1>8. CASE Clear
  <2>1. Good(map')
    BY <1>8, NewMapIsGood DEF Clear, GoodInv, Good, IsMap
  <2> QED
    BY <1>8, <2>1, GoodWhenIdle, ResultType, KeysAssumption DEF Clear
<1>9. CASE Delete
  <2>1. Good(map')
    BY <1>9, NewMapIsGood DEF Delete, NullMap
  <2> QED
    BY <1>9, <2>1, GoodWhenIdle, ResultType, KeysAssumption DEF Delete
<1>10. CASE UNCHANGED vars
  BY <1>10 DEF vars, GoodInv, TypeOK, Good, IsMap, LoadExactIn, ReachableIn,
               LiveSlots, SlotAt
<1> QED
  BY <1>1, <1>2, <1>3, <1>4, <1>5, <1>6, <1>7, <1>8, <1>9, <1>10
     DEF Next, Call, Rebuild

\* The invariant in every reachable state, for all the theorems below.
LEMMA GoodAlways == Spec => []GoodInv
BY GoodInit, GoodStep, PTL DEF Spec

\* Every variable keeps its type under any order of calls.
THEOREM TypeCorrect == Spec => []TypeOK
<1>1. GoodInv => TypeOK
  BY DEF GoodInv
<1> QED
  BY <1>1, GoodAlways, PTL

\* load is the number of live entries, in any order of calls and half-way
\* through a rebuild; in particular the load-- of hashmap_remove never wraps.
THEOREM LoadCountsLiveEntries == Spec => []LoadExact
<1>1. GoodInv => LoadExact
  BY DEF GoodInv, Good, LoadExact
<1> QED
  BY <1>1, GoodAlways, PTL

\* No lookup gives up in front of a live key.
THEOREM NoProbeBreaks == Spec => []Reachable
<1>1. GoodInv => Reachable
  BY DEF GoodInv, Good, Reachable
<1> QED
  BY <1>1, GoodAlways, PTL

\* hashmap_get and hashmap_remove find a key exactly when it is live, whatever
\* adds, removes, rebuilds and failed allocations came before.
THEOREM LookupCorrect == Spec => []LookupFindsLiveKeys
<1>1. GoodInv => LookupFindsLiveKeys
  BY LookupIsExact DEF GoodInv, LookupFindsLiveKeys
<1> QED
  BY <1>1, GoodAlways, PTL

--------------------------------------------------------------------------------
(* A rebuild has room.                                                          *)

\* The re-adds of a rebuild can only fill half of the doubled table.
RoomInv ==
  pc = "rebuild" => /\ old.capacity # 0
                    /\ map.capacity = 2 * old.capacity
                    /\ map.load <= cursor

\* An add counts at most one entry.
LEMMA InsertsCounts ==
  ASSUME NEW m, Good(m), NEW k, NEW v, NEW after, NEW ok,
         Inserts(m, k, v, after, ok)
  PROVE  /\ after.capacity = m.capacity
         /\ after.load \in {m.load, m.load + 1}
BY DEF Inserts, Filled

LEMMA RoomStep == GoodInv /\ RoomInv /\ [Next]_vars => RoomInv'
<1> SUFFICES ASSUME GoodInv, RoomInv, [Next]_vars, pc' = "rebuild"
             PROVE  /\ old'.capacity # 0
                    /\ map'.capacity = 2 * old'.capacity
                    /\ map'.load <= cursor'
  BY DEF RoomInv
<1>1. ASSUME NEW k \in Keys, NEW v \in Values, StartRebuild(k, v)
      PROVE  /\ old'.capacity # 0
             /\ map'.capacity = 2 * old'.capacity
             /\ map'.load <= cursor'
  <2>1. map.capacity \in Nat
    BY DEF GoodInv, Good, IsMap
  <2>2. map'.load = 0 /\ map'.capacity = map.capacity * 2
    BY <1>1 DEF StartRebuild, NewMap
  <2> QED
    BY <1>1, <2>1, <2>2 DEF StartRebuild
<1>2. CASE Reinsert
  <2>1. /\ old' = old
        /\ cursor' = cursor + 1
        /\ old.capacity # 0
        /\ map.capacity = 2 * old.capacity
        /\ map.load <= cursor
        /\ Good(map)
        /\ cursor \in Nat /\ map.load \in Nat
    <3>1. cursor \in Nat /\ map.load \in Nat
      BY DEF GoodInv, TypeOK, Good, IsMap
    <3> QED
      BY <1>2, <3>1 DEF Reinsert, RoomInv, GoodInv
  <2>2. map'.capacity = map.capacity /\ map'.load \in {map.load, map.load + 1}
    <3>1. CASE map' = map
      BY <3>1
    <3>2. CASE \E ok \in BOOLEAN :
                 Inserts(map, old.entries[cursor].key, old.entries[cursor].value, map', ok)
      BY <2>1, <3>2, InsertsCounts
    <3> QED
      BY <1>2, <3>1, <3>2 DEF Reinsert
  <2> QED
    BY <2>1, <2>2
<1>3. CASE UNCHANGED vars
  BY <1>3 DEF vars, RoomInv
<1>4. CASE \/ \E size \in InitSizes : Create(size)
           \/ \E k \in Keys, v \in Values : AddDirectly(k, v)
           \/ \E k \in Keys : Get(k) \/ Remove(k)
           \/ Clear
           \/ Delete
  BY <1>4 DEF Create, AddDirectly, Get, Remove, Clear, Delete, Idle, NotRebuilding
<1>5. CASE FinishAdd
  BY <1>5 DEF FinishAdd
<1> QED
  BY <1>1, <1>2, <1>3, <1>4, <1>5 DEF Next, Call, Rebuild

LEMMA RoomAlways == Spec => []RoomInv
<1>1. Init => RoomInv
  BY DEF Init, RoomInv
<1> QED
  BY <1>1, RoomStep, GoodAlways, PTL DEF Spec

\* Inside a rebuild hashmap_add neither starts another rebuild nor runs off a
\* full table, whatever the sizes and the hashes.
THEOREM RebuildNeverFull == Spec => []RebuildHasRoom
<1>1. GoodInv /\ RoomInv => RebuildHasRoom
  <2> SUFFICES ASSUME GoodInv, RoomInv, pc = "rebuild"
               PROVE  ~Overloaded(map) /\ \A k \in Keys : ~NoRoom(map, k)
    BY DEF RebuildHasRoom
  <2>1. /\ old.capacity \in Nat \ {0}
        /\ map.capacity = 2 * old.capacity
        /\ map.load \in Nat
        /\ cursor \in 0..old.capacity
        /\ map.load <= cursor
    BY DEF GoodInv, TypeOK, Good, IsMap, RoomInv
  <2>2. map.load < map.capacity /\ ~(4 * map.load > 3 * map.capacity)
    BY <2>1
  <2> QED
    BY <2>2, RoomLeft DEF Overloaded, GoodInv
<1> QED
  BY <1>1, GoodAlways, RoomAlways, PTL

--------------------------------------------------------------------------------
(* Without adds over tombstones a key is stored once.                           *)

\* A probe of hashmap_add that meets no tombstone and ends at an unused slot
\* has proved that the key is nowhere else in the table.
LEMMA LandsOnNewKey ==
  ASSUME NEW m, Good(m), ~HasTombstone(m), NEW k \in Keys,
         NEW i \in 0..m.capacity-1, AddLandsAt(m, k, i), ~Live(m.entries[i])
  PROVE  k \notin LiveKeys(m)
<1> SUFFICES ASSUME NEW j \in LiveSlots(m), m.entries[j].key = k
             PROVE  FALSE
  BY DEF LiveKeys
<1>1. PICK p \in 0..m.capacity-1 :
        /\ i = SlotAt(m, k, p)
        /\ \A before \in 0..p-1 : ~AddStops(m, k, before)
  BY DEF AddLandsAt
<1>2. PICK q \in 0..m.capacity-1 :
        /\ j = SlotAt(m, k, q)
        /\ \A before \in 0..q-1 : m.entries[SlotAt(m, k, before)].occupied
  BY DEF Good, ReachableIn
<1>3. p \in Nat /\ q \in Nat
  BY DEF Good, IsMap
<1>4. Live(m.entries[j])
  BY DEF LiveSlots
<1>5. CASE q < p
  <2>1. q \in 0..p-1
    BY <1>3, <1>5
  <2> QED
    BY <2>1, <1>1, <1>2 DEF AddStops
<1>6. CASE q = p
  BY <1>1, <1>2, <1>4, <1>6
<1>7. CASE p < q
  <2>1. p \in 0..q-1
    BY <1>3, <1>7
  <2>2. m.entries[i].occupied
    BY <2>1, <1>1, <1>2
  <2> QED
    BY <2>2 DEF HasTombstone, Live
<1> QED
  BY <1>3, <1>5, <1>6, <1>7

\* What filling a slot does to the keys and to the pairs.
LEMMA FilledEntries ==
  ASSUME NEW m, IsMap(m), NEW k \in Keys, NEW v \in Values,
         NEW i \in 0..m.capacity-1, ~Live(m.entries[i]),
         NEW n, n = Filled(m, k, v, i)
  PROVE  /\ n.capacity = m.capacity
         /\ LiveSlots(n) = LiveSlots(m) \cup {i}
         /\ n.entries[i] = [key |-> k, value |-> v, occupied |-> TRUE, deleted |-> FALSE]
         /\ \A j \in 0..m.capacity-1 : j # i => n.entries[j] = m.entries[j]
         /\ \A j \in LiveSlots(m) : j # i
         /\ LiveKeys(n) = LiveKeys(m) \cup {k}
<1>1. /\ n.capacity = m.capacity
      /\ n.entries[i] = [key |-> k, value |-> v, occupied |-> TRUE, deleted |-> FALSE]
      /\ \A j \in 0..m.capacity-1 : j # i => n.entries[j] = m.entries[j]
  BY DEF Filled, IsMap
<1>2. LiveSlots(n) = LiveSlots(m) \cup {i}
  BY FilledSlots
<1>3. \A j \in LiveSlots(m) : j # i /\ j \in 0..m.capacity-1
  BY DEF LiveSlots
<1>4. LiveKeys(n) = LiveKeys(m) \cup {k}
  BY <1>1, <1>2, <1>3 DEF LiveKeys
<1> QED
  BY <1>1, <1>2, <1>3, <1>4

LEMMA FilledIsUnique ==
  ASSUME NEW m, IsMap(m), UniqueIn(m), ~HasTombstone(m),
         NEW k \in Keys, NEW v \in Values, k \notin LiveKeys(m),
         NEW i \in 0..m.capacity-1, ~Live(m.entries[i])
  PROVE  UniqueIn(Filled(m, k, v, i)) /\ ~HasTombstone(Filled(m, k, v, i))
<1> DEFINE n == Filled(m, k, v, i)
<1>1. /\ n.capacity = m.capacity
      /\ LiveSlots(n) = LiveSlots(m) \cup {i}
      /\ n.entries[i] = [key |-> k, value |-> v, occupied |-> TRUE, deleted |-> FALSE]
      /\ \A j \in 0..m.capacity-1 : j # i => n.entries[j] = m.entries[j]
      /\ \A j \in LiveSlots(m) : j # i
  BY FilledEntries
<1> HIDE DEF n
<1>2. \A j \in LiveSlots(m) :
         n.entries[j].key = m.entries[j].key /\ n.entries[j].key # k
  BY <1>1 DEF LiveSlots, LiveKeys
<1>3. UniqueIn(n)
  BY <1>1, <1>2 DEF UniqueIn
<1>4. ~HasTombstone(n)
  BY <1>1 DEF HasTombstone
<1> QED
  BY <1>3, <1>4 DEF n

LEMMA InsertsKeepsUnique ==
  ASSUME NEW m, Good(m), UniqueIn(m), ~HasTombstone(m),
         NEW k \in Keys, NEW v \in Values, NEW after, NEW ok,
         Inserts(m, k, v, after, ok)
  PROVE  UniqueIn(after) /\ ~HasTombstone(after)
<1>1. CASE after = m
  BY <1>1
<1>2. CASE \E i \in 0..m.capacity-1 : /\ AddLandsAt(m, k, i)
                                      /\ ~Live(m.entries[i])
                                      /\ after = Filled(m, k, v, i)
  BY <1>2, LandsOnNewKey, FilledIsUnique DEF Good
<1> QED
  BY <1>1, <1>2 DEF Inserts

\* A new table has no entries, so nothing in it is stored twice or removed.
LEMMA NewMapIsUnique ==
  ASSUME NEW size \in Nat
  PROVE  UniqueIn(NewMap(size)) /\ ~HasTombstone(NewMap(size))
<1>1. ~HasTombstone(NewMap(size))
  BY DEF HasTombstone, NewMap, ZeroEntry
<1> QED
  BY <1>1, NewMapIsGood DEF UniqueIn

LEMMA EnsuredIsUnique ==
  ASSUME NEW m, UniqueIn(m)
  PROVE  /\ UniqueIn(Ensured(m))
         /\ ~HasTombstone(m) => ~HasTombstone(Ensured(m))
<1>1. StandardSize \in Nat
  BY SizeAssumption
<1> QED
  BY <1>1, NewMapIsUnique DEF Ensured

\* The invariant behind UniqueKeys: the table a rebuild fills never saw a
\* hashmap_remove.
UniqueInv ==
  /\ UniqueIn(map)
  /\ UniqueIn(old)
  /\ pc = "rebuild" => ~HasTombstone(map)

LEMMA UniqueStep ==
  ASSUME ~AddAfterRemove
  PROVE  GoodInv /\ UniqueInv /\ [Next]_vars => UniqueInv'
<1> SUFFICES ASSUME GoodInv, UniqueInv, [Next]_vars
             PROVE  UniqueIn(map') /\ UniqueIn(old')
                    /\ (pc' = "rebuild" => ~HasTombstone(map'))
  BY DEF UniqueInv, UniqueIn, HasTombstone, LiveSlots
<1>1. ASSUME NEW size \in InitSizes, Create(size)
      PROVE  UniqueIn(map')
  BY <1>1, NewMapIsUnique, SizeAssumption DEF Create
<1>2. ASSUME NEW k \in Keys, NEW v \in Values, AddDirectly(k, v)
      PROVE  UniqueIn(map')
  BY <1>2, EnsuredIsGood, EnsuredIsUnique, InsertsKeepsUnique
     DEF AddDirectly, GoodInv, UniqueInv
<1>3. ASSUME NEW k \in Keys, NEW v \in Values, StartRebuild(k, v)
      PROVE  UniqueIn(map') /\ UniqueIn(old') /\ ~HasTombstone(map')
  <2>1. map.capacity * 2 \in Nat
    BY DEF GoodInv, Good, IsMap
  <2> QED
    BY <1>3, <2>1, NewMapIsUnique DEF StartRebuild, UniqueInv
<1>4. CASE Reinsert
  <2>1. UniqueIn(old') /\ pc = "rebuild"
    BY <1>4 DEF Reinsert, UniqueInv
  <2>2. UniqueIn(map') /\ ~HasTombstone(map')
    <3>1. CASE Live(old.entries[cursor])
      <4> DEFINE e == old.entries[cursor]
      <4>1. e.key \in Keys /\ e.value \in Values
        BY <1>4 DEF Reinsert, GoodInv, TypeOK, Good, IsMap, Entry
      <4>2. PICK ok \in BOOLEAN : Inserts(map, e.key, e.value, map', ok)
        BY <1>4, <3>1 DEF Reinsert
      <4>3. Good(map) /\ UniqueIn(map) /\ ~HasTombstone(map)
        BY <2>1 DEF GoodInv, UniqueInv
      <4> HIDE DEF e
      <4> QED
        BY <4>1, <4>2, <4>3, InsertsKeepsUnique
    <3>2. CASE ~Live(old.entries[cursor])
      BY <1>4, <2>1, <3>2 DEF Reinsert, UniqueInv
    <3> QED
      BY <3>1, <3>2
  <2> QED
    BY <2>1, <2>2
<1>5. CASE FinishAdd
  <2>1. UniqueIn(old')
    BY <1>5, NewMapIsUnique DEF FinishAdd, NullMap
  <2>2. UniqueIn(map')
    BY <1>5, InsertsKeepsUnique DEF FinishAdd, GoodInv, UniqueInv, TypeOK
  <2> QED
    BY <1>5, <2>1, <2>2 DEF FinishAdd
<1>6. ASSUME NEW k \in Keys, Get(k)
      PROVE  UniqueIn(map')
  BY <1>6, EnsuredIsUnique DEF Get, UniqueInv
<1>7. ASSUME NEW k \in Keys, Remove(k)
      PROVE  UniqueIn(map')
  <2> DEFINE m == Ensured(map)
  <2>1. Good(m) /\ UniqueIn(m)
    BY EnsuredIsGood, EnsuredIsUnique DEF GoodInv, UniqueInv
  <2>2. CASE map' = m
    BY <2>1, <2>2
  <2>3. ASSUME NEW i \in 0..m.capacity-1, Finds(m, k, i), map' = Buried(m, i)
        PROVE  UniqueIn(map')
    <3> HIDE DEF m
    <3>1. LiveSlots(map') = LiveSlots(m) \ {i}
      BY <2>1, <2>3, LookupIsExact, BuriedIsGood
    <3>2. \A j \in LiveSlots(m) \ {i} : map'.entries[j] = m.entries[j]
      BY <2>1, <2>3 DEF Buried, LiveSlots, Good, IsMap
    <3> QED
      BY <2>1, <3>1, <3>2 DEF UniqueIn
  <2> QED
    BY <1>7, <2>2, <2>3 DEF Remove
<1>8. ASSUME Clear
      PROVE  UniqueIn(map')
  BY <1>8, NewMapIsUnique DEF Clear, GoodInv, Good, IsMap
<1>9. ASSUME Delete
      PROVE  UniqueIn(map')
  BY <1>9, NewMapIsUnique DEF Delete, NullMap
<1>10. CASE UNCHANGED vars
  BY <1>10 DEF vars, UniqueInv
<1>11. CASE \/ \E size \in InitSizes : Create(size)
            \/ \E k \in Keys, v \in Values : AddDirectly(k, v)
            \/ \E k \in Keys : Get(k) \/ Remove(k)
            \/ Clear
            \/ Delete
  <2>1. UniqueIn(map')
    BY <1>11, <1>1, <1>2, <1>6, <1>7, <1>8, <1>9
  <2>2. old' = old /\ pc' = "idle"
    BY <1>11 DEF Create, AddDirectly, Get, Remove, Clear, Delete, Idle, NotRebuilding
  <2> QED
    BY <2>1, <2>2 DEF UniqueInv
<1> QED
  BY <1>3, <1>4, <1>5, <1>10, <1>11 DEF Next, Call, Rebuild

LEMMA UniqueAlways ==
  ASSUME ~AddAfterRemove
  PROVE  Spec => []UniqueInv
<1>1. Init => UniqueInv
  BY NewMapIsUnique DEF Init, NullMap, UniqueInv
<1>2. GoodInv /\ UniqueInv /\ [Next]_vars => UniqueInv'
  BY UniqueStep
<1> QED
  BY <1>1, <1>2, GoodAlways, PTL DEF Spec

\* When no add ever meets a tombstone, which is how the compiler uses its
\* tables, no key is stored twice.
THEOREM KeysStoredOnce ==
  ASSUME ~AddAfterRemove
  PROVE  Spec => []UniqueKeys
<1>1. UniqueInv => UniqueKeys
  BY DEF UniqueInv, UniqueKeys
<1> QED
  BY <1>1, UniqueAlways, PTL

--------------------------------------------------------------------------------
(* Hashmap implements Dictionary when no add meets a tombstone and a rebuild can *)
(* allocate its table: every call changes the contents and returns what the      *)
(* abstract map says, and the steps of a rebuild change nothing a caller sees.   *)

\* What hashmap_add does to a table that has room: a new key is stored, a
\* present key is rejected.
LEMMA InsertOutcome ==
  ASSUME NEW m, Good(m), ~HasTombstone(m), m.load < m.capacity,
         NEW k \in Keys, NEW v \in Values, NEW after, NEW ok \in BOOLEAN,
         Inserts(m, k, v, after, ok)
  PROVE  /\ ok <=> k \notin LiveKeys(m)
         /\ k \in LiveKeys(m) => after = m
         /\ k \notin LiveKeys(m) =>
              \E i \in 0..m.capacity-1 : /\ ~Live(m.entries[i])
                                         /\ after = Filled(m, k, v, i)
<1>1. CASE \E i \in 0..m.capacity-1 : /\ AddLandsAt(m, k, i)
                                      /\ ~Live(m.entries[i])
                                      /\ after = Filled(m, k, v, i)
                                      /\ ok = TRUE
  BY <1>1, LandsOnNewKey
<1>2. CASE /\ \E i \in 0..m.capacity-1 : AddLandsAt(m, k, i) /\ Live(m.entries[i])
           /\ after = m
           /\ ok = FALSE
  <2>1. PICK i \in 0..m.capacity-1 : AddLandsAt(m, k, i) /\ Live(m.entries[i])
    BY <1>2
  <2>2. m.entries[i].key = k
    BY <2>1 DEF AddLandsAt, AddStops
  <2>3. k \in LiveKeys(m)
    BY <2>1, <2>2 DEF LiveKeys, LiveSlots
  <2> QED
    BY <1>2, <2>3
<1>3. ~NoRoom(m, k)
  BY RoomLeft
<1> QED
  BY <1>1, <1>2, <1>3 DEF Inserts

--------------------------------------------------------------------------------
(* A rebuild copies the pairs.                                                  *)

\* Filling a slot adds one pair.
LEMMA FilledPairs ==
  ASSUME NEW m, IsMap(m), NEW k \in Keys, NEW v \in Values,
         NEW i \in 0..m.capacity-1, ~Live(m.entries[i]),
         NEW n, n = Filled(m, k, v, i)
  PROVE  Pairs(n, n.capacity) = Pairs(m, m.capacity) \cup {<<k, v>>}
<1>1. /\ n.capacity = m.capacity
      /\ LiveSlots(n) = LiveSlots(m) \cup {i}
      /\ n.entries[i].key = k
      /\ n.entries[i].value = v
      /\ \A j \in LiveSlots(m) : n.entries[j] = m.entries[j]
  <2>1. \A j \in LiveSlots(m) : j \in 0..m.capacity-1
    BY DEF LiveSlots
  <2>2. /\ n.capacity = m.capacity
        /\ LiveSlots(n) = LiveSlots(m) \cup {i}
        /\ n.entries[i] = [key |-> k, value |-> v, occupied |-> TRUE, deleted |-> FALSE]
        /\ \A j \in 0..m.capacity-1 : j # i => n.entries[j] = m.entries[j]
        /\ \A j \in LiveSlots(m) : j # i
    BY FilledEntries
  <2> QED
    BY <2>1, <2>2
<1>2. {j \in LiveSlots(m) : j < m.capacity} = LiveSlots(m)
  BY DEF LiveSlots, IsMap
<1>3. {j \in LiveSlots(n) : j < n.capacity} = LiveSlots(m) \cup {i}
  BY <1>1, <1>2 DEF IsMap
<1> QED
  BY <1>1, <1>2, <1>3 DEF Pairs

\* A key is live exactly when it is in a pair.
LEMMA PairsAndKeys ==
  ASSUME NEW m, IsMap(m), NEW k
  PROVE  k \in LiveKeys(m) <=> \E v : <<k, v>> \in Pairs(m, m.capacity)
<1>1. {j \in LiveSlots(m) : j < m.capacity} = LiveSlots(m)
  BY DEF LiveSlots, IsMap
<1> QED
  BY <1>1 DEF Pairs, LiveKeys

LEMMA PairsStep ==
  ASSUME ~AddAfterRemove
  PROVE  GoodInv /\ RoomInv /\ UniqueInv /\ RebuildKeepsPairs /\ [Next]_vars
           => RebuildKeepsPairs'
<1> SUFFICES ASSUME GoodInv, RoomInv, UniqueInv, RebuildKeepsPairs,
                    [Next]_vars, pc' = "rebuild"
             PROVE  Pairs(map', map'.capacity) = Pairs(old', cursor')
  BY DEF RebuildKeepsPairs, Pairs, LiveSlots
<1>1. ASSUME NEW k \in Keys, NEW v \in Values, StartRebuild(k, v)
      PROVE  Pairs(map', map'.capacity) = Pairs(old', cursor')
  <2>1. map.capacity * 2 \in Nat
    BY DEF GoodInv, Good, IsMap
  <2>2. LiveSlots(map') = {}
    BY <1>1, <2>1, NewMapIsGood DEF StartRebuild
  <2>3. {j \in LiveSlots(old') : j < 0} = {}
    BY DEF LiveSlots
  <2>4. cursor' = 0
    BY <1>1 DEF StartRebuild
  <2> QED
    BY <2>2, <2>3, <2>4 DEF Pairs
<1>2. CASE Reinsert
  <2> DEFINE e == old.entries[cursor]
  <2>1. /\ old' = old
        /\ cursor' = cursor + 1
        /\ Pairs(map, map.capacity) = Pairs(old, cursor)
        /\ cursor \in 0..old.capacity-1
        /\ cursor \in Nat
        /\ Good(map) /\ Good(old)
        /\ ~HasTombstone(map) /\ UniqueIn(old)
    BY <1>2 DEF Reinsert, GoodInv, TypeOK, Good, IsMap, UniqueInv, RebuildKeepsPairs
  <2>2. CASE ~Live(e)
    <3>1. {j \in LiveSlots(old) : j < cursor + 1} = {j \in LiveSlots(old) : j < cursor}
      BY <2>1, <2>2 DEF LiveSlots, Good, IsMap
    <3>2. map' = map
      BY <1>2, <2>2 DEF Reinsert
    <3> QED
      BY <2>1, <3>1, <3>2 DEF Pairs
  <2>3. CASE Live(e)
    <3>1. cursor \in LiveSlots(old) /\ e.key \in Keys /\ e.value \in Values
      BY <2>1, <2>3 DEF LiveSlots, Good, IsMap, Entry
    <3>2. e.key \notin LiveKeys(map)
      <4> SUFFICES ASSUME NEW v, <<e.key, v>> \in Pairs(old, cursor)
                   PROVE  FALSE
        BY <2>1, PairsAndKeys DEF Good
      <4>1. PICK j \in LiveSlots(old) : j < cursor /\ old.entries[j].key = e.key
        BY DEF Pairs
      <4>2. j = cursor
        BY <2>1, <3>1, <4>1 DEF UniqueIn
      <4> QED
        BY <2>1, <4>1, <4>2
    <3>3. map.load < map.capacity
      <4>1. map.load <= cursor /\ map.capacity = 2 * old.capacity /\ old.capacity # 0
        BY <1>2 DEF Reinsert, RoomInv
      <4>2. map.load \in Nat /\ old.capacity \in Nat
        BY <2>1 DEF Good, IsMap
      <4> QED
        BY <2>1, <4>1, <4>2
    <3>4. PICK ok \in BOOLEAN : Inserts(map, e.key, e.value, map', ok)
      BY <1>2, <2>3 DEF Reinsert
    <3>5. PICK i \in 0..map.capacity-1 : /\ ~Live(map.entries[i])
                                         /\ map' = Filled(map, e.key, e.value, i)
      <4> DEFINE k == e.key
                 v == e.value
      <4>1. /\ k \in Keys /\ v \in Values
            /\ k \notin LiveKeys(map)
            /\ Inserts(map, k, v, map', ok)
            /\ Good(map) /\ ~HasTombstone(map) /\ map.load < map.capacity
        BY <2>1, <3>1, <3>2, <3>3, <3>4
      <4> HIDE DEF k, v
      <4>2. \E i \in 0..map.capacity-1 : /\ ~Live(map.entries[i])
                                         /\ map' = Filled(map, k, v, i)
        BY <4>1, InsertOutcome
      <4> QED
        BY <4>1, <4>2 DEF k, v
    <3>6. Pairs(map', map'.capacity) = Pairs(map, map.capacity) \cup {<<e.key, e.value>>}
      <4> HIDE DEF e
      <4> QED
        BY <2>1, <3>1, <3>5, FilledPairs DEF Good
    <3>7. {j \in LiveSlots(old) : j < cursor + 1}
            = {j \in LiveSlots(old) : j < cursor} \cup {cursor}
      BY <2>1, <3>1 DEF LiveSlots, Good, IsMap
    <3>8. Pairs(old, cursor + 1) = Pairs(old, cursor) \cup {<<e.key, e.value>>}
      BY <3>7 DEF Pairs
    <3> QED
      BY <2>1, <3>6, <3>8
  <2> QED
    BY <2>2, <2>3
<1>3. CASE UNCHANGED vars
  BY <1>3 DEF vars, RebuildKeepsPairs
<1>4. CASE \/ \E size \in InitSizes : Create(size)
           \/ \E k \in Keys, v \in Values : AddDirectly(k, v)
           \/ \E k \in Keys : Get(k) \/ Remove(k)
           \/ Clear
           \/ Delete
  BY <1>4 DEF Create, AddDirectly, Get, Remove, Clear, Delete, Idle, NotRebuilding
<1>5. CASE FinishAdd
  BY <1>5 DEF FinishAdd
<1> QED
  BY <1>1, <1>2, <1>3, <1>4, <1>5 DEF Next, Call, Rebuild

LEMMA PairsAlways ==
  ASSUME ~AddAfterRemove
  PROVE  Spec => []RebuildKeepsPairs
<1>1. Init => RebuildKeepsPairs
  BY DEF Init, RebuildKeepsPairs
<1>2. GoodInv /\ RoomInv /\ UniqueInv /\ RebuildKeepsPairs /\ [Next]_vars
        => RebuildKeepsPairs'
  BY PairsStep
<1> QED
  BY <1>1, <1>2, GoodAlways, RoomAlways, UniqueAlways, PTL DEF Spec

\* At every round of a rebuild the new table holds exactly the pairs of the
\* part of the old table already walked over: nothing is lost, doubled or
\* changed on the way.
THEOREM RebuildCopiesPairs ==
  ASSUME ~AddAfterRemove
  PROVE  Spec => []RebuildKeepsPairs
BY PairsAlways

--------------------------------------------------------------------------------
(* The contents of a table, as an abstract map.                                 *)

\* The contents at a live slot's key are that slot's value.
LEMMA ContentsAt ==
  ASSUME NEW m, UniqueIn(m), NEW j \in LiveSlots(m)
  PROVE  /\ m.entries[j].key \in LiveKeys(m)
         /\ Contents(m)[m.entries[j].key] = m.entries[j].value
<1> DEFINE k == m.entries[j].key
           i == CHOOSE x \in LiveSlots(m) : m.entries[x].key = k
<1>1. k \in LiveKeys(m)
  BY DEF LiveKeys
<1>2. i \in LiveSlots(m) /\ m.entries[i].key = k
  <2>1. \E x \in LiveSlots(m) : m.entries[x].key = k
    OBVIOUS
  <2> HIDE DEF k
  <2> QED
    BY <2>1
<1>3. i = j
  BY <1>2 DEF UniqueIn
<1>4. Contents(m)[k] = m.entries[i].value
  BY <1>1 DEF Contents
<1> HIDE DEF i
<1> QED
  BY <1>1, <1>3, <1>4

LEMMA ContentsDomain ==
  ASSUME NEW m
  PROVE  /\ DOMAIN Contents(m) = LiveKeys(m)
         /\ Contents(m) = [k \in LiveKeys(m) |-> Contents(m)[k]]
BY DEF Contents

\* Two functions given point by point over the same keys.
LEMMA ContentsIs ==
  ASSUME NEW m, UniqueIn(m), NEW f, NEW S, S = LiveKeys(m),
         f = [k \in S |-> f[k]],
         \A j \in LiveSlots(m) : f[m.entries[j].key] = m.entries[j].value
  PROVE  Contents(m) = f
<1>1. \A k \in S : Contents(m)[k] = f[k]
  <2> SUFFICES ASSUME NEW k \in S
               PROVE  Contents(m)[k] = f[k]
    OBVIOUS
  <2>1. PICK j \in LiveSlots(m) : m.entries[j].key = k
    BY DEF LiveKeys
  <2> QED
    BY <2>1, ContentsAt
<1>2. Contents(m) = [k \in S |-> Contents(m)[k]]
  BY ContentsDomain
<1> QED
  BY <1>1, <1>2

LEMMA ContentsEmpty ==
  ASSUME NEW m, LiveSlots(m) = {}
  PROVE  Contents(m) = [k \in {} |-> ZeroValue]
<1>1. LiveKeys(m) = {}
  BY DEF LiveKeys
<1>2. DOMAIN Contents(m) = {}
  BY <1>1, ContentsDomain
<1> QED
  BY <1>1, <1>2, ContentsDomain

LEMMA ContentsFilled ==
  ASSUME NEW m, Good(m), UniqueIn(m), ~HasTombstone(m),
         NEW k \in Keys, NEW v \in Values, k \notin LiveKeys(m),
         NEW i \in 0..m.capacity-1, ~Live(m.entries[i])
  PROVE  Contents(Filled(m, k, v, i))
           = [x \in LiveKeys(m) \cup {k} |-> IF x = k THEN v ELSE Contents(m)[x]]
<1> DEFINE n == Filled(m, k, v, i)
           f == [x \in LiveKeys(m) \cup {k} |-> IF x = k THEN v ELSE Contents(m)[x]]
<1>1. /\ LiveSlots(n) = LiveSlots(m) \cup {i}
      /\ n.entries[i] = [key |-> k, value |-> v, occupied |-> TRUE, deleted |-> FALSE]
      /\ \A j \in 0..m.capacity-1 : j # i => n.entries[j] = m.entries[j]
      /\ \A j \in LiveSlots(m) : j # i
      /\ LiveKeys(n) = LiveKeys(m) \cup {k}
  BY FilledEntries DEF Good
<1>2. UniqueIn(n)
  BY FilledIsUnique DEF Good
<1> HIDE DEF n
<1>3. \A j \in LiveSlots(n) : f[n.entries[j].key] = n.entries[j].value
  <2>1. f[n.entries[i].key] = n.entries[i].value
    <3>1. n.entries[i].key = k /\ n.entries[i].value = v
      BY <1>1
    <3> QED
      BY <3>1
  <2>2. ASSUME NEW j \in LiveSlots(m)
        PROVE  f[n.entries[j].key] = n.entries[j].value
    <3>1. n.entries[j] = m.entries[j]
      BY <1>1 DEF LiveSlots
    <3>2. m.entries[j].key \in LiveKeys(m) /\ m.entries[j].key # k
      BY DEF LiveKeys
    <3> QED
      BY <3>1, <3>2, ContentsAt
  <2> QED
    BY <1>1, <2>1, <2>2
<1> DEFINE S == LiveKeys(m) \cup {k}
<1>4. f = [x \in S |-> f[x]] /\ S = LiveKeys(n)
  BY <1>1
<1> HIDE DEF f, S
<1>5. Contents(n) = f
  BY <1>2, <1>3, <1>4, ContentsIs
<1> QED
  BY <1>5 DEF n, f

LEMMA ContentsBuried ==
  ASSUME NEW m, Good(m), UniqueIn(m), NEW i \in LiveSlots(m)
  PROVE  Contents(Buried(m, i))
           = [x \in LiveKeys(m) \ {m.entries[i].key} |-> Contents(m)[x]]
<1> DEFINE n == Buried(m, i)
           k == m.entries[i].key
           f == [x \in LiveKeys(m) \ {k} |-> Contents(m)[x]]
<1>1. LiveSlots(n) = LiveSlots(m) \ {i}
  BY BuriedIsGood
<1>2. \A j \in LiveSlots(n) : n.entries[j] = m.entries[j]
  BY <1>1 DEF Buried, LiveSlots, Good, IsMap
<1> HIDE DEF n
<1>3. \A j \in LiveSlots(n) : m.entries[j].key \in LiveKeys(m) \ {k}
  BY <1>1 DEF LiveKeys, UniqueIn
<1>4. LiveKeys(n) = LiveKeys(m) \ {k}
  <2>1. LiveKeys(n) \subseteq LiveKeys(m) \ {k}
    BY <1>2, <1>3 DEF LiveKeys
  <2>2. ASSUME NEW x \in LiveKeys(m) \ {k}
        PROVE  x \in LiveKeys(n)
    <3>1. PICK j \in LiveSlots(m) : m.entries[j].key = x
      BY DEF LiveKeys
    <3>2. j \in LiveSlots(n)
      BY <1>1, <3>1
    <3> QED
      BY <1>2, <3>1, <3>2 DEF LiveKeys
  <2> QED
    BY <2>1, <2>2
<1>5. UniqueIn(n)
  BY <1>1, <1>2 DEF UniqueIn
<1>6. \A j \in LiveSlots(n) : f[n.entries[j].key] = n.entries[j].value
  BY <1>1, <1>2, <1>3, ContentsAt
<1> DEFINE rest == LiveKeys(m) \ {k}
<1>7. rest = LiveKeys(n) /\ f = [x \in rest |-> f[x]]
  BY <1>4
<1> HIDE DEF f, k, rest
<1>8. Contents(n) = f
  BY <1>5, <1>6, <1>7, ContentsIs
<1> QED
  BY <1>8 DEF n, f, k

LEMMA ContentsEnsured ==
  ASSUME NEW m
  PROVE  Contents(Ensured(m)) = Contents(m) /\ LiveKeys(Ensured(m)) = LiveKeys(m)
<1>1. CASE m.capacity = 0
  <2>1. LiveSlots(m) = {}
    BY <1>1 DEF LiveSlots
  <2>2. LiveSlots(Ensured(m)) = {}
    BY <1>1, NewMapIsGood, SizeAssumption DEF Ensured
  <2> QED
    BY <2>1, <2>2, ContentsEmpty DEF LiveKeys
<1>2. CASE m.capacity # 0
  BY <1>2 DEF Ensured
<1> QED
  BY <1>1, <1>2

\* Tables with the same pairs have the same contents.
LEMMA ContentsOfPairs ==
  ASSUME NEW m, NEW n, IsMap(m), IsMap(n), UniqueIn(m), UniqueIn(n),
         Pairs(m, m.capacity) = Pairs(n, n.capacity)
  PROVE  Contents(m) = Contents(n) /\ LiveKeys(m) = LiveKeys(n)
<1>1. LiveKeys(m) = LiveKeys(n)
  <2>1. \A k : k \in LiveKeys(m) <=> k \in LiveKeys(n)
    <3> SUFFICES ASSUME NEW k
                 PROVE  k \in LiveKeys(m) <=> k \in LiveKeys(n)
      OBVIOUS
    <3>1. k \in LiveKeys(m) <=> \E v : <<k, v>> \in Pairs(m, m.capacity)
      BY PairsAndKeys
    <3>2. k \in LiveKeys(n) <=> \E v : <<k, v>> \in Pairs(n, n.capacity)
      BY PairsAndKeys
    <3> QED
      BY <3>1, <3>2
  <2> QED
    BY <2>1
<1>2. \A j \in LiveSlots(m) : Contents(n)[m.entries[j].key] = m.entries[j].value
  <2> SUFFICES ASSUME NEW j \in LiveSlots(m)
               PROVE  Contents(n)[m.entries[j].key] = m.entries[j].value
    OBVIOUS
  <2>1. <<m.entries[j].key, m.entries[j].value>> \in Pairs(m, m.capacity)
    BY DEF Pairs, LiveSlots, IsMap
  <2>2. <<m.entries[j].key, m.entries[j].value>> \in Pairs(n, n.capacity)
    BY <2>1
  <2>3. PICK i \in LiveSlots(n) : /\ n.entries[i].key = m.entries[j].key
                                  /\ n.entries[i].value = m.entries[j].value
    BY <2>2 DEF Pairs
  <2> QED
    BY <2>3, ContentsAt
<1>3. Contents(n) = [k \in LiveKeys(n) |-> Contents(n)[k]]
  BY ContentsDomain
<1> QED
  BY <1>1, <1>2, <1>3, ContentsIs

--------------------------------------------------------------------------------
(* Every step of the table is a step of the abstract map, or changes nothing.   *)

\* hashmap_add on a table with room is the abstract add.
LEMMA InsertImplementsAdd ==
  ASSUME NEW m, Good(m), UniqueIn(m), ~HasTombstone(m), m.load < m.capacity,
         NEW k \in Keys, NEW v \in Values, NEW ok \in BOOLEAN,
         Inserts(m, k, v, map', ok),
         Contents(Current) = Contents(m), Current' = map',
         res' = Result("add", k, ok, ZeroValue)
  PROVE  Dict!Add(k, v)
<1>1. DOMAIN Contents(m) = LiveKeys(m) /\ Contents(Current') = Contents(map')
  BY ContentsDomain
<1>2. /\ ok <=> k \notin LiveKeys(m)
      /\ k \in LiveKeys(m) => map' = m
      /\ k \notin LiveKeys(m) =>
            \E i \in 0..m.capacity-1 : /\ ~Live(m.entries[i])
                                       /\ map' = Filled(m, k, v, i)
  BY InsertOutcome
<1>3. CASE k \in LiveKeys(m)
  BY <1>1, <1>2, <1>3 DEF Dict!Add, Dict!Result, Result
<1>4. CASE k \notin LiveKeys(m)
  <2>1. PICK i \in 0..m.capacity-1 : /\ ~Live(m.entries[i])
                                     /\ map' = Filled(m, k, v, i)
    BY <1>2, <1>4
  <2>2. Contents(map')
          = [x \in LiveKeys(m) \cup {k} |-> IF x = k THEN v ELSE Contents(m)[x]]
    BY <1>4, <2>1, ContentsFilled
  <2> QED
    BY <1>1, <1>2, <1>4, <2>2 DEF Dict!Add, Dict!Result, Result
<1> QED
  BY <1>3, <1>4

LEMMA StepImplements ==
  ASSUME ~AddAfterRemove, ~AllocMayFail,
         GoodInv, RoomInv, UniqueInv, RebuildKeepsPairs, [Next]_vars
  PROVE  [Dict!Next]_(Dict!vars)
<1>1. ASSUME NEW size \in InitSizes, Create(size)
      PROVE  Dict!Next
  <2>1. Contents(map') = [k \in {} |-> ZeroValue]
    BY <1>1, NewMapIsGood, ContentsEmpty, SizeAssumption DEF Create
  <2>2. Current' = map'
    BY <1>1 DEF Create, Idle, NotRebuilding, Current
  <2> QED
    BY <1>1, <2>1, <2>2 DEF Create, Result, Dict!Next, Dict!Empty, Dict!Result
<1>2. ASSUME NEW k \in Keys, NEW v \in Values, AddDirectly(k, v)
      PROVE  Dict!Next
  <2> DEFINE m == Ensured(map)
  <2>1. PICK ok \in BOOLEAN : /\ Inserts(m, k, v, map', ok)
                              /\ res' = Result("add", k, ok, ZeroValue)
    BY <1>2 DEF AddDirectly
  <2>2. Good(m) /\ UniqueIn(m) /\ ~HasTombstone(m) /\ m.capacity # 0
    BY <1>2, EnsuredIsGood, EnsuredIsUnique DEF AddDirectly, GoodInv, UniqueInv
  <2>3. m.load < m.capacity
    <3>1. ~Overloaded(m)
      BY <1>2 DEF AddDirectly
    <3>2. m.capacity \in Nat /\ m.load \in Nat
      BY <2>2 DEF Good, IsMap
    <3> QED
      BY <2>2, <3>1, <3>2 DEF Overloaded
  <2>4. Contents(Current) = Contents(m) /\ Current' = map'
    BY <1>2, ContentsEnsured DEF AddDirectly, Idle, NotRebuilding, Current
  <2> HIDE DEF m
  <2>5. Dict!Add(k, v)
    BY <2>1, <2>2, <2>3, <2>4, InsertImplementsAdd
  <2> QED
    BY <2>5 DEF Dict!Next
<1>3. ASSUME NEW k \in Keys, NEW v \in Values, StartRebuild(k, v)
      PROVE  UNCHANGED Dict!vars
  <2>1. Current = map /\ Current' = map
    BY <1>3 DEF StartRebuild, Idle, Current
  <2> QED
    BY <1>3, <2>1 DEF StartRebuild, Dict!vars
<1>4. CASE Reinsert
  <2>1. Current = old /\ Current' = old
    BY <1>4 DEF Reinsert, Current
  <2>2. UNCHANGED Dict!vars
    BY <1>4, <2>1 DEF Reinsert, Dict!vars
  <2> QED
    BY <2>2
<1>5. CASE FinishAdd
  <2>1. PICK ok \in BOOLEAN :
          /\ Inserts(map, pending.key, pending.value, map', ok)
          /\ res' = Result("add", pending.key, ok, ZeroValue)
    BY <1>5 DEF FinishAdd
  <2>2. pending.key \in Keys /\ pending.value \in Values
    BY DEF GoodInv, TypeOK
  <2>3. Good(map) /\ UniqueIn(map) /\ ~HasTombstone(map) /\ Good(old) /\ UniqueIn(old)
    BY <1>5 DEF FinishAdd, GoodInv, UniqueInv
  <2>4. map.load < map.capacity
    <3>1. /\ map.load <= cursor
          /\ map.capacity = 2 * old.capacity
          /\ old.capacity # 0
          /\ cursor = old.capacity
      BY <1>5 DEF FinishAdd, RoomInv
    <3>2. map.load \in Nat /\ old.capacity \in Nat
      BY <2>3 DEF Good, IsMap
    <3> QED
      BY <3>1, <3>2
  <2>5. Contents(Current) = Contents(map) /\ Current' = map'
    <3>1. Pairs(map, map.capacity) = Pairs(old, old.capacity)
      BY <1>5 DEF FinishAdd, RebuildKeepsPairs
    <3>2. Contents(map) = Contents(old)
      BY <2>3, <3>1, ContentsOfPairs DEF Good
    <3> QED
      BY <1>5, <3>2 DEF FinishAdd, Current
  <2> DEFINE k == pending.key
             v == pending.value
  <2>6. /\ k \in Keys /\ v \in Values
        /\ Inserts(map, k, v, map', ok)
        /\ res' = Result("add", k, ok, ZeroValue)
    BY <2>1, <2>2
  <2> HIDE DEF k, v
  <2>7. Dict!Add(k, v)
    BY <2>3, <2>4, <2>5, <2>6, InsertImplementsAdd
  <2> QED
    BY <2>6, <2>7 DEF Dict!Next
<1>6. ASSUME NEW k \in Keys, Get(k)
      PROVE  Dict!Next
  <2> DEFINE m == Ensured(map)
  <2>1. /\ Good(m) /\ UniqueIn(m) /\ map' = m
        /\ Contents(Current) = Contents(m) /\ Current' = map'
    BY <1>6, EnsuredIsGood, EnsuredIsUnique, ContentsEnsured
       DEF Get, Idle, NotRebuilding, Current, GoodInv, UniqueInv
  <2> HIDE DEF m
  <2>2. DOMAIN Contents(m) = LiveKeys(m)
    BY ContentsDomain
  <2>3. ASSUME NEW i \in 0..m.capacity-1, Finds(m, k, i),
               res' = Result("get", k, TRUE, m.entries[i].value)
        PROVE  Dict!Get(k)
    <3>1. i \in LiveSlots(m) /\ m.entries[i].key = k
      BY <2>1, <2>3, LookupIsExact
    <3>2. k \in LiveKeys(m) /\ Contents(m)[k] = m.entries[i].value
      BY <2>1, <3>1, ContentsAt
    <3> QED
      BY <2>1, <2>2, <2>3, <3>2 DEF Dict!Get, Dict!Result, Result
  <2>4. ASSUME Misses(m, k), res' = Result("get", k, FALSE, ZeroValue)
        PROVE  Dict!Get(k)
    <3>1. k \notin LiveKeys(m)
      BY <2>1, <2>4, LookupIsExact
    <3> QED
      BY <2>1, <2>2, <2>4, <3>1 DEF Dict!Get, Dict!Result, Result
  <2>5. Dict!Get(k)
    BY <1>6, <2>1, <2>3, <2>4 DEF Get
  <2> QED
    BY <2>5 DEF Dict!Next
<1>7. ASSUME NEW k \in Keys, Remove(k)
      PROVE  Dict!Next
  <2> DEFINE m == Ensured(map)
  <2>1. /\ Good(m) /\ UniqueIn(m)
        /\ Contents(Current) = Contents(m) /\ Current' = map'
    BY <1>7, EnsuredIsGood, EnsuredIsUnique, ContentsEnsured
       DEF Remove, Idle, NotRebuilding, Current, GoodInv, UniqueInv
  <2>2. \/ \E i \in 0..m.capacity-1 : /\ Finds(m, k, i)
                                      /\ map' = Buried(m, i)
                                      /\ res' = Result("remove", k, TRUE, ZeroValue)
        \/ /\ Misses(m, k)
           /\ map' = m
           /\ res' = Result("remove", k, FALSE, ZeroValue)
    BY <1>7 DEF Remove
  <2> HIDE DEF m
  <2>3. DOMAIN Contents(m) = LiveKeys(m)
    BY ContentsDomain
  <2>4. ASSUME NEW i \in 0..m.capacity-1, Finds(m, k, i), map' = Buried(m, i),
               res' = Result("remove", k, TRUE, ZeroValue)
        PROVE  Dict!Remove(k)
    <3>1. i \in LiveSlots(m) /\ m.entries[i].key = k
      BY <2>1, <2>4, LookupIsExact
    <3>2. k \in LiveKeys(m)
      BY <3>1 DEF LiveKeys
    <3>3. Contents(map') = [x \in LiveKeys(m) \ {k} |-> Contents(m)[x]]
      BY <2>1, <2>4, <3>1, ContentsBuried
    <3> QED
      BY <2>1, <2>3, <2>4, <3>2, <3>3 DEF Dict!Remove, Dict!Result, Result
  <2>5. ASSUME Misses(m, k), map' = m,
               res' = Result("remove", k, FALSE, ZeroValue)
        PROVE  Dict!Remove(k)
    <3>1. k \notin LiveKeys(m)
      BY <2>1, <2>5, LookupIsExact
    <3> QED
      BY <2>1, <2>3, <2>5, <3>1 DEF Dict!Remove, Dict!Result, Result
  <2>6. Dict!Remove(k)
    BY <2>2, <2>4, <2>5
  <2> QED
    BY <2>6 DEF Dict!Next
<1>8. ASSUME Clear
      PROVE  Dict!Next
  <2>1. Contents(map') = [k \in {} |-> ZeroValue]
    BY <1>8, NewMapIsGood, ContentsEmpty DEF Clear, GoodInv, Good, IsMap
  <2>2. Current' = map'
    BY <1>8 DEF Clear, Idle, NotRebuilding, Current
  <2> QED
    BY <1>8, <2>1, <2>2 DEF Clear, Result, Dict!Next, Dict!Empty, Dict!Result
<1>9. ASSUME Delete
      PROVE  Dict!Next
  <2>1. Contents(map') = [k \in {} |-> ZeroValue]
    BY <1>9, NewMapIsGood, ContentsEmpty DEF Delete, NullMap
  <2>2. Current' = map'
    BY <1>9 DEF Delete, Idle, NotRebuilding, Current
  <2> QED
    BY <1>9, <2>1, <2>2 DEF Delete, Result, Dict!Next, Dict!Empty, Dict!Result
<1>10. CASE UNCHANGED vars
  BY <1>10 DEF vars, Current, Dict!vars
<1> QED
  BY <1>1, <1>2, <1>3, <1>4, <1>5, <1>6, <1>7, <1>8, <1>9, <1>10
     DEF Next, Call, Rebuild

\* The hash table is the map its callers take it for, provided no key is added
\* to a table from which one was removed and every rebuild gets its memory.
THEOREM TableIsDictionary ==
  ASSUME ~AddAfterRemove, ~AllocMayFail
  PROVE  Spec => ImplementsDictionary
<1>1. Init => Dict!Init
  <2> SUFFICES ASSUME Init
               PROVE  Dict!Init
    OBVIOUS
  <2>1. Contents(map) = [k \in {} |-> ZeroValue]
    BY NewMapIsGood, ContentsEmpty DEF Init, NullMap
  <2>2. Current = map
    BY DEF Init, Current
  <2> QED
    BY <2>1, <2>2 DEF Init, Result, Dict!Init, Dict!Result
<1>2. /\ GoodInv /\ RoomInv /\ UniqueInv /\ RebuildKeepsPairs
      /\ [Next]_vars
      => [Dict!Next]_(Dict!vars)
  BY StepImplements
<1> QED
  BY <1>1, <1>2, GoodAlways, RoomAlways, UniqueAlways, PairsAlways, PTL
     DEF Spec, ImplementsDictionary, Dict!Spec
================================================================================
