------------------------------- MODULE Containers -------------------------------
(***************************************************************************)
(* The containers: array_t (src/include/array.h), stack_t (stack.h), and    *)
(* list_t (list.h) as the code generator uses it for its text: a list of    *)
(* bytes that is alone in an arena (Memory).                                 *)
(*                                                                          *)
(* Indices count from 1.  No allocation of create fails: the code goes on    *)
(* with a null pointer then.                                                 *)
(***************************************************************************)
EXTENDS Memory, SequencesExt

CONSTANTS
  TextSize,   \* init_size of the text
  ArraySize,  \* STD_ARRAY_SIZE
  StackSize,  \* STANDART_STACK_SIZE
  Values, Nothing,
  MaxWrite, MaxText, MaxElements \* bounds of the model: elements of one write, of the
                                 \* text, of an array or a stack

\* The arena of the text is 16 times as large as the text is at first: PG(4) and
\* 1024 in nasm_compile_program.
ASSUME ContainersAssumption ==
  /\ TextSize \in Nat \ {0} /\ ArenaSize = 16 * TextSize
  /\ ArraySize \in Nat \ {0} /\ StackSize \in Nat \ {0}
  /\ MaxWrite \in Nat /\ MaxText \in Nat /\ MaxElements \in Nat

VARIABLES
  text,    \* the list of the text: count, grow_size, and the cells of its
           \* block, of which there are current_size; at is the block, 0 before
           \* list_create
  adding,  \* a list_allocate that grows the text: the elements it is for, and
           \* whether it has asked the arena
  array,   \* array_t: count, grow_size, and its entries; <<>> when entries.data is NULL
  stack,   \* stack_t: index, grow_size, and the cells of data; <<>> when data is NULL
  answer   \* result of the last operation on array or stack

textVars == <<text, adding>>
collectionVars == <<array, stack, answer>>

--------------------------------------------------------------------------------
(* The text.  A byte of the text is the number of its place, zero is the byte    *)
(* of memory nothing was written to.                                             *)

Zeros(n) == [i \in 1 .. n |-> 0]

NotAdding == [elements |-> 0, asked |-> FALSE]

\* list_fill of the elements behind the first ones, which list_allocate counts.
Filled(list, elements) ==
  [list EXCEPT !.count = @ + elements,
               !.cells = [i \in DOMAIN @ |-> IF i \in list.count + 1 .. list.count + elements
                                               THEN i ELSE @[i]]]

\* Mutant: the last element may be one behind the block.
HasRoom_OneMore(list, elements) ==
  elements = 0 \/ list.count + elements - 1 <= Len(list.cells)

HasRoom(list, elements) ==
  elements = 0 \/ list.count + elements - 1 < Len(list.cells)

\* write: list_allocate and list_fill, of a text that has room.
Write(elements) ==
  /\ adding = NotAdding
  /\ HasRoom(text, elements)
  /\ text.count + elements <= MaxText
  /\ text' = Filled(text, elements)
  /\ UNCHANGED <<adding, arenaVars>>

\* One that has not: it grows, until there is more than enough.
WriteMore(elements) ==
  /\ adding = NotAdding
  /\ ~HasRoom(text, elements)
  /\ text.count + elements <= MaxText
  /\ adding' = [elements |-> elements, asked |-> FALSE]
  /\ UNCHANGED <<text, arenaVars>>

Fills == text.count + adding.elements < Len(text.cells)

\* list_grow asks for a block, and the arena walks its chunks.
GrowAsk ==
  /\ adding # NotAdding /\ ~adding.asked /\ ~Fills
  /\ ArenaAsk(text.grow)
  /\ adding' = [adding EXCEPT !.asked = TRUE]
  /\ UNCHANGED text

\* The old block is copied to the front of it, and is never used again.
Grow ==
  /\ adding.asked /\ Idle
  /\ text' = [text EXCEPT !.cells = text.cells \o Zeros(text.grow - Len(text.cells)),
                          !.grow = 2 * text.grow, !.at = Len(blocks)]
  /\ adding' = [adding EXCEPT !.asked = FALSE]
  /\ UNCHANGED arenaVars

WriteGrown ==
  /\ adding # NotAdding /\ ~adding.asked /\ Fills
  /\ text' = Filled(text, adding.elements)
  /\ adding' = NotAdding
  /\ UNCHANGED arenaVars

ArenaStep == (ArenaTake \/ ArenaGoOn \/ ArenaExtend) /\ UNCHANGED textVars

\* list_create in an arena of its own, with the first block of it.
TextInit ==
  /\ chunks = <<[size |-> ArenaSize, index |-> TextSize]>>
  /\ blocks = <<[chunk |-> 1, from |-> 0, to |-> TextSize]>>
  /\ request = NoRequest
  /\ text = [count |-> 0, grow |-> 2 * TextSize, cells |-> Zeros(TextSize), at |-> 1]
  /\ adding = NotAdding

TextNext ==
  \/ \E elements \in 0 .. MaxWrite : Write(elements) \/ WriteMore(elements)
  \/ GrowAsk \/ Grow \/ WriteGrown \/ ArenaStep

TextSpec == TextInit /\ [][TextNext]_<<arenaVars, textVars>>

--------------------------------------------------------------------------------
(* array_t: entries of growing sizes, which are never moved.                      *)

NoArray == [count |-> 0, grow |-> 0, entries |-> <<>>]

Unset(n) == [i \in 1 .. n |-> Nothing]

ArrayCreated(size) == [count |-> 0, grow |-> 2 * size, entries |-> <<Unset(size)>>]

\* What both operations begin with.
ArrayIfNeeded == IF array.entries = <<>> THEN ArrayCreated(ArraySize) ELSE array

\* index_offset of the walk at each entry: the elements of those in front of it.
Before(entries) ==
  LET before[ei \in 1 .. Len(entries) + 1] ==
        IF ei = 1 THEN 0 ELSE before[ei - 1] + Len(entries[ei - 1])
  IN  before

\* Mutant: the walk stays in an entry one element longer.
Stays_OneLonger(entries, index, ei) ==
  ei > Len(entries) \/ index - Before(entries)[ei] <= Len(entries[ei])

\* The walk goes on while an entry ends in front of the index.
Stays(entries, index, ei) ==
  ei > Len(entries) \/ index - Before(entries)[ei] < Len(entries[ei])

\* The entry at which the walk to an index, from zero, stays, and the place in it.
\* The entry is one behind the last when the index is behind all elements.
Locate(entries, index) ==
  LET entry == CHOOSE ei \in 1 .. Len(entries) + 1 :
                 /\ Stays(entries, index, ei)
                 /\ \A e \in 1 .. ei - 1 : ~Stays(entries, index, e)
  IN  [entry |-> entry, offset |-> index - Before(entries)[entry]]

ArrayAdd(x) ==
  LET arr == ArrayIfNeeded
      place == Locate(arr.entries, arr.count)
      grown == IF place.entry > Len(arr.entries)
                 THEN [arr EXCEPT !.entries = Append(@, Unset(arr.grow)), !.grow = 2 * @]
                 ELSE arr
  IN  /\ arr.count < MaxElements
      /\ array' = [grown EXCEPT !.count = @ + 1,
                                !.entries[place.entry][place.offset + 1] = x]
      /\ answer' = Nothing
      /\ UNCHANGED stack

ArrayGet(index) ==
  LET arr == ArrayIfNeeded
      place == Locate(arr.entries, index)
  IN  /\ array' = arr
      /\ answer' = IF index >= arr.count
                     THEN Nothing
                     ELSE arr.entries[place.entry][place.offset + 1]
      /\ UNCHANGED stack

\* list_delete of the entries: the count stays, and the next operation creates
\* another array.
ArrayDelete ==
  /\ array' = [array EXCEPT !.entries = <<>>]
  /\ answer' = Nothing
  /\ UNCHANGED stack

--------------------------------------------------------------------------------
(* stack_t                                                                        *)

NoStack == [index |-> 0, grow |-> 0, data |-> <<>>]

StackIfNeeded ==
  IF stack.data = <<>>
    THEN [index |-> 0, grow |-> 2 * StackSize, data |-> Unset(StackSize)]
    ELSE stack

Pushed(st, x) == [st EXCEPT !.index = @ + 1, !.data[st.index + 1] = x]

StackPush(x) ==
  LET st == StackIfNeeded
      grown == [st EXCEPT !.data = @ \o Unset(st.grow - Len(st.data)), !.grow = 2 * @]
  IN  /\ st.index < MaxElements
      /\ stack' = Pushed(IF st.index >= Len(st.data) THEN grown ELSE st, x)
      /\ answer' = Nothing
      /\ UNCHANGED array

\* There is no memory to grow: the element is dropped.
StackPushFails ==
  /\ StackIfNeeded.index >= Len(StackIfNeeded.data)
  /\ stack' = StackIfNeeded
  /\ answer' = Nothing
  /\ UNCHANGED array

StackPeek ==
  LET st == StackIfNeeded
  IN  /\ stack' = st
      /\ answer' = IF st.index = 0 THEN Nothing ELSE st.data[st.index]
      /\ UNCHANGED array

StackPop ==
  LET st == StackIfNeeded
  IN  /\ stack' = IF st.index = 0 THEN st ELSE [st EXCEPT !.index = @ - 1]
      /\ answer' = IF st.index = 0 THEN Nothing ELSE st.data[st.index]
      /\ UNCHANGED array

\* Mutant: the next stack would begin where the deleted one stood.
StackDelete_Kept ==
  /\ stack' = [stack EXCEPT !.data = IF @ = <<>> THEN @ ELSE Unset(StackSize)]
  /\ answer' = Nothing
  /\ UNCHANGED array

\* index is left as it is: the next operation creates a stack, and resets it.
StackDelete ==
  /\ stack' = [stack EXCEPT !.data = <<>>]
  /\ answer' = Nothing
  /\ UNCHANGED array

CollectionsInit == array = NoArray /\ stack = NoStack /\ answer = Nothing

CollectionsNext ==
  \/ \E x \in Values : ArrayAdd(x) \/ StackPush(x)
  \/ \E index \in 0 .. MaxElements : ArrayGet(index)
  \/ ArrayDelete \/ StackPushFails \/ StackPeek \/ StackPop \/ StackDelete

CollectionsSpec == CollectionsInit /\ [][CollectionsNext]_collectionVars

--------------------------------------------------------------------------------
(* Properties.                                                                    *)

\* Where a C function looks for the end of the text (c_string_length in compile)
\* it finds it: every byte that was written is in the block, in its place, and the
\* one behind them is zero, because the block has a cell more, or because the
\* arena has and never handed it out.
TextIsTerminated ==
  text.at # 0 /\ adding = NotAdding =>
    LET block == blocks[text.at]
    IN  /\ text.count <= Len(text.cells)
        /\ Len(text.cells) = block.to - block.from
        /\ \A i \in 1 .. text.count : text.cells[i] = i
        /\ IF text.count < Len(text.cells)
             THEN text.cells[text.count + 1] = 0
             ELSE /\ block.to < chunks[block.chunk].size
                  /\ \A b \in Range(blocks) :
                       b.chunk = block.chunk => block.to \notin b.from .. b.to - 1

\* The elements of an array in order, and those of a stack.
C == INSTANCE Collections WITH
       array <- SubSeq(FlattenSeq(array.entries), 1,
                       IF array.entries = <<>> THEN 0 ELSE array.count),
       lifo <- IF stack.data = <<>> THEN <<>> ELSE SubSeq(stack.data, 1, stack.index)

\* Arrays and stacks are a sequence and a stack, however often they were grown,
\* deleted and created again (array_add, array_get, stack_push, stack_pop).
ImplementsCollections == C!Spec

================================================================================
