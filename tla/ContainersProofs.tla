---------------------------- MODULE ContainersProofs ----------------------------
(***************************************************************************)
(* Proofs about Memory and Containers: blocks of an arena and of the        *)
(* temporary buffer are apart, the text of the code generator ends with a    *)
(* zero, and arrays and stacks are a sequence and a stack, for every size of *)
(* each and whatever is requested.                                           *)
(***************************************************************************)
EXTENDS Containers, SequenceTheorems, WellFoundedInduction, TLAPS

--------------------------------------------------------------------------------
(* Arena.                                                                       *)

ArenaTypeOK ==
  /\ chunks \in Seq([size : Nat, index : Nat]) /\ chunks # <<>>
  /\ request \in [size : Nat, at : Nat] /\ request.at <= Len(chunks)
  /\ blocks \in Seq([chunk : Nat, from : Nat, to : Nat])

\* Every block is in front of the index of its chunk.
BlocksBehindIndex ==
  /\ \A c \in DOMAIN chunks : chunks[c].index <= chunks[c].size
  /\ \A i \in DOMAIN blocks :
       /\ blocks[i].chunk \in DOMAIN chunks
       /\ blocks[i].from <= blocks[i].to
       /\ blocks[i].to <= chunks[blocks[i].chunk].index

ArenaInv == ArenaTypeOK /\ BlocksBehindIndex /\ ArenaBlocksApart

LEMMA ArenaStarts == MemoryInit => ArenaInv
BY MemoryAssumption
   DEF MemoryInit, ArenaInit, NoRequest, ArenaInv, ArenaTypeOK, BlocksBehindIndex, ArenaBlocksApart

LEMMA OneMorePlace ==
  \A n \in Nat : 1 .. n + 1 = (1 .. n) \cup {n + 1} /\ \A i \in 1 .. n : i # n + 1
OBVIOUS

\* A block taken at the index of a chunk is apart from all before it.
LEMMA ArenaTakeKeeps == ArenaInv /\ ArenaTake => ArenaInv'
<1> SUFFICES ASSUME ArenaInv, ArenaTake PROVE ArenaInv'
  OBVIOUS
<1> DEFINE chunk == chunks[request.at]
           next == chunk.index + request.size
           block == [chunk |-> request.at, from |-> chunk.index, to |-> next]
           end == Len(blocks) + 1
<1>1. /\ chunks \in Seq([size : Nat, index : Nat])
      /\ blocks \in Seq([chunk : Nat, from : Nat, to : Nat])
      /\ request.size \in Nat /\ request.at \in 1 .. Len(chunks)
      /\ DOMAIN chunks = 1 .. Len(chunks) /\ DOMAIN blocks = 1 .. Len(blocks)
      /\ Len(blocks) \in Nat
  BY DEF ArenaInv, ArenaTypeOK, ArenaTake, Idle
<1>2. /\ chunk \in [size : Nat, index : Nat] /\ request.size \in Nat
      /\ request.at \in Nat /\ request.at \in DOMAIN chunks
  <2>1. chunks[request.at] \in [size : Nat, index : Nat]
    BY <1>1, ElementOfSeq
  <2> QED BY <2>1, <1>1
<1>3. /\ next \in Nat /\ next <= chunk.size /\ chunk.index <= next
      /\ block \in [chunk : Nat, from : Nat, to : Nat]
  BY <1>2 DEF ArenaTake, Fits, ArenaInv, BlocksBehindIndex
<1>4. /\ chunks' \in Seq([size : Nat, index : Nat]) /\ Len(chunks') = Len(chunks)
      /\ DOMAIN chunks' = DOMAIN chunks
      /\ chunks'[request.at] = [size |-> chunk.size, index |-> next]
      /\ \A c \in DOMAIN chunks : c # request.at => chunks'[c] = chunks[c]
  <2>1. chunks' = [chunks EXCEPT ![request.at] = [size |-> chunk.size, index |-> next]]
    BY DEF ArenaTake
  <2> DEFINE put == [size |-> chunk.size, index |-> next]
  <2>2. put \in [size : Nat, index : Nat]
    BY <1>2, <1>3
  <2>3. chunks' = [chunks EXCEPT ![request.at] = put]
    BY <2>1
  <2> HIDE DEF put
  <2>4. /\ chunks' \in Seq([size : Nat, index : Nat]) /\ Len(chunks') = Len(chunks)
        /\ chunks'[request.at] = put
        /\ \A c \in 1 .. Len(chunks) : c # request.at => chunks'[c] = chunks[c]
    BY <2>2, <2>3, <1>1, ExceptSeq
  <2>5. DOMAIN chunks' = 1 .. Len(chunks) /\ DOMAIN chunks = 1 .. Len(chunks)
    BY <2>4, <1>1
  <2> QED BY <2>4, <2>5 DEF put
<1>5. /\ blocks' \in Seq([chunk : Nat, from : Nat, to : Nat])
      /\ DOMAIN blocks' = DOMAIN blocks \cup {end}
      /\ blocks'[end] = block
      /\ \A i \in DOMAIN blocks : blocks'[i] = blocks[i] /\ i # end
  <2>1. blocks' = Append(blocks, block)
    BY DEF ArenaTake
  <2> HIDE DEF block
  <2>2. /\ blocks' \in Seq([chunk : Nat, from : Nat, to : Nat])
        /\ Len(blocks') = end /\ blocks'[end] = block
        /\ \A i \in 1 .. Len(blocks) : blocks'[i] = blocks[i]
    BY <2>1, <1>1, <1>3, AppendProperties
  <2>3. DOMAIN blocks' = 1 .. end
    BY <2>2
  <2>4. 1 .. end = (1 .. Len(blocks)) \cup {end} /\ \A i \in 1 .. Len(blocks) : i # end
    BY <1>1, OneMorePlace
  <2> QED BY <2>2, <2>3, <2>4, <1>1
<1>6. ArenaTypeOK'
  <2>1. request' = [size |-> 0, at |-> 0]
    BY DEF ArenaTake, NoRequest
  <2> QED BY <2>1, <1>1, <1>4, <1>5 DEF ArenaTypeOK
<1>7. ASSUME NEW i \in DOMAIN blocks
      PROVE
        /\ blocks[i] \in [chunk : Nat, from : Nat, to : Nat]
        /\ blocks[i].chunk \in DOMAIN chunks
        /\ blocks[i].from <= blocks[i].to
        /\ blocks[i].to <= chunks[blocks[i].chunk].index
        /\ blocks[i].to <= chunks[blocks[i].chunk].size
        /\ chunks[blocks[i].chunk] \in [size : Nat, index : Nat]
  <2>1. blocks[i] \in [chunk : Nat, from : Nat, to : Nat]
    BY <1>1, ElementOfSeq
  <2>2. /\ blocks[i].chunk \in DOMAIN chunks
        /\ blocks[i].from <= blocks[i].to
        /\ blocks[i].to <= chunks[blocks[i].chunk].index
        /\ blocks[i].to <= chunks[blocks[i].chunk].size
    BY DEF ArenaInv, BlocksBehindIndex, ArenaBlocksApart
  <2>3. chunks[blocks[i].chunk] \in [size : Nat, index : Nat]
    BY <1>1, <2>2, ElementOfSeq
  <2> QED BY <2>1, <2>2, <2>3
<1> HIDE DEF chunk, next, block, end
<1>8. chunks'[request.at].size = chunk.size /\ chunks'[request.at].index = next
  BY <1>4
<1>9. ASSUME NEW c \in DOMAIN chunks
       PROVE  /\ c \in DOMAIN chunks'
              /\ chunks'[c].size = chunks[c].size /\ chunks[c].index <= chunks'[c].index
              /\ chunks'[c].index <= chunks'[c].size
              /\ chunks'[c].index \in Nat
  <2>1. CASE c = request.at
    <3>1. chunk = chunks[c]
      BY <2>1 DEF chunk
    <3> QED BY <2>1, <3>1, <1>2, <1>3, <1>4, <1>8
  <2>2. CASE c # request.at
    <3>1. chunks'[c] = chunks[c] /\ chunks[c].index <= chunks[c].size
      BY <2>2, <1>4 DEF ArenaInv, BlocksBehindIndex
    <3>2. chunks[c] \in [size : Nat, index : Nat]
      BY <1>1, ElementOfSeq
    <3> QED BY <3>1, <3>2, <1>4
  <2> QED BY <2>1, <2>2
<1>10. BlocksBehindIndex'
  <2>1. \A c \in DOMAIN chunks' : chunks'[c].index <= chunks'[c].size
    BY <1>4, <1>9
  <2>2. ASSUME NEW i \in DOMAIN blocks
        PROVE  /\ blocks[i].chunk \in DOMAIN chunks'
               /\ blocks[i].from <= blocks[i].to
               /\ blocks[i].to <= chunks'[blocks[i].chunk].index
    BY <1>7, <1>9
  <2>3. /\ block.chunk \in DOMAIN chunks' /\ block.from <= block.to
        /\ block.to <= chunks'[block.chunk].index
    BY <1>2, <1>3, <1>4 DEF block
  <2> QED BY <1>5, <2>1, <2>2, <2>3 DEF BlocksBehindIndex
<1>11. ArenaBlocksApart'
  <2>1. ASSUME NEW i \in DOMAIN blocks PROVE blocks[i].to <= chunks'[blocks[i].chunk].size
    BY <1>7, <1>9
  <2>2. block.to <= chunks'[block.chunk].size
    BY <1>3, <1>4 DEF block
  <2>3. ASSUME NEW i \in DOMAIN blocks, blocks[i].chunk = block.chunk
        PROVE  ~Overlap(blocks[i], block) /\ ~Overlap(block, blocks[i])
    BY <1>2, <1>3, <1>7, <2>3 DEF block, chunk, Overlap
  <2>4. ASSUME NEW i \in DOMAIN blocks', NEW j \in DOMAIN blocks',
               i # j, blocks'[i].chunk = blocks'[j].chunk
        PROVE  ~Overlap(blocks'[i], blocks'[j])
    <3>1. CASE i \in DOMAIN blocks /\ j \in DOMAIN blocks
      BY <3>1, <1>5, <2>4 DEF ArenaInv, ArenaBlocksApart
    <3>2. CASE i \in DOMAIN blocks /\ j = end
      BY <3>2, <1>5, <2>3, <2>4
    <3>3. CASE i = end /\ j \in DOMAIN blocks
      BY <3>3, <1>5, <2>3, <2>4
    <3> QED BY <1>5, <2>4, <3>1, <3>2, <3>3
  <2> QED BY <1>5, <2>1, <2>2, <2>4 DEF ArenaBlocksApart, Overlap
<1> QED BY <1>6, <1>10, <1>11 DEF ArenaInv

\* A new chunk is empty, and no block is in it.
LEMMA ArenaExtendKeeps == ArenaInv /\ ArenaExtend => ArenaInv'
<1> SUFFICES ASSUME ArenaInv, ArenaExtend PROVE ArenaInv'
  OBVIOUS
<1> DEFINE new == [size |-> 2 * chunks[request.at].size, index |-> 0]
<1>1. new \in [size : Nat, index : Nat]
  <2>1. chunks \in Seq([size : Nat, index : Nat]) /\ request.at \in 1 .. Len(chunks)
    BY DEF ArenaInv, ArenaTypeOK, ArenaExtend, Idle
  <2>2. chunks[request.at] \in [size : Nat, index : Nat]
    BY <2>1, ElementOfSeq
  <2> QED BY <2>2
<1>2. /\ chunks' \in Seq([size : Nat, index : Nat]) /\ Len(chunks') = Len(chunks) + 1
      /\ DOMAIN chunks' = DOMAIN chunks \cup {Len(chunks) + 1}
      /\ chunks'[Len(chunks) + 1] = new
      /\ \A c \in DOMAIN chunks : chunks'[c] = chunks[c]
  BY <1>1 DEF ArenaExtend, ArenaInv, ArenaTypeOK
<1>3. ArenaTypeOK'
  <2>1. /\ chunks' # <<>> /\ Len(chunks) \in Nat
        /\ blocks' = blocks /\ request' = [request EXCEPT !.at = request.at + 1]
        /\ request.at = Len(chunks) /\ request \in [size : Nat, at : Nat]
    BY <1>2, EmptySeq DEF ArenaTypeOK, ArenaExtend, ArenaInv
  <2>2. request' \in [size : Nat, at : Nat] /\ request'.at = request.at + 1
    BY <2>1
  <2> QED BY <1>2, <2>1, <2>2 DEF ArenaTypeOK, ArenaInv
<1>4. blocks' = blocks
  BY DEF ArenaExtend
<1>5. new.index <= new.size
  BY <1>1
<1> HIDE DEF new
<1>6. BlocksBehindIndex' /\ ArenaBlocksApart'
  BY <1>2, <1>4, <1>5 DEF ArenaInv, BlocksBehindIndex, ArenaBlocksApart, Overlap
<1> QED BY <1>3, <1>6 DEF ArenaInv

LEMMA ArenaKeeps == ArenaInv /\ [ArenaNext(Nat) \/ TempNext(Nat)]_memoryVars => ArenaInv'
<1> SUFFICES ASSUME ArenaInv, [ArenaNext(Nat) \/ TempNext(Nat)]_memoryVars PROVE ArenaInv'
  OBVIOUS
<1>1. CASE UNCHANGED arenaVars
  BY <1>1 DEF arenaVars, ArenaInv, ArenaTypeOK, BlocksBehindIndex, ArenaBlocksApart, Overlap
<1>2. ASSUME NEW size \in Nat, ArenaAsk(size) PROVE ArenaInv'
  <2>1. ArenaTypeOK'
    BY <1>2 DEF ArenaAsk, ArenaInv, ArenaTypeOK
  <2>2. BlocksBehindIndex' /\ ArenaBlocksApart'
    BY <1>2 DEF ArenaAsk, ArenaInv, BlocksBehindIndex, ArenaBlocksApart, Overlap
  <2> QED BY <2>1, <2>2 DEF ArenaInv
<1>3. CASE ArenaTake
  BY <1>3, ArenaTakeKeeps
<1>4. CASE ArenaGoOn
  <2>1. ArenaTypeOK'
    <3>1. request' = [request EXCEPT !.at = request.at + 1] /\ chunks' = chunks /\ blocks' = blocks
      BY <1>4 DEF ArenaGoOn
    <3>2. request' \in [size : Nat, at : Nat] /\ request'.at <= Len(chunks)
      <4>1. request.at < Len(chunks) /\ request \in [size : Nat, at : Nat] /\ Len(chunks) \in Nat
        BY <1>4 DEF ArenaGoOn, ArenaInv, ArenaTypeOK
      <4> QED BY <3>1, <4>1
    <3> QED BY <3>1, <3>2 DEF ArenaInv, ArenaTypeOK
  <2>2. BlocksBehindIndex' /\ ArenaBlocksApart'
    BY <1>4 DEF ArenaGoOn, ArenaInv, BlocksBehindIndex, ArenaBlocksApart, Overlap
  <2> QED BY <2>1, <2>2 DEF ArenaInv
<1>5. CASE ArenaExtend
  BY <1>5, ArenaExtendKeeps
<1>6. CASE TempNext(Nat)
  <2>1. UNCHANGED arenaVars
    BY <1>6 DEF TempNext, TempAsk, TempTake, TempWarn, TempWrap, TempReset
  <2> QED BY <2>1, <1>1
<1> QED BY <1>1, <1>2, <1>3, <1>4, <1>5, <1>6 DEF ArenaNext, memoryVars

(* Blocks of an arena never overlap and never leave their chunk, for every size of
   the arena and every sequence of requests (arena_allocate, src/arena.cpp:77).    *)
THEOREM ArenaIsSound == MemorySpec => []ArenaBlocksApart
<1>1. MemoryInit => ArenaInv
  BY ArenaStarts
<1>2. ArenaInv /\ [ArenaNext(Nat) \/ TempNext(Nat)]_memoryVars => ArenaInv'
  BY ArenaKeeps
<1>3. ArenaInv => ArenaBlocksApart
  BY DEF ArenaInv
<1> QED BY <1>1, <1>2, <1>3, PTL DEF MemorySpec

--------------------------------------------------------------------------------
(* Temporary buffer.                                                            *)

Block_ == [lap : Nat, from : Nat, to : Nat]
Call_ == [size : Nat, address : Nat, warned : BOOLEAN]

TempTypeOK ==
  /\ position \in Nat /\ position <= TEMP_MEM_SIZE
  /\ lap \in Nat
  /\ calls \in Seq(Call_)
  /\ temps \in Seq(Block_)

\* Only the innermost call has not warned; inside a warning that does not fit the
\* position stays where it is, and the warnings never fit again.
CallsNest ==
  /\ \A k \in 1 .. Len(calls) : k < Len(calls) => calls[k].warned
  /\ Len(calls) >= 2 => ~calls[Len(calls)].warned
  /\ \A k \in 2 .. Len(calls) : calls[k].size = WarningSize
  /\ Len(calls) >= 3 => position + WarningSize >= TEMP_MEM_SIZE
  /\ Len(calls) >= 2 => calls[1].address = position
  /\ Len(calls) >= 1 /\ calls[1].warned =>
       /\ calls[1].address + calls[1].size >= TEMP_MEM_SIZE
       /\ calls[1].address <= TEMP_MEM_SIZE
  /\ Len(calls) >= 1 => calls[1].size <= TEMP_MEM_SIZE
  /\ Len(calls) = 1 /\ calls[1].warned => calls[1].address + WarningSize < TEMP_MEM_SIZE

\* Where the next block of this lap begins.
Edge == IF Len(calls) >= 1 /\ calls[1].warned THEN calls[1].address ELSE position

BlocksInFront ==
  /\ \A i \in 1 .. Len(temps) :
       /\ temps[i].from <= temps[i].to /\ temps[i].from <= TEMP_MEM_SIZE
       /\ temps[i].lap <= lap
       /\ temps[i].lap = lap => temps[i].to <= Edge
       /\ temps[i].to >= TEMP_MEM_SIZE =>
            temps[i].lap < lap /\ temps[i].to - temps[i].from > WarningSize
  /\ \A i, j \in 1 .. Len(temps) :
       i < j =>
         /\ temps[i].lap <= temps[j].lap
         /\ temps[i].to >= TEMP_MEM_SIZE => temps[i].lap < temps[j].lap
         /\ temps[i].lap = temps[j].lap => temps[i].to <= temps[j].from

TempInv == TempTypeOK /\ CallsNest /\ BlocksInFront

LEMMA TempStarts == MemoryInit => TempInv
BY MemoryAssumption, EmptySeq
   DEF MemoryInit, TempInit, TempInv, TempTypeOK, CallsNest, BlocksInFront

\* The invariant says what the property does.
LEMMA InFrontIsApart == TempInv => TempBlocksApart
<1> SUFFICES ASSUME TempInv PROVE TempBlocksApart
  OBVIOUS
<1>1. /\ temps \in Seq(Block_) /\ DOMAIN temps = 1 .. Len(temps) /\ Len(temps) \in Nat
  BY DEF TempInv, TempTypeOK
<1>2. \A i \in 1 .. Len(temps) : temps[i] \in Block_
  BY <1>1, ElementOfSeq
<1>3. ASSUME NEW i \in DOMAIN temps, NEW j \in DOMAIN temps,
             i # j, temps[i].lap = temps[j].lap
      PROVE  ~Overlap(temps[i], temps[j])
  <2>1. /\ i \in Nat /\ j \in Nat
        /\ temps[i].to \in Nat /\ temps[j].to \in Nat
        /\ temps[i].from \in Nat /\ temps[j].from \in Nat
    BY <1>1, <1>2 DEF Block_
  <2>2. temps[i].to <= temps[j].from \/ temps[j].to <= temps[i].from
    BY <1>1, <1>3, <2>1 DEF TempInv, BlocksInFront
  <2> QED BY <2>1, <2>2 DEF Overlap
<1>4. ASSUME NEW i \in DOMAIN temps
      PROVE  /\ temps[i].from <= TEMP_MEM_SIZE
             /\ temps[i].to >= TEMP_MEM_SIZE =>
                  /\ temps[i].to - temps[i].from > WarningSize
                  /\ temps[i].lap < lap
                  /\ i < Len(temps) => temps[i].lap < temps[i + 1].lap
  BY <1>1 DEF TempInv, BlocksInFront
<1> QED BY <1>3, <1>4 DEF TempBlocksApart

\* A block that begins at the edge may follow those handed out.
LEMMA HandedOut ==
  ASSUME TempInv, NEW to \in Nat, Edge <= to, NEW edge \in Nat, NEW round \in Nat,
         temps' = Append(temps, [lap |-> lap, from |-> Edge, to |-> to]),
         lap' = round, Edge' = edge, Edge \in Nat, Edge <= TEMP_MEM_SIZE,
         \/ round = lap /\ edge = to /\ to < TEMP_MEM_SIZE
         \/ round = lap + 1 /\ (to >= TEMP_MEM_SIZE => to - Edge > WarningSize)
  PROVE  temps' \in Seq(Block_) /\ BlocksInFront'
<1> DEFINE block == [lap |-> lap, from |-> Edge, to |-> to]
           end == Len(temps) + 1
<1>1. /\ temps \in Seq(Block_) /\ Len(temps) \in Nat /\ lap \in Nat
      /\ block \in Block_
      /\ block.lap = lap /\ block.from = Edge /\ block.to = to
  BY DEF TempInv, TempTypeOK, Block_
<1>2. \A i \in 1 .. Len(temps) :
        temps[i].lap \in Nat /\ temps[i].from \in Nat /\ temps[i].to \in Nat
  <2>1. \A i \in 1 .. Len(temps) : temps[i] \in Block_
    BY <1>1, ElementOfSeq
  <2> QED BY <2>1 DEF Block_
<1>3. temps' = Append(temps, block)
  OBVIOUS
<1> HIDE DEF block
<1>4. /\ temps' \in Seq(Block_) /\ Len(temps') = end /\ temps'[end] = block
      /\ \A i \in 1 .. Len(temps) : temps'[i] = temps[i]
  BY <1>1, <1>3
<1>5. ASSUME NEW i \in 1 .. Len(temps')
      PROVE  /\ temps'[i].from <= temps'[i].to /\ temps'[i].from <= TEMP_MEM_SIZE
             /\ temps'[i].lap <= lap'
             /\ temps'[i].lap = lap' => temps'[i].to <= Edge'
             /\ temps'[i].to >= TEMP_MEM_SIZE =>
                  temps'[i].lap < lap' /\ temps'[i].to - temps'[i].from > WarningSize
  <2>1. CASE i = end
    BY <2>1, <1>1, <1>4, MemoryAssumption
  <2>2. CASE i \in 1 .. Len(temps)
    <3>1. /\ temps'[i] = temps[i]
          /\ temps[i].from <= temps[i].to /\ temps[i].from <= TEMP_MEM_SIZE
          /\ temps[i].lap <= lap
          /\ temps[i].lap = lap => temps[i].to <= Edge
          /\ temps[i].to >= TEMP_MEM_SIZE =>
               temps[i].lap < lap /\ temps[i].to - temps[i].from > WarningSize
      BY <2>2, <1>4 DEF TempInv, BlocksInFront
    <3> QED BY <2>2, <3>1, <1>1, <1>2
  <2> QED BY <2>1, <2>2, <1>1, <1>4
<1>6. ASSUME NEW i \in 1 .. Len(temps'), NEW j \in 1 .. Len(temps'), i < j
      PROVE  /\ temps'[i].lap <= temps'[j].lap
             /\ temps'[i].to >= TEMP_MEM_SIZE => temps'[i].lap < temps'[j].lap
             /\ temps'[i].lap = temps'[j].lap => temps'[i].to <= temps'[j].from
  <2>1. i \in 1 .. Len(temps) /\ temps'[i] = temps[i]
    BY <1>1, <1>4, <1>6
  <2>2. CASE j = end
    <3>1. /\ temps[i].lap <= lap
          /\ temps[i].lap = lap => temps[i].to <= Edge
          /\ temps[i].to >= TEMP_MEM_SIZE => temps[i].lap < lap
      BY <2>1 DEF TempInv, BlocksInFront
    <3> QED BY <2>1, <2>2, <3>1, <1>1, <1>4
  <2>3. CASE j \in 1 .. Len(temps)
    BY <1>6, <2>1, <2>3, <1>4 DEF TempInv, BlocksInFront
  <2> QED BY <2>2, <2>3, <1>1, <1>4
<1> QED BY <1>4, <1>5, <1>6 DEF BlocksInFront

\* What all steps use of the running calls.
LEMMA CallsTyped ==
  ASSUME TempInv
  PROVE  /\ Len(calls) \in Nat /\ calls \in Seq(Call_)
         /\ calls # <<>> => Len(calls) >= 1
         /\ \A k \in 1 .. Len(calls) :
              /\ calls[k] \in Call_
              /\ calls[k].size \in Nat /\ calls[k].address \in Nat /\ calls[k].warned \in BOOLEAN
         /\ Edge \in Nat /\ Edge <= TEMP_MEM_SIZE
<1>1. /\ Len(calls) \in Nat /\ calls \in Seq(Call_) /\ position \in Nat /\ position <= TEMP_MEM_SIZE
      /\ calls # <<>> => Len(calls) >= 1
  BY EmptySeq DEF TempInv, TempTypeOK
<1>2. \A k \in 1 .. Len(calls) : calls[k] \in Call_
  BY <1>1, ElementOfSeq
<1>3. \A k \in 1 .. Len(calls) :
        calls[k].size \in Nat /\ calls[k].address \in Nat /\ calls[k].warned \in BOOLEAN
  BY <1>2 DEF Call_
<1>4. Edge \in Nat /\ Edge <= TEMP_MEM_SIZE
  BY <1>1, <1>3 DEF Edge, TempInv, CallsNest
<1> QED BY <1>1, <1>2, <1>3, <1>4

\* A call returns to the one before it.
LEMMA Returned ==
  ASSUME TempInv, calls # <<>>
  PROVE  /\ Return \in Seq(Call_) /\ Len(Return) = Len(calls) - 1
         /\ \A k \in 1 .. Len(Return) : Return[k] = calls[k]
<1>1. /\ Len(calls) \in Nat /\ Len(calls) >= 1 /\ calls \in Seq(Call_)
      /\ \A k \in 1 .. Len(calls) : calls[k] \in Call_
  BY CallsTyped
<1>2. \A k \in 1 .. Len(calls) - 1 : calls[k] \in Call_
  BY <1>1
<1> DEFINE m == Len(calls) - 1
<1>3. m \in Nat /\ \A k \in 1 .. m : calls[k] \in Call_
  BY <1>1, <1>2
<1>4. /\ SubSeq(calls, 1, m) \in Seq(Call_)
      /\ Len(SubSeq(calls, 1, m)) = IF 1 <= m THEN m - 1 + 1 ELSE 0
      /\ \A i \in 1 .. m - 1 + 1 : SubSeq(calls, 1, m)[i] = calls[1 + i - 1]
  <2> HIDE DEF m
  <2> QED BY <1>3, SubSeqProperties
<1>5. Len(SubSeq(calls, 1, m)) = m
  <2> HIDE DEF m
  <2> QED BY <1>3, <1>4
<1>6. \A k \in 1 .. m : SubSeq(calls, 1, m)[k] = calls[k]
  <2> HIDE DEF m
  <2> QED BY <1>3, <1>4
<1> QED BY <1>4, <1>5, <1>6 DEF Return

LEMMA TempAskKeeps ==
  ASSUME TempInv, NEW size \in Nat, TempAsk(size) PROVE TempInv'
<1>1. /\ calls' = <<Call(size)>> /\ calls = <<>> /\ size <= TEMP_MEM_SIZE
      /\ UNCHANGED <<position, temps, lap>>
  BY DEF TempAsk
<1>2. /\ Len(calls') = 1 /\ calls'[1] = [size |-> size, address |-> 0, warned |-> FALSE]
      /\ calls' \in Seq(Call_)
  BY <1>1 DEF Call, Call_
<1>3. TempTypeOK'
  BY <1>1, <1>2 DEF TempInv, TempTypeOK
<1>4. CallsNest'
  BY <1>1, <1>2 DEF CallsNest
<1>5. Edge' = Edge
  BY <1>1, <1>2, EmptySeq DEF Edge
<1>6. BlocksInFront'
  BY <1>1, <1>5 DEF TempInv, BlocksInFront
<1> QED BY <1>3, <1>4, <1>6 DEF TempInv

\* A request that fits: a block for the program, or the copy of a message.
LEMMA TempTakeKeeps ==
  ASSUME TempInv, TempTake PROVE TempInv'
<1> DEFINE n == Len(calls)
<1>1. /\ n \in Nat /\ n >= 1 /\ calls # <<>>
      /\ \A k \in 1 .. n : calls[k] \in Call_ /\ calls[k].size \in Nat /\ calls[k].address \in Nat
      /\ Edge \in Nat /\ Edge <= TEMP_MEM_SIZE
      /\ position \in Nat /\ lap \in Nat /\ temps \in Seq(Block_)
  BY CallsTyped DEF TempTake, TempInv, TempTypeOK
<1>2. /\ ~calls[n].warned /\ position + calls[n].size < TEMP_MEM_SIZE
      /\ position' = position + calls[n].size /\ lap' = lap
      /\ calls' = Return /\ HandOut(position)
  BY DEF TempTake, Caller
<1>3. /\ calls' \in Seq(Call_) /\ Len(calls') = n - 1
      /\ \A k \in 1 .. n - 1 : calls'[k] = calls[k]
  BY <1>1, <1>2, Returned
<1>4. position' \in Nat /\ position' <= TEMP_MEM_SIZE
  BY <1>1, <1>2, MemoryAssumption
<1>5. CASE n = 1
  <2>1. Edge = position /\ Edge' = position'
    BY <1>1, <1>2, <1>3, <1>5 DEF Edge
  <2>2. temps' = Append(temps, [lap |-> lap, from |-> Edge, to |-> position'])
    BY <1>2, <1>5, <2>1 DEF HandOut, Caller
  <2>3. Edge <= position' /\ position' < TEMP_MEM_SIZE
    BY <1>1, <1>2, <2>1
  <2>4. temps' \in Seq(Block_) /\ BlocksInFront'
    BY <1>1, <1>2, <1>4, <2>1, <2>2, <2>3, HandedOut
  <2>5. CallsNest'
    BY <1>3, <1>5 DEF CallsNest
  <2> QED BY <1>1, <1>2, <1>3, <1>4, <2>4, <2>5 DEF TempInv, TempTypeOK
<1>6. CASE n >= 2
  <2>1. n = 2 /\ calls[2].size = WarningSize
    <3>1. /\ \A k \in 2 .. n : calls[k].size = WarningSize
          /\ n >= 3 => position + WarningSize >= TEMP_MEM_SIZE
      BY DEF TempInv, CallsNest
    <3>2. calls[n].size = WarningSize
      BY <1>1, <1>6, <3>1
    <3>3. n < 3
      BY <1>1, <1>2, <3>1, <3>2, MemoryAssumption
    <3>4. n \in Nat
      BY <1>1
    <3>5. n = 2
      <4> HIDE DEF n
      <4> QED BY <1>6, <3>3, <3>4
    <3> QED BY <3>2, <3>5
  <2>2. /\ calls[1].warned /\ calls[1].address = position
        /\ calls[1].address + calls[1].size >= TEMP_MEM_SIZE
        /\ calls[1].address <= TEMP_MEM_SIZE /\ calls[1].size <= TEMP_MEM_SIZE
    <3>1. /\ \A k \in 1 .. n : k < n => calls[k].warned
          /\ n >= 2 => calls[1].address = position
          /\ n >= 1 /\ calls[1].warned =>
               /\ calls[1].address + calls[1].size >= TEMP_MEM_SIZE
               /\ calls[1].address <= TEMP_MEM_SIZE
          /\ n >= 1 => calls[1].size <= TEMP_MEM_SIZE
      BY DEF TempInv, CallsNest
    <3>2. calls[1].warned
      BY <1>1, <1>6, <3>1
    <3> QED BY <1>1, <1>6, <3>1, <3>2
  <2>3. temps' = temps /\ Edge' = Edge
    BY <1>2, <1>3, <2>1, <2>2 DEF HandOut, Edge
  <2>4. CallsNest'
    BY <1>1, <1>2, <1>3, <2>1, <2>2 DEF CallsNest
  <2>5. BlocksInFront'
    BY <1>2, <2>3 DEF TempInv, BlocksInFront
  <2> QED BY <1>1, <1>2, <1>3, <1>4, <2>3, <2>4, <2>5 DEF TempInv, TempTypeOK
<1>7. n = 1 \/ n >= 2
  <2>1. n \in Nat /\ n >= 1
    BY <1>1
  <2> HIDE DEF n
  <2> QED BY <2>1
<1> QED BY <1>5, <1>6, <1>7

\* A warning: only the outermost call can be anything but one.
LEMMA TempWarnKeeps ==
  ASSUME TempInv, TempWarn PROVE TempInv'
<1> DEFINE n == Len(calls)
           caller == [size |-> calls[n].size, address |-> position, warned |-> TRUE]
           message == [size |-> WarningSize, address |-> 0, warned |-> FALSE]
<1>1. /\ n \in Nat /\ n >= 1 /\ calls \in Seq(Call_)
      /\ \A k \in 1 .. n : calls[k] \in Call_ /\ calls[k].size \in Nat /\ calls[k].address \in Nat
      /\ position \in Nat /\ position <= TEMP_MEM_SIZE
  BY CallsTyped DEF TempWarn, TempInv, TempTypeOK
<1>2. /\ ~calls[n].warned /\ position + calls[n].size >= TEMP_MEM_SIZE
      /\ calls' = Append([calls EXCEPT ![n] = caller], message)
      /\ UNCHANGED <<position, temps, lap>>
  BY DEF TempWarn, Caller, Call
<1>3. caller \in Call_ /\ message \in Call_ /\ caller.warned /\ ~message.warned
      /\ caller.address = position /\ caller.size = calls[n].size /\ message.size = WarningSize
  BY <1>1, MemoryAssumption DEF Call_
<1> HIDE DEF caller, message
<1>4. /\ [calls EXCEPT ![n] = caller] \in Seq(Call_) /\ Len([calls EXCEPT ![n] = caller]) = n
      /\ \A k \in 1 .. n : [calls EXCEPT ![n] = caller][k] = IF k = n THEN caller ELSE calls[k]
  BY <1>1, <1>3, ExceptSeq
<1>5. /\ calls' \in Seq(Call_) /\ Len(calls') = n + 1 /\ calls'[n + 1] = message
      /\ calls'[n] = caller /\ \A k \in 1 .. n - 1 : calls'[k] = calls[k]
  <2> DEFINE outer == [calls EXCEPT ![n] = caller]
  <2>1. /\ outer \in Seq(Call_) /\ Len(outer) = n /\ calls' = Append(outer, message)
        /\ \A k \in 1 .. n : outer[k] = IF k = n THEN caller ELSE calls[k]
    BY <1>2, <1>4
  <2> HIDE DEF outer, n
  <2>2. /\ calls' \in Seq(Call_) /\ Len(calls') = n + 1 /\ calls'[n + 1] = message
        /\ \A k \in 1 .. n : calls'[k] = outer[k]
    BY <1>1, <1>3, <2>1
  <2> QED BY <1>1, <2>1, <2>2
<1> HIDE DEF n
<1>6. TempTypeOK'
  BY <1>2, <1>5 DEF TempInv, TempTypeOK
<1>7. CASE n = 1
  <2>1. calls'[1] = caller /\ Len(calls') = 2 /\ calls'[2] = message
    BY <1>5, <1>7
  <2>2. Edge = position /\ Edge' = position
    BY <1>2, <1>3, <1>7, <2>1 DEF Edge, n
  <2>3. calls[1].size <= TEMP_MEM_SIZE
    BY <1>7 DEF TempInv, CallsNest, n
  <2>4. CallsNest'
    BY <1>1, <1>2, <1>3, <1>7, <2>1, <2>3 DEF CallsNest
  <2>5. BlocksInFront'
    BY <1>2, <2>2 DEF TempInv, BlocksInFront
  <2> QED BY <1>6, <2>4, <2>5 DEF TempInv
<1>8. CASE n >= 2
  <2>1. /\ \A k \in 1 .. n : k < n => calls[k].warned
        /\ \A k \in 2 .. n : calls[k].size = WarningSize
        /\ calls[1].address = position /\ calls[1].warned
        /\ calls[1].address + calls[1].size >= TEMP_MEM_SIZE
        /\ calls[1].address <= TEMP_MEM_SIZE /\ calls[1].size <= TEMP_MEM_SIZE
    BY <1>1, <1>8 DEF TempInv, CallsNest, n
  <2>2. calls'[1] = calls[1] /\ Len(calls') >= 3 /\ position + WarningSize >= TEMP_MEM_SIZE
    BY <1>1, <1>2, <1>5, <1>8, <2>1
  <2>3. Edge' = Edge
    BY <1>1, <1>2, <1>8, <2>1, <2>2 DEF Edge, n
  <2>4. ASSUME NEW k \in 1 .. n + 1, k < n + 1
        PROVE  calls'[k].warned
    <3>1. CASE k = n
      BY <1>3, <1>5, <3>1
    <3>2. CASE k < n
      <4>1. k \in 1 .. n - 1 /\ k \in 1 .. n
        BY <1>1, <3>2
      <4>2. calls'[k] = calls[k] /\ calls[k].warned
        BY <1>5, <2>1, <3>2, <4>1
      <4> QED BY <4>2
    <3> QED BY <1>1, <2>4, <3>1, <3>2
  <2>5. \A k \in 2 .. n + 1 : calls'[k].size = WarningSize
    BY <1>1, <1>3, <1>5, <1>8, <2>1
  <2>6. CallsNest'
    BY <1>1, <1>2, <1>3, <1>5, <1>8, <2>1, <2>2, <2>4, <2>5 DEF CallsNest
  <2>7. BlocksInFront'
    BY <1>2, <2>3 DEF TempInv, BlocksInFront
  <2> QED BY <1>6, <2>6, <2>7 DEF TempInv
<1> QED BY <1>1, <1>7, <1>8

\* The end of a warning: only the outermost call sees one.
LEMMA TempWrapKeeps ==
  ASSUME TempInv, TempWrap PROVE TempInv'
<1>1. /\ Len(calls) \in Nat /\ Len(calls) >= 1 /\ calls # <<>>
      /\ \A k \in 1 .. Len(calls) : calls[k].size \in Nat /\ calls[k].address \in Nat
      /\ calls[Len(calls)].warned
      /\ position \in Nat /\ lap \in Nat /\ temps \in Seq(Block_)
  BY CallsTyped DEF TempWrap, Caller, TempInv, TempTypeOK
<1>2. Len(calls) = 1
  <2>1. Len(calls) >= 2 => ~calls[Len(calls)].warned
    BY DEF TempInv, CallsNest
  <2>2. ~(Len(calls) >= 2)
    BY <1>1, <2>1, Zenon
  <2> DEFINE n == Len(calls)
  <2>3. n \in Nat /\ n >= 1 /\ ~(n >= 2)
    BY <1>1, <2>2
  <2> HIDE DEF n
  <2>4. n = 1
    BY <2>3
  <2> QED BY <2>4 DEF n
<1> DEFINE address == calls[1].address
           size == calls[1].size
           end == address + size
<1>3. /\ address \in Nat /\ size \in Nat
      /\ address + size >= TEMP_MEM_SIZE /\ address <= TEMP_MEM_SIZE
      /\ size <= TEMP_MEM_SIZE /\ address + WarningSize < TEMP_MEM_SIZE
      /\ Edge = address
  BY <1>1, <1>2 DEF TempInv, CallsNest, Edge
<1>4. /\ temps' = Append(temps, [lap |-> lap, from |-> Edge, to |-> address + size])
      /\ lap' = lap + 1
      /\ position' = IF address + size > TEMP_MEM_SIZE THEN size ELSE 0
      /\ calls' = Return
  BY <1>2, <1>3 DEF TempWrap, HandOut, Caller
<1>5. calls' \in Seq(Call_) /\ Len(calls') = 0
  BY <1>1, <1>2, <1>4, Returned
<1>6. position' \in Nat /\ position' <= TEMP_MEM_SIZE /\ Edge' = position'
  BY <1>3, <1>4, <1>5, MemoryAssumption DEF Edge
<1> HIDE DEF address, size
<1>7. /\ Edge <= end /\ end - Edge > WarningSize
      /\ end \in Nat /\ lap + 1 \in Nat /\ lap' \in Nat /\ Edge \in Nat /\ Edge <= TEMP_MEM_SIZE
      /\ temps' = Append(temps, [lap |-> lap, from |-> Edge, to |-> end])
      /\ lap' = lap + 1
  <2>1. /\ Edge <= end /\ end - Edge > WarningSize /\ end \in Nat
        /\ Edge \in Nat /\ Edge <= TEMP_MEM_SIZE
    BY <1>3, MemoryAssumption
  <2>2. lap + 1 \in Nat
    BY <1>1
  <2> QED BY <1>4, <2>1, <2>2
<1> HIDE DEF end
<1>8. temps' \in Seq(Block_) /\ BlocksInFront'
  BY <1>6, <1>7, HandedOut
<1>9. CallsNest'
  BY <1>5 DEF CallsNest
<1> QED BY <1>4, <1>5, <1>6, <1>7, <1>8, <1>9 DEF TempInv, TempTypeOK

LEMMA TempKeeps == TempInv /\ [ArenaNext(Nat) \/ TempNext(Nat)]_memoryVars => TempInv'
<1> SUFFICES ASSUME TempInv, [ArenaNext(Nat) \/ TempNext(Nat)]_memoryVars PROVE TempInv'
  OBVIOUS
<1>1. CASE UNCHANGED tempVars
  BY <1>1 DEF tempVars, TempInv, TempTypeOK, CallsNest, BlocksInFront, Edge
<1>2. ASSUME NEW size \in Nat, TempAsk(size) PROVE TempInv'
  BY <1>2, TempAskKeeps
<1>3. CASE TempTake
  BY <1>3, TempTakeKeeps
<1>4. CASE TempWarn
  BY <1>4, TempWarnKeeps
<1>5. CASE TempWrap
  BY <1>5, TempWrapKeeps
<1>6. CASE TempReset
  <2>1. calls = <<>> /\ calls' = <<>> /\ position' = 0 /\ temps' = <<>> /\ lap' = 0
    BY <1>6 DEF TempReset
  <2> QED BY <2>1, MemoryAssumption, EmptySeq DEF TempInv, TempTypeOK, CallsNest, BlocksInFront
<1>7. CASE ArenaNext(Nat)
  <2>1. UNCHANGED tempVars
    BY <1>7 DEF ArenaNext, ArenaAsk, ArenaTake, ArenaGoOn, ArenaExtend
  <2> QED BY <2>1, <1>1
<1> QED BY <1>1, <1>2, <1>3, <1>4, <1>5, <1>6, <1>7 DEF TempNext, memoryVars

(* Temporary blocks are apart unless the buffer wrapped between them, and it only
   wraps with a request longer than its own warning, for every size of the buffer
   and every sequence of requests (temp_allocate, src/talloc.cpp:58).              *)
THEOREM TemporaryIsSound == MemorySpec => []TempBlocksApart
<1>1. MemoryInit => TempInv
  BY TempStarts
<1>2. TempInv /\ [ArenaNext(Nat) \/ TempNext(Nat)]_memoryVars => TempInv'
  BY TempKeeps
<1>3. TempInv => TempBlocksApart
  BY InFrontIsApart
<1> QED BY <1>1, <1>2, <1>3, PTL DEF MemorySpec

--------------------------------------------------------------------------------
(* The text.                                                                    *)

\* The cells that were written hold their bytes, and those behind them zeros.
TextOK ==
  /\ text \in [count : Nat, grow : Nat, cells : Seq(Nat), at : Nat]
  /\ adding \in [elements : Nat, asked : BOOLEAN]
  /\ Len(text.cells) > 0 /\ text.grow = 2 * Len(text.cells)
  /\ text.count <= Len(text.cells)
  /\ \A i \in 1 .. Len(text.cells) : text.cells[i] = IF i <= text.count THEN i ELSE 0

LastChunk == chunks[Len(chunks)]
LastBlock == blocks[Len(blocks)]

\* Chunks before the last one have less room than a size.
NoRoomBefore(size) ==
  \A c \in 1 .. Len(chunks) - 1 : chunks[c].size - chunks[c].index < size

\* The last block has a size, and is the last one in the last chunk: one of the first
\* four blocks, which fill the first chunk but for as much as the first block, or a
\* block that fills half a later chunk.
Settled(size) ==
  /\ Len(blocks) > 0 /\ LastBlock.chunk = Len(chunks)
  /\ LastBlock.to - LastBlock.from = size /\ LastBlock.to = LastChunk.index
  /\ \/ /\ Len(chunks) = 1 /\ LastChunk.size = 16 * TextSize
        /\ size = TextSize \/ size = 2 * TextSize \/ size = 4 * TextSize \/ size = 8 * TextSize
        /\ LastChunk.index = 2 * size - TextSize
     \/ /\ Len(chunks) > 1 /\ LastChunk.size = 2 * size
        /\ LastChunk.index = size
  /\ NoRoomBefore(size)

\* A chunk was opened to grow from a size, and nothing is in it.
Opened(size) ==
  /\ Len(chunks) > 1 /\ LastChunk.size = 4 * size /\ LastChunk.index = 0
  /\ request.at = Len(chunks)
  /\ NoRoomBefore(2 * size)

Placed ==
  /\ ~adding.asked => Idle /\ text.at = Len(blocks) /\ Settled(Len(text.cells))
  /\ adding.asked /\ Idle => Settled(2 * Len(text.cells))
  /\ adding.asked /\ ~Idle =>
       /\ request.size = 2 * Len(text.cells)
       /\ Settled(Len(text.cells)) \/ Opened(Len(text.cells))

TextInv == ArenaInv /\ TextOK /\ Placed

LEMMA TextStarts == TextInit => TextInv
<1> SUFFICES ASSUME TextInit PROVE TextInv
  OBVIOUS
<1>1. /\ TextSize \in Nat /\ TextSize > 0 /\ ArenaSize = 16 * TextSize /\ ArenaSize \in Nat
  BY ContainersAssumption
<1>2. /\ chunks = <<[size |-> ArenaSize, index |-> TextSize]>>
      /\ blocks = <<[chunk |-> 1, from |-> 0, to |-> TextSize]>>
      /\ request = [size |-> 0, at |-> 0]
  BY DEF TextInit, NoRequest
<1>3. ArenaInv
  <2>1. ArenaTypeOK
    BY <1>1, <1>2 DEF ArenaTypeOK
  <2>2. BlocksBehindIndex /\ ArenaBlocksApart
    BY <1>1, <1>2 DEF BlocksBehindIndex, ArenaBlocksApart
  <2> QED BY <2>1, <2>2 DEF ArenaInv
<1>4. /\ text = [count |-> 0, grow |-> 2 * TextSize, cells |-> Zeros(TextSize), at |-> 1]
      /\ adding = [elements |-> 0, asked |-> FALSE]
  BY DEF TextInit, NotAdding
<1>5. /\ Zeros(TextSize) \in Seq(Nat) /\ Len(Zeros(TextSize)) = TextSize
      /\ \A i \in 1 .. TextSize : Zeros(TextSize)[i] = 0
  BY <1>1 DEF Zeros
<1>6. TextOK
  BY <1>1, <1>4, <1>5 DEF TextOK
<1>7. Placed
  BY <1>1, <1>2, <1>4, <1>5 DEF Placed, Settled, NoRoomBefore, LastBlock, LastChunk, Idle
<1> QED BY <1>3, <1>6, <1>7 DEF TextInv

\* What the steps use of the arena.
LEMMA ArenaTyped ==
  ASSUME ArenaInv
  PROVE  /\ Len(chunks) \in Nat /\ Len(chunks) > 0 /\ Len(blocks) \in Nat
         /\ request.size \in Nat /\ request.at \in 0 .. Len(chunks)
         /\ \A c \in 1 .. Len(chunks) :
              /\ chunks[c] \in [size : Nat, index : Nat]
              /\ chunks[c].size \in Nat /\ chunks[c].index \in Nat
              /\ chunks[c].index <= chunks[c].size
         /\ \A b \in 1 .. Len(blocks) :
              /\ blocks[b].chunk \in 1 .. Len(chunks)
              /\ blocks[b].from \in Nat /\ blocks[b].to \in Nat
              /\ blocks[b].from <= blocks[b].to
              /\ blocks[b].to <= chunks[blocks[b].chunk].index
<1>1. /\ chunks \in Seq([size : Nat, index : Nat]) /\ chunks # <<>>
      /\ request \in [size : Nat, at : Nat] /\ request.at <= Len(chunks)
      /\ blocks \in Seq([chunk : Nat, from : Nat, to : Nat])
  BY DEF ArenaInv, ArenaTypeOK
<1>2. /\ \A c \in 1 .. Len(chunks) : chunks[c] \in [size : Nat, index : Nat]
      /\ \A b \in 1 .. Len(blocks) : blocks[b] \in [chunk : Nat, from : Nat, to : Nat]
  BY <1>1, ElementOfSeq
<1>3. DOMAIN chunks = 1 .. Len(chunks) /\ DOMAIN blocks = 1 .. Len(blocks)
  BY <1>1
<1>4. /\ Len(chunks) \in Nat /\ Len(chunks) > 0 /\ Len(blocks) \in Nat
      /\ request.size \in Nat /\ request.at \in 0 .. Len(chunks)
  BY <1>1
<1>5. \A c \in 1 .. Len(chunks) :
        /\ chunks[c].size \in Nat /\ chunks[c].index \in Nat
        /\ chunks[c].index <= chunks[c].size
  BY <1>2, <1>3 DEF ArenaInv, BlocksBehindIndex
<1>6. \A b \in 1 .. Len(blocks) :
        /\ blocks[b].chunk \in 1 .. Len(chunks)
        /\ blocks[b].from \in Nat /\ blocks[b].to \in Nat
        /\ blocks[b].from <= blocks[b].to
        /\ blocks[b].to <= chunks[blocks[b].chunk].index
  BY <1>2, <1>3 DEF ArenaInv, BlocksBehindIndex
<1> QED BY <1>2, <1>4, <1>5, <1>6

\* The text ends with a zero wherever its last block is.
LEMMA SettledIsTerminated == TextInv => TextIsTerminated
<1> SUFFICES ASSUME TextInv, text.at # 0, adding = NotAdding
             PROVE  LET block == blocks[text.at]
                    IN  /\ text.count <= Len(text.cells)
                        /\ Len(text.cells) = block.to - block.from
                        /\ \A i \in 1 .. text.count : text.cells[i] = i
                        /\ IF text.count < Len(text.cells)
                             THEN text.cells[text.count + 1] = 0
                             ELSE /\ block.to < chunks[block.chunk].size
                                  /\ \A b \in Range(blocks) :
                                       b.chunk = block.chunk => block.to \notin b.from .. b.to - 1
  BY DEF TextIsTerminated
<1> DEFINE s == Len(text.cells)
           block == blocks[text.at]
<1>1. /\ s \in Nat /\ s > 0 /\ text.count \in Nat /\ text.count <= s
      /\ \A i \in 1 .. s : text.cells[i] = IF i <= text.count THEN i ELSE 0
  BY DEF TextInv, TextOK
<1>2. text.at = Len(blocks) /\ Settled(s)
  BY DEF TextInv, Placed, NotAdding
<1>3. TextSize \in Nat /\ TextSize > 0
  BY ContainersAssumption
<1>4. /\ Len(chunks) \in Nat /\ Len(chunks) > 0 /\ Len(blocks) \in Nat
      /\ chunks[Len(chunks)].size \in Nat /\ chunks[Len(chunks)].index \in Nat
  BY ArenaTyped DEF TextInv
<1>5. /\ Len(blocks) > 0 /\ block = blocks[Len(blocks)] /\ block.chunk = Len(chunks)
      /\ block.to - block.from = s /\ block.to = chunks[Len(chunks)].index
  BY <1>2 DEF Settled, LastBlock, LastChunk
<1>6. block.to < chunks[Len(chunks)].size
  BY <1>1, <1>2, <1>3, <1>4, <1>5 DEF Settled, LastBlock, LastChunk
<1>7. ASSUME NEW b \in Range(blocks), b.chunk = block.chunk
      PROVE  block.to \notin b.from .. b.to - 1
  <2>1. PICK k \in 1 .. Len(blocks) : b = blocks[k]
    BY <1>4 DEF Range, ArenaInv, ArenaTypeOK, TextInv
  <2>2. b.to \in Nat /\ b.from \in Nat /\ b.to <= chunks[b.chunk].index
    BY <2>1, ArenaTyped DEF TextInv
  <2> QED BY <2>2, <1>4, <1>5, <1>7
<1>8. \A i \in 1 .. text.count : text.cells[i] = i
  BY <1>1
<1>9. ASSUME text.count < s PROVE text.cells[text.count + 1] = 0
  BY <1>1, <1>9
<1> QED BY <1>1, <1>5, <1>6, <1>7, <1>8, <1>9

LEMMA SizeTyped ==
  ASSUME TextOK
  PROVE  /\ Len(text.cells) \in Nat /\ Len(text.cells) > 0 /\ text.cells \in Seq(Nat)
         /\ text.count \in Nat /\ text.count <= Len(text.cells)
         /\ text.grow = 2 * Len(text.cells) /\ text.at \in Nat
         /\ adding.elements \in Nat /\ adding.asked \in BOOLEAN
BY DEF TextOK

\* Texts with other fields.
LEMMA TextFilled ==
  ASSUME NEW t \in [count : Nat, grow : Nat, cells : Seq(Nat), at : Nat],
         NEW c \in Nat, NEW cells \in Seq(Nat)
  PROVE  LET u == [t EXCEPT !.count = c, !.cells = cells]
         IN  /\ u \in [count : Nat, grow : Nat, cells : Seq(Nat), at : Nat]
             /\ u.count = c /\ u.cells = cells /\ u.grow = t.grow /\ u.at = t.at
OBVIOUS

LEMMA TextMoved ==
  ASSUME NEW t \in [count : Nat, grow : Nat, cells : Seq(Nat), at : Nat],
         NEW cells \in Seq(Nat), NEW g \in Nat, NEW a \in Nat
  PROVE  LET u == [t EXCEPT !.cells = cells, !.grow = g, !.at = a]
         IN  /\ u \in [count : Nat, grow : Nat, cells : Seq(Nat), at : Nat]
             /\ u.count = t.count /\ u.cells = cells /\ u.grow = g /\ u.at = a
OBVIOUS

LEMMA BehindIt ==
  ASSUME NEW S, NEW a \in Seq(S), NEW b \in Seq(S), NEW i \in 1 .. Len(b)
  PROVE  (a \o b)[Len(a) + i] = b[i]
<1>1. /\ Len(a) + i \in 1 .. Len(a) + Len(b)
      /\ ~(Len(a) + i <= Len(a)) /\ (Len(a) + i) - Len(a) = i
  OBVIOUS
<1> QED BY <1>1, ConcatProperties

LEMMA InFront ==
  ASSUME NEW S, NEW a \in Seq(S), NEW b \in Seq(S)
  PROVE  /\ a \o b \in Seq(S) /\ Len(a \o b) = Len(a) + Len(b)
         /\ Len(a) \in Nat /\ Len(b) \in Nat
         /\ \A i \in 1 .. Len(a) : (a \o b)[i] = a[i]
         /\ \A i \in 1 .. Len(b) : (a \o b)[Len(a) + i] = b[i]
<1>1. \A i \in 1 .. Len(b) : (a \o b)[Len(a) + i] = b[i]
  BY BehindIt
<1> QED BY <1>1

\* A block and as much behind it.
LEMMA Doubled ==
  ASSUME NEW a \in Seq(Nat), NEW b \in Seq(Nat), Len(a) = Len(b)
  PROVE  /\ a \o b \in Seq(Nat) /\ Len(a \o b) = 2 * Len(a)
         /\ \A i \in 1 .. Len(a) : (a \o b)[i] = a[i] /\ (a \o b)[Len(a) + i] = b[i]
<1>1. a \o b \in Seq(Nat) /\ Len(a \o b) = 2 * Len(a)
  OBVIOUS
<1>2. ASSUME NEW i \in 1 .. Len(a) PROVE (a \o b)[i] = a[i] /\ (a \o b)[Len(a) + i] = b[i]
  <2>1. i \in 1 .. Len(b)
    OBVIOUS
  <2>2. (a \o b)[Len(a) + i] = b[i]
    BY <2>1, BehindIt
  <2>3. (a \o b)[i] = a[i]
    OBVIOUS
  <2> QED BY <2>2, <2>3
<1> QED BY <1>1, <1>2

\* A list_fill of elements there is room for.
LEMMA FilledIsOK ==
  ASSUME TextOK, NEW elements \in Nat, text.count + elements <= Len(text.cells),
         text' = Filled(text, elements), adding' \in [elements : Nat, asked : BOOLEAN]
  PROVE  TextOK' /\ Len(text'.cells) = Len(text.cells) /\ text'.at = text.at
<1> DEFINE s == Len(text.cells)
           filled == [i \in 1 .. s |-> IF i \in text.count + 1 .. text.count + elements
                                         THEN i ELSE text.cells[i]]
<1>1. /\ s \in Nat /\ s > 0 /\ text.cells \in Seq(Nat)
      /\ text.count \in Nat /\ text.count <= s /\ text.grow = 2 * s /\ text.at \in Nat
      /\ text \in [count : Nat, grow : Nat, cells : Seq(Nat), at : Nat]
      /\ \A i \in 1 .. s : text.cells[i] = IF i <= text.count THEN i ELSE 0
  BY DEF TextOK
<1>2. /\ DOMAIN text.cells = 1 .. s
      /\ \A i \in 1 .. s : text.cells[i] \in Nat
  BY <1>1, ElementOfSeq
<1>3. filled \in Seq(Nat) /\ Len(filled) = s
  BY <1>1, <1>2
<1>4. text' = [text EXCEPT !.count = text.count + elements, !.cells = filled]
  BY <1>2 DEF Filled
<1>6. \A i \in 1 .. s : filled[i] = IF i <= text.count + elements THEN i ELSE 0
  BY <1>1
<1> HIDE DEF filled
<1>5. /\ text'.count = text.count + elements /\ text'.cells = filled
      /\ text'.grow = text.grow /\ text'.at = text.at
      /\ text' \in [count : Nat, grow : Nat, cells : Seq(Nat), at : Nat]
  <2>1. text.count + elements \in Nat
    BY <1>1
  <2>2. text \in [count : Nat, grow : Nat, cells : Seq(Nat), at : Nat] /\ filled \in Seq(Nat)
    BY <1>1, <1>3
  <2>3. text' = [text EXCEPT !.count = text.count + elements, !.cells = filled]
    BY <1>4
  <2> DEFINE count == text.count + elements
  <2> HIDE DEF count
  <2>4. count \in Nat /\ text' = [text EXCEPT !.count = count, !.cells = filled]
    BY <2>1, <2>3 DEF count
  <2>5. /\ text'.count = count /\ text'.cells = filled
        /\ text'.grow = text.grow /\ text'.at = text.at
        /\ text' \in [count : Nat, grow : Nat, cells : Seq(Nat), at : Nat]
    BY <2>2, <2>4, TextFilled
  <2> QED BY <2>5 DEF count
<1> QED BY <1>1, <1>3, <1>5, <1>6 DEF TextOK

\* The writes leave the arena alone.
LEMMA PlacedAgain ==
  ASSUME Placed, UNCHANGED arenaVars, ~adding.asked, ~adding'.asked,
         Len(text'.cells) = Len(text.cells), text'.at = text.at
  PROVE  Placed'
BY DEF Placed, arenaVars, Idle, Settled, NoRoomBefore, LastBlock, LastChunk

LEMMA ArenaAgain == ArenaInv /\ UNCHANGED arenaVars => ArenaInv'
BY DEF arenaVars, ArenaInv, ArenaTypeOK, BlocksBehindIndex, ArenaBlocksApart, Overlap

LEMMA WritesKeep ==
  ASSUME TextInv, NEW elements \in Nat, Write(elements) \/ WriteMore(elements) PROVE TextInv'
<1>0. TextOK /\ Placed /\ ArenaInv /\ ArenaInv' /\ UNCHANGED arenaVars
  BY ArenaAgain DEF TextInv, Write, WriteMore
<1>1. CASE Write(elements)
  <2>1. adding = NotAdding /\ adding' = NotAdding /\ text' = Filled(text, elements)
    BY <1>1 DEF Write
  <2>2. text.count + elements <= Len(text.cells)
    BY <1>0, <1>1, SizeTyped DEF Write, HasRoom
  <2>3. ~adding.asked /\ ~adding'.asked /\ adding' \in [elements : Nat, asked : BOOLEAN]
    BY <2>1 DEF NotAdding
  <2>4. TextOK' /\ Len(text'.cells) = Len(text.cells) /\ text'.at = text.at
    BY <1>0, <2>1, <2>2, <2>3, FilledIsOK
  <2> QED BY <1>0, <2>3, <2>4, PlacedAgain DEF TextInv
<1>2. CASE WriteMore(elements)
  <2>1. adding = NotAdding /\ adding' = [elements |-> elements, asked |-> FALSE] /\ text' = text
    BY <1>2 DEF WriteMore
  <2>2. ~adding.asked /\ ~adding'.asked /\ adding' \in [elements : Nat, asked : BOOLEAN]
    BY <2>1 DEF NotAdding
  <2>3. TextOK'
    BY <1>0, <2>1, <2>2 DEF TextOK
  <2> QED BY <1>0, <2>1, <2>2, <2>3, PlacedAgain DEF TextInv
<1> QED BY <1>1, <1>2

LEMMA WriteGrownKeeps == TextInv /\ WriteGrown => TextInv'
<1> SUFFICES ASSUME TextInv, WriteGrown PROVE TextInv'
  OBVIOUS
<1>0. TextOK /\ Placed /\ ArenaInv /\ ArenaInv' /\ UNCHANGED arenaVars
  BY ArenaAgain DEF TextInv, WriteGrown
<1>1. /\ ~adding.asked /\ adding' = NotAdding /\ text' = Filled(text, adding.elements)
      /\ text.count + adding.elements < Len(text.cells)
  BY DEF WriteGrown, Fills
<1>2. ~adding'.asked /\ adding' \in [elements : Nat, asked : BOOLEAN]
  BY <1>1 DEF NotAdding
<1>3. adding.elements \in Nat /\ text.count \in Nat /\ Len(text.cells) \in Nat
  BY <1>0, SizeTyped
<1>4. TextOK' /\ Len(text'.cells) = Len(text.cells) /\ text'.at = text.at
  BY <1>0, <1>1, <1>2, <1>3, FilledIsOK
<1> QED BY <1>0, <1>1, <1>2, <1>4, PlacedAgain DEF TextInv

LEMMA GrowAskKeeps == TextInv /\ GrowAsk => TextInv'
<1> SUFFICES ASSUME TextInv, GrowAsk PROVE TextInv'
  OBVIOUS
<1>1. /\ ~adding.asked /\ adding' = [adding EXCEPT !.asked = TRUE] /\ text' = text
      /\ request' = [size |-> text.grow, at |-> 1] /\ chunks' = chunks /\ blocks' = blocks
  BY DEF GrowAsk, ArenaAsk
<1>2. text.grow = 2 * Len(text.cells) /\ text.grow \in Nat /\ TextOK /\ ArenaInv /\ Placed
  BY SizeTyped DEF TextInv
<1>3. ArenaInv'
  <2>1. ArenaAsk(text.grow)
    BY DEF GrowAsk
  <2> QED BY <2>1, <1>2, ArenaKeeps DEF ArenaNext
<1>4. adding' \in [elements : Nat, asked : BOOLEAN] /\ adding'.asked
  BY <1>1, <1>2 DEF TextOK
<1>5. TextOK'
  BY <1>1, <1>2, <1>4 DEF TextOK
<1>6. Settled(Len(text.cells))'
  BY <1>1, <1>2 DEF Placed, Settled, NoRoomBefore, LastBlock, LastChunk
<1>7. Placed'
  BY <1>1, <1>2, <1>4, <1>6 DEF Placed, Idle
<1> QED BY <1>3, <1>5, <1>7 DEF TextInv

LEMMA GrowKeeps == TextInv /\ Grow => TextInv'
<1> SUFFICES ASSUME TextInv, Grow PROVE TextInv'
  OBVIOUS
<1> DEFINE s == Len(text.cells)
           more == text.cells \o Zeros(text.grow - s)
<1>0. TextOK /\ Placed /\ ArenaInv /\ ArenaInv' /\ UNCHANGED arenaVars
  BY ArenaAgain DEF TextInv, Grow
<1>1. /\ adding.asked /\ Idle /\ adding' = [adding EXCEPT !.asked = FALSE]
      /\ text' = [text EXCEPT !.cells = more, !.grow = 2 * text.grow, !.at = Len(blocks)]
  BY DEF Grow
<1>2. /\ s \in Nat /\ s > 0 /\ text.cells \in Seq(Nat)
      /\ text.count \in Nat /\ text.count <= s /\ text.grow = 2 * s
      /\ text \in [count : Nat, grow : Nat, cells : Seq(Nat), at : Nat]
      /\ adding \in [elements : Nat, asked : BOOLEAN]
      /\ \A i \in 1 .. s : text.cells[i] = IF i <= text.count THEN i ELSE 0
  BY <1>0 DEF TextOK
<1>3. /\ Zeros(s) \in Seq(Nat) /\ Len(Zeros(s)) = s
      /\ \A i \in 1 .. s : Zeros(s)[i] = 0
  BY <1>2 DEF Zeros
<1>4. more = text.cells \o Zeros(s)
  BY <1>2
<1>5. /\ more \in Seq(Nat) /\ Len(more) = 2 * s
      /\ \A i \in 1 .. s : more[i] = text.cells[i] /\ more[s + i] = 0
  <2> HIDE DEF more
  <2> QED BY <1>2, <1>3, <1>4, Doubled
<1>6. \A i \in 1 .. 2 * s : more[i] = IF i <= text.count THEN i ELSE 0
  <2> SUFFICES ASSUME NEW i \in 1 .. 2 * s PROVE more[i] = IF i <= text.count THEN i ELSE 0
    OBVIOUS
  <2> HIDE DEF more
  <2>2. CASE i <= s
    BY <2>2, <1>2, <1>5
  <2>3. CASE i > s
    <3>1. i - s \in 1 .. s /\ ~(i <= text.count) /\ s + (i - s) = i
      BY <2>3, <1>2
    <3>2. more[s + (i - s)] = 0
      BY <3>1, <1>5
    <3> QED BY <3>1, <3>2
  <2> QED BY <2>2, <2>3, <1>2
<1>7. Len(blocks) \in Nat
  BY <1>0, ArenaTyped
<1> HIDE DEF more
<1>8. /\ text'.cells = more /\ text'.grow = 2 * text.grow /\ text'.at = Len(blocks)
      /\ text'.count = text.count
      /\ text' \in [count : Nat, grow : Nat, cells : Seq(Nat), at : Nat]
  <2>1. 2 * text.grow \in Nat
    BY <1>2
  <2> QED BY <1>1, <1>2, <1>5, <1>7, <2>1, TextMoved
<1>9. adding' \in [elements : Nat, asked : BOOLEAN] /\ ~adding'.asked
  BY <1>1, <1>2
<1>10. TextOK'
  <2>1. /\ Len(text'.cells) > 0 /\ text'.grow = 2 * Len(text'.cells)
        /\ text'.count <= Len(text'.cells)
    <3> DEFINE n == Len(text'.cells)
    <3>1. n = 2 * s /\ text'.grow = 2 * (2 * s) /\ text'.count <= s
      BY <1>2, <1>5, <1>8
    <3> HIDE DEF n
    <3>2. n > 0 /\ text'.grow = 2 * n /\ text'.count <= n
      BY <3>1, <1>2, <1>8
    <3> QED BY <3>2 DEF n
  <2>2. \A i \in 1 .. Len(text'.cells) : text'.cells[i] = IF i <= text'.count THEN i ELSE 0
    BY <1>5, <1>6, <1>8
  <2> QED BY <2>1, <2>2, <1>8, <1>9 DEF TextOK
<1>11. Settled(2 * s)
  BY <1>0, <1>1 DEF Placed
<1>12. Settled(Len(text.cells))' /\ Idle' /\ blocks' = blocks
  <2>1. chunks' = chunks /\ blocks' = blocks /\ request' = request
    BY <1>0 DEF arenaVars
  <2>2. Len(text'.cells) = 2 * s
    BY <1>5, <1>8
  <2> QED BY <2>1, <2>2, <1>1, <1>11
          DEF Idle, Settled, NoRoomBefore, LastBlock, LastChunk
<1>13. Placed'
  BY <1>8, <1>9, <1>12 DEF Placed
<1> QED BY <1>0, <1>10, <1>13 DEF TextInv

\* The answer of the arena is a block of twice the size, and the last one.
LEMMA TakeKeeps == TextInv /\ ArenaTake /\ UNCHANGED textVars => TextInv'
<1> SUFFICES ASSUME TextInv, ArenaTake, UNCHANGED textVars PROVE TextInv'
  OBVIOUS
<1> DEFINE s == Len(text.cells)
           chunk == chunks[request.at]
           next == chunk.index + request.size
<1>1. text' = text /\ adding' = adding /\ TextOK /\ Placed /\ ArenaInv
  BY DEF textVars, TextInv
<1>2. TextOK' /\ ArenaInv'
  BY <1>1, ArenaTakeKeeps DEF TextOK
<1>3. /\ ~Idle /\ next <= chunk.size
      /\ chunks' = [chunks EXCEPT ![request.at] = [size |-> chunk.size, index |-> next]]
      /\ blocks' = Append(blocks, [chunk |-> request.at, from |-> chunk.index, to |-> next])
      /\ request' = [size |-> 0, at |-> 0]
  <2>1. /\ Len(chunks) \in Nat /\ request.at \in 0 .. Len(chunks) /\ request.size \in Nat
        /\ ~Idle
    BY <1>1, ArenaTyped DEF ArenaTake
  <2>2. chunk.size \in Nat /\ chunk.index \in Nat
    BY <2>1, <1>1, ArenaTyped DEF Idle
  <2> QED BY <2>1, <2>2 DEF ArenaTake, Fits, NoRequest
<1>4. /\ adding.asked /\ request.size = 2 * s
      /\ Settled(s) \/ Opened(s)
  BY <1>1, <1>3, SizeTyped DEF Placed
<1>5. /\ s \in Nat /\ s > 0 /\ TextSize \in Nat /\ TextSize > 0
  BY <1>1, SizeTyped, ContainersAssumption
<1>6. /\ Len(chunks) \in Nat /\ Len(chunks) > 0 /\ Len(blocks) \in Nat
      /\ request.at \in 1 .. Len(chunks) /\ chunk.size \in Nat /\ chunk.index \in Nat
      /\ \A c \in 1 .. Len(chunks) : chunks[c].size \in Nat /\ chunks[c].index \in Nat
  <2>1. request.at # 0
    BY <1>3 DEF Idle
  <2> QED BY <2>1, <1>1, ArenaTyped
<1>7. /\ Len(chunks') = Len(chunks) /\ Len(blocks') = Len(blocks) + 1
      /\ chunks'[request.at] = [size |-> chunk.size, index |-> next]
      /\ \A c \in 1 .. Len(chunks) : c # request.at => chunks'[c] = chunks[c]
      /\ blocks'[Len(blocks')] = [chunk |-> request.at, from |-> chunk.index, to |-> next]
  <2>1. /\ chunks \in Seq([size : Nat, index : Nat])
        /\ blocks \in Seq([chunk : Nat, from : Nat, to : Nat])
    BY <1>1 DEF ArenaInv, ArenaTypeOK
  <2> QED BY <2>1, <1>3, <1>6
<1> HIDE DEF s
<1>8. request.at = Len(chunks)
  <2> SUFFICES ASSUME request.at # Len(chunks) PROVE FALSE
    OBVIOUS
  <2>1. request.at \in 1 .. Len(chunks) - 1
    BY <1>6
  <2>2. NoRoomBefore(s) \/ NoRoomBefore(2 * s)
    BY <1>4 DEF Settled, Opened
  <2>3. chunk.size - chunk.index < s \/ chunk.size - chunk.index < 2 * s
    BY <2>1, <2>2 DEF NoRoomBefore
  <2>4. chunk.index + 2 * s <= chunk.size
    BY <1>3, <1>4
  <2>5. chunk.size \in Nat /\ chunk.index \in Nat /\ s \in Nat /\ s > 0
    BY <1>5, <1>6
  <2> HIDE DEF chunk
  <2> QED BY <2>3, <2>4, <2>5
<1>9. NoRoomBefore(2 * s)' /\ NoRoomBefore(2 * s)
  <2>1. NoRoomBefore(2 * s)
    <3>1. CASE Settled(s)
      <4>1. NoRoomBefore(s)
        BY <3>1 DEF Settled
      <4>2. \A c \in 1 .. Len(chunks) - 1 : c \in 1 .. Len(chunks)
        BY <1>6
      <4>3. ASSUME NEW c \in 1 .. Len(chunks) - 1
            PROVE  chunks[c].size - chunks[c].index < 2 * s
        <5> DEFINE size == chunks[c].size
                   index == chunks[c].index
        <5>1. size \in Nat /\ index \in Nat /\ size - index < s /\ s \in Nat
          BY <4>1, <4>2, <1>5, <1>6 DEF NoRoomBefore
        <5> HIDE DEF size, index
        <5>2. size - index < 2 * s
          BY <5>1
        <5> QED BY <5>2 DEF size, index
      <4> QED BY <4>3 DEF NoRoomBefore
    <3>2. CASE Opened(s)
      BY <3>2 DEF Opened
    <3> QED BY <3>1, <3>2, <1>4
  <2>2. \A c \in 1 .. Len(chunks) - 1 : chunks'[c] = chunks[c]
    BY <1>6, <1>7, <1>8
  <2>3. Len(chunks') = Len(chunks) /\ s' = s
    BY <1>7, <1>1 DEF s
  <2> QED BY <2>1, <2>2, <2>3 DEF NoRoomBefore
<1>10. /\ LastChunk' = [size |-> chunk.size, index |-> next]
       /\ LastBlock' = [chunk |-> Len(chunks), from |-> chunk.index, to |-> next]
       /\ s' = s
  BY <1>1, <1>7, <1>8 DEF LastChunk, LastBlock, s
<1>11. next = chunk.index + 2 * s
  BY <1>4
<1> HIDE DEF next
<1>12. ASSUME Settled(s) PROVE Settled(2 * s)'
  <2>1. chunk = LastChunk
    BY <1>8 DEF LastChunk
  <2>2. \/ /\ Len(chunks) = 1 /\ chunk.size = 16 * TextSize
           /\ s = TextSize \/ s = 2 * TextSize \/ s = 4 * TextSize \/ s = 8 * TextSize
           /\ chunk.index = 2 * s - TextSize
        \/ Len(chunks) > 1 /\ chunk.size = 2 * s /\ chunk.index = s
    BY <1>12, <2>1 DEF Settled
  <2> HIDE DEF chunk
  <2>3. /\ Len(chunks) = 1 /\ chunk.size = 16 * TextSize
        /\ 2 * s = 2 * TextSize \/ 2 * s = 4 * TextSize \/ 2 * s = 8 * TextSize
        /\ next = 2 * (2 * s) - TextSize
    <3>1. next <= chunk.size /\ s > 0 /\ s \in Nat /\ TextSize \in Nat /\ TextSize > 0
      BY <1>3, <1>5
    <3>2. Len(chunks) = 1
      <4> SUFFICES ASSUME chunk.size = 2 * s, chunk.index = s PROVE FALSE
        BY <2>2
      <4> QED BY <3>1, <1>11
    <3>3. /\ chunk.size = 16 * TextSize /\ chunk.index = 2 * s - TextSize
          /\ s = TextSize \/ s = 2 * TextSize \/ s = 4 * TextSize \/ s = 8 * TextSize
      BY <2>2, <3>2
    <3>4. next = 2 * (2 * s) - TextSize
      BY <3>1, <3>3, <1>11
    <3>5. s # 8 * TextSize
      BY <3>1, <3>3, <3>4
    <3>6. 2 * s = 2 * TextSize \/ 2 * s = 4 * TextSize \/ 2 * s = 8 * TextSize
      BY <3>1, <3>3, <3>5
    <3> QED BY <3>2, <3>3, <3>4, <3>6
  <2> QED BY <2>3, <1>5, <1>6, <1>7, <1>9, <1>10, <1>11 DEF Settled
<1>13. ASSUME Opened(s) PROVE Settled(2 * s)'
  <2>1. Len(chunks) > 1 /\ chunk.size = 4 * s /\ chunk.index = 0
    BY <1>13, <1>8 DEF Opened, LastChunk
  <2> HIDE DEF chunk
  <2> QED BY <2>1, <1>5, <1>6, <1>7, <1>9, <1>10, <1>11 DEF Settled
<1>14. Settled(2 * s)'
  BY <1>4, <1>12, <1>13
<1>15. Idle' /\ adding'.asked
  BY <1>1, <1>3, <1>4 DEF Idle
<1>16. Placed'
  BY <1>14, <1>15 DEF Placed, s
<1> QED BY <1>2, <1>16 DEF TextInv

LEMMA GoOnKeeps == TextInv /\ ArenaGoOn /\ UNCHANGED textVars => TextInv'
<1> SUFFICES ASSUME TextInv, ArenaGoOn, UNCHANGED textVars PROVE TextInv'
  OBVIOUS
<1> DEFINE s == Len(text.cells)
<1>1. text' = text /\ adding' = adding /\ TextOK /\ Placed /\ ArenaInv
  BY DEF textVars, TextInv
<1>2. TextOK'
  BY <1>1 DEF TextOK
<1>3. ArenaInv'
  BY <1>1, ArenaKeeps DEF ArenaNext
<1>4. /\ ~Idle /\ request.at < Len(chunks) /\ chunks' = chunks /\ blocks' = blocks
      /\ request' = [request EXCEPT !.at = request.at + 1]
      /\ request.size \in Nat /\ request.at \in Nat /\ request \in [size : Nat, at : Nat]
  BY <1>1, ArenaTyped DEF ArenaGoOn, ArenaInv, ArenaTypeOK
<1>5. request'.size = request.size /\ request'.at # 0
  BY <1>4
<1>6. /\ adding.asked /\ request.size = 2 * s
      /\ Settled(s) \/ Opened(s)
  BY <1>1, <1>4, SizeTyped DEF Placed
<1>7. adding.asked /\ request.size = 2 * s /\ ~Opened(s)
  BY <1>1, <1>4, SizeTyped, ArenaTyped DEF Placed, Opened
<1>8. Settled(s)' /\ s' = s
  BY <1>1, <1>4, <1>6, <1>7 DEF Settled, NoRoomBefore, LastBlock, LastChunk
<1>9. Placed'
  BY <1>1, <1>5, <1>7, <1>8 DEF Placed, Idle
<1> QED BY <1>2, <1>3, <1>9 DEF TextInv

\* The last chunk has room for twice the size unless three quarters of the first one
\* are used, or half of a later one.
LEMMA ExtendKeeps == TextInv /\ ArenaExtend /\ UNCHANGED textVars => TextInv'
<1> SUFFICES ASSUME TextInv, ArenaExtend, UNCHANGED textVars PROVE TextInv'
  OBVIOUS
<1> DEFINE s == Len(text.cells)
           n == Len(chunks)
           chunk == chunks[n]
<1>1. text' = text /\ adding' = adding /\ TextOK /\ Placed /\ ArenaInv
  BY DEF textVars, TextInv
<1>2. TextOK'
  BY <1>1 DEF TextOK
<1>3. ArenaInv'
  BY <1>1, ArenaKeeps DEF ArenaNext
<1>4. /\ n \in Nat /\ n > 0 /\ request.size \in Nat /\ request.at \in Nat
      /\ \A c \in 1 .. n : chunks[c].size \in Nat /\ chunks[c].index \in Nat
      /\ chunks \in Seq([size : Nat, index : Nat]) /\ request \in [size : Nat, at : Nat]
  BY <1>1, ArenaTyped DEF ArenaInv, ArenaTypeOK
<1>5. /\ ~Idle /\ request.at = n /\ ~(request.size <= chunk.size - chunk.index)
      /\ chunks' = Append(chunks, [size |-> 2 * chunk.size, index |-> 0])
      /\ blocks' = blocks /\ request' = [request EXCEPT !.at = n + 1]
  BY <1>4 DEF ArenaExtend, Fits
<1>6. chunk.size \in Nat /\ chunk.index \in Nat
  BY <1>4
<1>7. /\ Len(chunks') = n + 1 /\ chunks'[n + 1] = [size |-> 2 * chunk.size, index |-> 0]
      /\ \A c \in 1 .. n : chunks'[c] = chunks[c]
  BY <1>4, <1>5, <1>6
<1>8. s \in Nat /\ s > 0 /\ TextSize \in Nat /\ TextSize > 0
  BY <1>1, SizeTyped, ContainersAssumption
<1>9. request'.size = request.size /\ request'.at = n + 1
  BY <1>4, <1>5
<1> HIDE DEF s
<1>10. adding.asked /\ request.size = 2 * s
  BY <1>1, <1>5 DEF Placed, s
<1>11. Settled(s)
  <2>1. ASSUME Opened(s) PROVE FALSE
    <3>1. chunk.size = 4 * s /\ chunk.index = 0
      BY <2>1 DEF Opened, LastChunk
    <3> HIDE DEF chunk
    <3> QED BY <3>1, <1>5, <1>8, <1>10
  <2> QED BY <1>1, <1>5, <2>1 DEF Placed, s
<1>12. /\ \/ /\ n = 1 /\ chunk.size = 16 * TextSize
             /\ s = TextSize \/ s = 2 * TextSize \/ s = 4 * TextSize \/ s = 8 * TextSize
             /\ chunk.index = 2 * s - TextSize
          \/ n > 1 /\ chunk.size = 2 * s /\ chunk.index = s
       /\ NoRoomBefore(s)
  BY <1>11 DEF Settled, LastChunk
<1> HIDE DEF chunk
<1>13. chunk.size = 2 * s /\ chunk.size - chunk.index < 2 * s
  BY <1>5, <1>8, <1>10, <1>12
<1>14. \A c \in 1 .. n : chunks'[c].size - chunks'[c].index < 2 * s
  <2> SUFFICES ASSUME NEW c \in 1 .. n PROVE chunks[c].size - chunks[c].index < 2 * s
    BY <1>7
  <2>1. CASE c = n
    BY <2>1, <1>13 DEF chunk
  <2>2. CASE c # n
    <3>1. c \in 1 .. n - 1
      BY <2>2, <1>4
    <3>2. chunks[c].size - chunks[c].index < s
      BY <3>1, <1>12 DEF NoRoomBefore
    <3>3. chunks[c].size \in Nat /\ chunks[c].index \in Nat
      BY <1>4
    <3> QED BY <3>2, <3>3, <1>8
  <2> QED BY <2>1, <2>2
<1>15. NoRoomBefore(2 * s)'
  <2>1. (n + 1) - 1 = n /\ s' = s
    BY <1>1, <1>4 DEF s
  <2> QED BY <2>1, <1>7, <1>14 DEF NoRoomBefore
<1>16. LastChunk' = [size |-> 2 * chunk.size, index |-> 0]
  BY <1>7 DEF LastChunk
<1>17. Opened(s)'
  <2>1. n + 1 > 1 /\ 2 * chunk.size = 4 * s /\ s' = s
    BY <1>1, <1>4, <1>8, <1>13 DEF s
  <2> QED BY <2>1, <1>7, <1>9, <1>15, <1>16 DEF Opened
<1>18. /\ request'.size = 2 * s' /\ request'.at # 0 /\ adding'.asked
  BY <1>1, <1>4, <1>9, <1>10 DEF s
<1>19. Placed'
  BY <1>17, <1>18 DEF Placed, Idle, s
<1> QED BY <1>2, <1>3, <1>19 DEF TextInv

LEMMA TextKeeps == TextInv /\ [TextNext]_<<arenaVars, textVars>> => TextInv'
<1> SUFFICES ASSUME TextInv, [TextNext]_<<arenaVars, textVars>> PROVE TextInv'
  OBVIOUS
<1>1. CASE UNCHANGED <<arenaVars, textVars>>
  <2>1. UNCHANGED arenaVars /\ text' = text /\ adding' = adding
    BY <1>1 DEF textVars
  <2>2. ArenaInv' /\ TextOK'
    BY <2>1, ArenaAgain DEF TextInv, TextOK
  <2>3. Placed'
    BY <2>1 DEF TextInv, Placed, arenaVars, Idle, Settled, Opened, NoRoomBefore, LastBlock,
                LastChunk
  <2> QED BY <2>2, <2>3 DEF TextInv
<1>2. ASSUME NEW elements \in 0 .. MaxWrite, Write(elements) \/ WriteMore(elements)
      PROVE  TextInv'
  <2>1. elements \in Nat
    BY ContainersAssumption
  <2> QED BY <2>1, <1>2, WritesKeep
<1>3. CASE ArenaStep
  BY <1>3, TakeKeeps, GoOnKeeps, ExtendKeeps DEF ArenaStep
<1> QED BY <1>1, <1>2, <1>3, GrowAskKeeps, GrowKeeps, WriteGrownKeeps DEF TextNext

(* The text the code generator compiles into ends with a zero, though nothing writes
   one: the list keeps a cell more, or its last block leaves some of its chunk, in an
   arena 16 times as large as the text at first, for every size of it and every
   sequence of writes (list_grow, src/include/list.h:195; c_string_length).         *)
THEOREM TextEnds == TextSpec => []TextIsTerminated
<1>1. TextInit => TextInv
  BY TextStarts
<1>2. TextInv /\ [TextNext]_<<arenaVars, textVars>> => TextInv'
  BY TextKeeps
<1>3. TextInv => TextIsTerminated
  BY SettledIsTerminated
<1> QED BY <1>1, <1>2, <1>3, PTL DEF TextSpec

--------------------------------------------------------------------------------
(* Sequences of sequences.  The induction theorems of the library cannot be         *)
(* instantiated here, but its minimal elements can: a set of naturals that holds 0   *)
(* and the successors of its elements holds all, or its complement has a least one.  *)

LEMMA LeastNumber ==
  ASSUME NEW T \in SUBSET Nat, T # {}
  PROVE  \E x \in T : \A y \in T : x <= y
<1> DEFINE R == {ss \in Nat \X Nat : ss[1] < ss[2]}
<1>1. IsWellFoundedOn(R, Nat)
  BY NatLessThanWellFounded DEF OpToRel
<1>2. \A y, x \in Nat : y < x => <<y, x>> \in R
  OBVIOUS
<1> HIDE DEF R
<1>3. PICK x \in T : \A y \in T : ~(<<y, x>> \in R)
  BY <1>1, WFMin
<1>4. ASSUME NEW y \in T PROVE x <= y
  <2>1. ~(y < x)
    BY <1>2, <1>3
  <2> QED BY <2>1
<1> QED BY <1>4

LEMMA Induction ==
  ASSUME NEW T \in SUBSET Nat, 0 \in T, \A n \in T : n + 1 \in T
  PROVE  \A n \in Nat : n \in T
<1> DEFINE N == Nat \ T
<1>1. SUFFICES ASSUME N # {} PROVE FALSE
  OBVIOUS
<1>2. PICK x \in N : \A y \in N : x <= y
  BY <1>1, LeastNumber
<1>3. x \in Nat /\ x # 0
  OBVIOUS
<1>4. x - 1 \in Nat /\ ~(x <= x - 1) /\ (x - 1) + 1 = x
  BY <1>3
<1>5. x - 1 \in T
  BY <1>2, <1>4
<1> QED BY <1>4, <1>5

\* Of the numbers up to one that have a property, the first.
LEMMA First ==
  ASSUME NEW n \in Nat, NEW T \in SUBSET (1 .. n), T # {}
  PROVE  \E x \in T : \A y \in 1 .. x - 1 : y \notin T
<1>1. T \in SUBSET Nat
  OBVIOUS
<1>2. PICK x \in T : \A y \in T : x <= y
  BY <1>1, LeastNumber
<1> QED BY <1>2

--------------------------------------------------------------------------------
(* The places in front of the entries of an array, and its elements in order.        *)

Element == Values \cup {Nothing}

IsBefore(entries, before) ==
  before = [ei \in 1 .. Len(entries) + 1 |->
              IF ei = 1 THEN 0 ELSE before[ei - 1] + Len(entries[ei - 1])]

IsFlat(entries, flat) ==
  flat = [i \in 1 .. Len(entries) |-> IF i = 1 THEN entries[i] ELSE flat[i - 1] \o entries[i]]

LEMMA BeforeIsOne ==
  ASSUME NEW entries, \E before : IsBefore(entries, before)
  PROVE  IsBefore(entries, Before(entries))
BY DEF Before, IsBefore

LEMMA FlatIsOne ==
  ASSUME NEW entries, entries # <<>>, entries \in Seq(Seq(Element)),
         \E flat : IsFlat(entries, flat)
  PROVE  \E flat : IsFlat(entries, flat) /\ FlattenSeq(entries) = flat[Len(entries)]
<1>1. Len(entries) # 0
  OBVIOUS
<1> DEFINE flat == CHOOSE flat : IsFlat(entries, flat)
<1>2. IsFlat(entries, flat)
  OBVIOUS
<1>3. FlattenSeq(entries) = flat[Len(entries)]
  BY <1>1 DEF FlattenSeq, IsFlat
<1> QED BY <1>2, <1>3

LEMMA BeforeExists == ASSUME NEW entries \in Seq(Seq(Element))
                      PROVE  IsBefore(entries, Before(entries))
<1> DEFINE Up(b, k) == b = [ei \in 1 .. k + 1 |->
                             IF ei = 1 THEN 0 ELSE b[ei - 1] + Len(entries[ei - 1])]
           T == {k \in Nat : \E b : Up(b, k)}
<1>1. 0 \in T
  <2> DEFINE b == [ei \in 1 .. 0 + 1 |-> 0]
  <2>1. Up(b, 0)
    OBVIOUS
  <2> QED BY <2>1
<1>2. ASSUME NEW k \in T PROVE k + 1 \in T
  <2>1. k \in Nat /\ \E b : Up(b, k)
    OBVIOUS
  <2>2. PICK b : Up(b, k)
    BY <2>1
  <2> DEFINE last == b[k + 1] + Len(entries[k + 1])
             c == [ei \in 1 .. (k + 1) + 1 |-> IF ei = k + 2 THEN last ELSE b[ei]]
  <2>3. ASSUME NEW ei \in 1 .. (k + 1) + 1
        PROVE  c[ei] = IF ei = 1 THEN 0 ELSE c[ei - 1] + Len(entries[ei - 1])
    <3>1. CASE ei = k + 2
      <4>1. ei - 1 = k + 1 /\ ei - 1 \in 1 .. (k + 1) + 1 /\ ei - 1 # k + 2 /\ ei # 1
        BY <2>1, <3>1
      <4>2. c[ei] = last /\ c[ei - 1] = b[k + 1]
        BY <3>1, <4>1
      <4> QED BY <4>1, <4>2
    <3>2. CASE ei # k + 2
      <4>1. ei \in 1 .. k + 1
        BY <2>1, <3>2
      <4>2. c[ei] = b[ei]
        BY <3>2
      <4>3. b[ei] = IF ei = 1 THEN 0 ELSE b[ei - 1] + Len(entries[ei - 1])
        BY <2>2, <4>1
      <4>4. CASE ei = 1
        BY <4>2, <4>3, <4>4
      <4>5. CASE ei # 1
        <5>1. ei - 1 \in 1 .. (k + 1) + 1 /\ ei - 1 # k + 2
          BY <2>1, <4>1, <4>5
        <5>2. c[ei - 1] = b[ei - 1]
          BY <5>1
        <5> QED BY <4>2, <4>3, <4>5, <5>2
      <4> QED BY <4>4, <4>5
    <3> QED BY <3>1, <3>2
  <2>4. c = [ei \in 1 .. (k + 1) + 1 |-> c[ei]]
    OBVIOUS
  <2> HIDE DEF c
  <2>5. Up(c, k + 1)
    BY <2>3, <2>4
  <2> HIDE DEF Up
  <2>6. \E w : Up(w, k + 1)
    BY <2>5
  <2> QED BY <2>1, <2>6
<1>3. \A k \in Nat : k \in T
  <2> HIDE DEF T
  <2>1. T \in SUBSET Nat
    BY DEF T
  <2> QED BY <1>1, <1>2, <2>1, Induction
<1>4. Len(entries) \in T
  <2>1. Len(entries) \in Nat
    OBVIOUS
  <2> HIDE DEF T
  <2> QED BY <2>1, <1>3
<1>5. \E b : IsBefore(entries, b)
  BY <1>4 DEF IsBefore
<1> QED BY <1>5, BeforeIsOne

LEMMA FlatExists == ASSUME NEW entries \in Seq(Seq(Element))
                    PROVE  \E flat : IsFlat(entries, flat)
<1> DEFINE Up(f, k) == f = [i \in 1 .. k |-> IF i = 1 THEN entries[i] ELSE f[i - 1] \o entries[i]]
           T == {k \in Nat : \E f : Up(f, k)}
<1>1. 0 \in T
  <2> DEFINE f == [i \in 1 .. 0 |-> <<>>]
  <2>1. Up(f, 0)
    OBVIOUS
  <2> QED BY <2>1
<1>2. ASSUME NEW k \in T PROVE k + 1 \in T
  <2>1. k \in Nat /\ \E f : Up(f, k)
    OBVIOUS
  <2>2. PICK f : Up(f, k)
    BY <2>1
  <2> DEFINE last == IF k = 0 THEN entries[1] ELSE f[k] \o entries[k + 1]
             g == [i \in 1 .. k + 1 |-> IF i = k + 1 THEN last ELSE f[i]]
  <2>3. ASSUME NEW i \in 1 .. k + 1
        PROVE  g[i] = IF i = 1 THEN entries[i] ELSE g[i - 1] \o entries[i]
    <3>1. CASE i = k + 1
      <4>1. g[i] = last
        BY <3>1
      <4>2. CASE k = 0
        BY <3>1, <4>1, <4>2
      <4>3. CASE k # 0
        <5>1. i - 1 = k /\ i - 1 \in 1 .. k + 1 /\ i - 1 # k + 1 /\ i # 1
          BY <2>1, <3>1, <4>3
        <5>2. g[i - 1] = f[k]
          BY <5>1
        <5> QED BY <3>1, <4>1, <4>3, <5>1, <5>2
      <4> QED BY <4>2, <4>3
    <3>2. CASE i # k + 1
      <4>1. i \in 1 .. k
        BY <2>1, <3>2
      <4>2. g[i] = f[i]
        BY <3>2
      <4>3. f[i] = IF i = 1 THEN entries[i] ELSE f[i - 1] \o entries[i]
        BY <2>2, <4>1
      <4>4. CASE i = 1
        BY <4>2, <4>3, <4>4
      <4>5. CASE i # 1
        <5>1. i - 1 \in 1 .. k + 1 /\ i - 1 # k + 1
          BY <2>1, <4>1, <4>5
        <5>2. g[i - 1] = f[i - 1]
          BY <5>1
        <5> QED BY <4>2, <4>3, <4>5, <5>2
      <4> QED BY <4>4, <4>5
    <3> QED BY <3>1, <3>2
  <2>4. g = [i \in 1 .. k + 1 |-> g[i]]
    OBVIOUS
  <2> HIDE DEF g
  <2>5. Up(g, k + 1)
    BY <2>3, <2>4
  <2> HIDE DEF Up
  <2>6. \E w : Up(w, k + 1)
    BY <2>5
  <2> QED BY <2>1, <2>6
<1>3. \A k \in Nat : k \in T
  <2> HIDE DEF T
  <2>1. T \in SUBSET Nat
    BY DEF T
  <2> QED BY <1>1, <1>2, <2>1, Induction
<1>4. Len(entries) \in T
  <2>1. Len(entries) \in Nat
    OBVIOUS
  <2> HIDE DEF T
  <2> QED BY <2>1, <1>3
<1> QED BY <1>4 DEF IsFlat

\* The places in front of the entries go up by what is in each.
LEMMA BeforeGoesUp ==
  ASSUME NEW entries \in Seq(Seq(Element))
  PROVE  /\ Before(entries)[1] = 0
         /\ \A i \in 1 .. Len(entries) :
              Before(entries)[i + 1] = Before(entries)[i] + Len(entries[i])
         /\ \A i \in 1 .. Len(entries) : Len(entries[i]) \in Nat
         /\ \A i \in 1 .. Len(entries) + 1 : Before(entries)[i] \in Nat
         /\ \A i, j \in 1 .. Len(entries) + 1 : i <= j => Before(entries)[i] <= Before(entries)[j]
<1> DEFINE b == Before(entries)
           n == Len(entries)
<1>0. n \in Nat /\ \A i \in 1 .. n : Len(entries[i]) \in Nat
  BY ElementOfSeq
<1>1. b = [ei \in 1 .. n + 1 |-> IF ei = 1 THEN 0 ELSE b[ei - 1] + Len(entries[ei - 1])]
  BY BeforeExists DEF IsBefore
<1> HIDE DEF b, n
<1>2. b[1] = 0
  <2>1. 1 \in 1 .. n + 1
    BY <1>0
  <2> QED BY <1>1, <2>1
<1>3. ASSUME NEW i \in 1 .. n PROVE b[i + 1] = b[i] + Len(entries[i])
  <2>1. i + 1 \in 1 .. n + 1 /\ i + 1 # 1 /\ (i + 1) - 1 = i
    BY <1>0
  <2>2. b[i + 1] = IF i + 1 = 1 THEN 0 ELSE b[(i + 1) - 1] + Len(entries[(i + 1) - 1])
    BY <1>1, <2>1
  <2> QED BY <2>1, <2>2
<1> DEFINE T == {k \in Nat : k <= n => \A i \in 1 .. k + 1 : b[i] \in Nat /\ b[i] <= b[k + 1]}
<1>4. 0 \in T
  <2>1. \A i \in 1 .. 0 + 1 : i = 1
    OBVIOUS
  <2> QED BY <1>2, <2>1
<1>5. ASSUME NEW k \in T PROVE k + 1 \in T
  <2>0. k \in Nat /\ k + 1 \in Nat
    OBVIOUS
  <2> SUFFICES ASSUME k + 1 <= n
               PROVE  \A i \in 1 .. (k + 1) + 1 : b[i] \in Nat /\ b[i] <= b[(k + 1) + 1]
    BY <2>0
  <2>1. k <= n /\ k + 1 \in 1 .. n
    BY <1>0, <2>0
  <2>2. b[k + 1] \in Nat /\ \A i \in 1 .. k + 1 : b[i] \in Nat /\ b[i] <= b[k + 1]
    BY <2>1
  <2>3. b[(k + 1) + 1] = b[k + 1] + Len(entries[k + 1]) /\ Len(entries[k + 1]) \in Nat
    BY <2>1, <1>0, <1>3
  <2>4. b[(k + 1) + 1] \in Nat /\ b[k + 1] <= b[(k + 1) + 1]
    BY <2>2, <2>3
  <2>5. ASSUME NEW i \in 1 .. (k + 1) + 1 PROVE b[i] \in Nat /\ b[i] <= b[(k + 1) + 1]
    <3>1. CASE i = (k + 1) + 1
      BY <3>1, <2>4
    <3>2. CASE i # (k + 1) + 1
      <4>1. i \in 1 .. k + 1
        BY <2>0, <3>2
      <4>2. b[i] \in Nat /\ b[i] <= b[k + 1]
        BY <4>1, <2>2
      <4> QED BY <4>2, <2>2, <2>3, <2>4
    <3> QED BY <3>1, <3>2
  <2> QED BY <2>4, <2>5
<1>6. \A k \in Nat : k \in T
  <2>1. T \in SUBSET Nat
    OBVIOUS
  <2> HIDE DEF T
  <2> QED BY <1>4, <1>5, <2>1, Induction
<1>7. ASSUME NEW j \in 1 .. n + 1 PROVE \A i \in 1 .. j : b[i] \in Nat /\ b[i] <= b[j]
  <2>1. j - 1 \in Nat /\ j - 1 <= n /\ (j - 1) + 1 = j
    BY <1>0
  <2>2. j - 1 \in T
    BY <1>6, <2>1
  <2> QED BY <2>1, <2>2
<1>8. \A i, j \in 1 .. n + 1 : i <= j => b[i] <= b[j]
  <2> SUFFICES ASSUME NEW i \in 1 .. n + 1, NEW j \in 1 .. n + 1, i <= j PROVE b[i] <= b[j]
    OBVIOUS
  <2>1. i \in 1 .. j
    BY <1>0
  <2> QED BY <2>1, <1>7
<1>9. ASSUME NEW j \in 1 .. n + 1 PROVE b[j] \in Nat
  <2>1. j \in 1 .. j
    BY <1>0
  <2> QED BY <2>1, <1>7
<1> QED BY <1>0, <1>2, <1>3, <1>8, <1>9 DEF b, n

LEMMA Joined ==
  ASSUME NEW S
  PROVE  \A a, b \in Seq(S) :
           /\ a \o b \in Seq(S) /\ Len(a \o b) = Len(a) + Len(b) /\ Len(a) \in Nat
           /\ \A i \in 1 .. Len(a) : (a \o b)[i] = a[i]
           /\ \A i \in 1 .. Len(b) : (a \o b)[Len(a) + i] = b[i]
BY InFront

\* Every element of an entry is behind those of the entries in front of it.
LEMMA FlatHolds ==
  ASSUME NEW entries \in Seq(Seq(Element))
  PROVE  /\ FlattenSeq(entries) \in Seq(Element)
         /\ Len(FlattenSeq(entries)) = Before(entries)[Len(entries) + 1]
         /\ \A e \in 1 .. Len(entries) : \A o \in 1 .. Len(entries[e]) :
              FlattenSeq(entries)[Before(entries)[e] + o] = entries[e][o]
<1> DEFINE S == Element
           b == Before(entries)
           n == Len(entries)
<1>0. /\ n \in Nat /\ \A i \in 1 .. n : entries[i] \in Seq(S) /\ Len(entries[i]) \in Nat
      /\ b[1] = 0
      /\ \A i \in 1 .. n : b[i + 1] = b[i] + Len(entries[i])
      /\ \A i \in 1 .. n + 1 : b[i] \in Nat
      /\ \A i, j \in 1 .. n + 1 : i <= j => b[i] <= b[j]
  BY BeforeGoesUp, ElementOfSeq
<1>1. CASE entries = <<>>
  <2>1. n = 0 /\ FlattenSeq(entries) = entries
    BY <1>1 DEF FlattenSeq
  <2> QED BY <2>1, <1>0, <1>1
<1>2. CASE entries # <<>>
  <2>1. PICK f : IsFlat(entries, f) /\ FlattenSeq(entries) = f[n]
    BY <1>2, FlatExists, FlatIsOne
  <2>2. f = [i \in 1 .. n |-> IF i = 1 THEN entries[i] ELSE f[i - 1] \o entries[i]]
    BY <2>1 DEF IsFlat
  <2>3. n >= 1
    BY <1>0, <1>2
  <2> HIDE DEF n, b, S
  <2> DEFINE Good(k) == /\ f[k] \in Seq(S) /\ Len(f[k]) = b[k + 1]
                        /\ \A e \in 1 .. k : \A o \in 1 .. Len(entries[e]) :
                             f[k][b[e] + o] = entries[e][o]
             T == {k \in Nat : k >= 1 /\ k <= n => Good(k)}
  <2>4. Good(1)
    <3>1. f[1] = entries[1] /\ 1 \in 1 .. n
      BY <2>2, <2>3, <1>0
    <3>2. b[1 + 1] = Len(entries[1])
      BY <1>0, <3>1
    <3>3. \A e \in 1 .. 1 : e = 1
      OBVIOUS
    <3>4. \A o \in 1 .. Len(entries[1]) : b[1] + o = o
      BY <1>0
    <3> QED BY <1>0, <3>1, <3>2, <3>3, <3>4
  <2>5. ASSUME NEW k \in Nat, k >= 1, k + 1 <= n, Good(k) PROVE Good(k + 1)
    <3>1. k + 1 \in 1 .. n /\ k \in 1 .. n /\ k + 1 # 1 /\ (k + 1) - 1 = k
      BY <2>5, <1>0
    <3>2. f[k + 1] = f[k] \o entries[k + 1]
      BY <3>1, <2>2
    <3>3. f[k] \in Seq(S) /\ entries[k + 1] \in Seq(S) /\ Len(f[k]) = b[k + 1]
      BY <3>1, <2>5, <1>0
    <3>8. /\ f[k] \o entries[k + 1] \in Seq(S)
          /\ Len(f[k] \o entries[k + 1]) = Len(f[k]) + Len(entries[k + 1])
          /\ Len(f[k]) \in Nat
          /\ \A i \in 1 .. Len(f[k]) : (f[k] \o entries[k + 1])[i] = f[k][i]
          /\ \A i \in 1 .. Len(entries[k + 1]) :
               (f[k] \o entries[k + 1])[Len(f[k]) + i] = entries[k + 1][i]
      <4>1. \A a, b_ \in Seq(S) :
           /\ a \o b_ \in Seq(S) /\ Len(a \o b_) = Len(a) + Len(b_) /\ Len(a) \in Nat
           /\ \A i \in 1 .. Len(a) : (a \o b_)[i] = a[i]
           /\ \A i \in 1 .. Len(b_) : (a \o b_)[Len(a) + i] = b_[i]
        BY Joined
      <4> QED BY <3>3, <4>1, Zenon
    <3>4. f[k + 1] \in Seq(S) /\ Len(f[k + 1]) = b[(k + 1) + 1]
      <4>1. b[(k + 1) + 1] = b[k + 1] + Len(entries[k + 1])
        BY <3>1, <1>0
      <4>2. f[k + 1] \in Seq(S) /\ Len(f[k + 1]) = Len(f[k]) + Len(entries[k + 1])
        BY <3>2, <3>8, Zenon
      <4> QED BY <4>1, <4>2, <3>3
    <3>5. ASSUME NEW e \in 1 .. k + 1, NEW o \in 1 .. Len(entries[e])
          PROVE  f[k + 1][b[e] + o] = entries[e][o]
      <4>1. CASE e = k + 1
        <5>1. o \in 1 .. Len(entries[k + 1])
          BY <4>1
        <5>2. (f[k] \o entries[k + 1])[Len(f[k]) + o] = entries[k + 1][o]
          BY <5>1, <3>8, Zenon
        <5> QED BY <4>1, <5>2, <3>2, <3>3, Zenon
      <4>2. CASE e # k + 1
        <5>1. e \in 1 .. k /\ e \in 1 .. n /\ e + 1 \in 1 .. n + 1 /\ k + 1 \in 1 .. n + 1 /\ e + 1 <= k + 1
              /\ e \in 1 .. n + 1
          BY <4>2, <3>1, <1>0
        <5>2. b[e] \in Nat /\ b[e + 1] = b[e] + Len(entries[e]) /\ b[e + 1] <= b[k + 1]
              /\ Len(entries[e]) \in Nat /\ b[k + 1] \in Nat
          BY <5>1, <1>0
        <5>3. b[e] + o \in 1 .. Len(f[k])
          <6> DEFINE m == Len(entries[e])
                     lo == b[e]
                     hi == b[k + 1]
          <6>1. lo \in Nat /\ lo + m <= hi /\ m \in Nat /\ hi \in Nat /\ o \in 1 .. m /\ Len(f[k]) = hi
            BY <5>2, <3>3
          <6> HIDE DEF m, lo, hi
          <6>2. lo + o \in 1 .. hi
            BY <6>1
          <6> QED BY <6>1, <6>2 DEF lo
        <5>4. (f[k] \o entries[k + 1])[b[e] + o] = f[k][b[e] + o]
          BY <5>3, <3>8, Zenon
        <5>5. f[k][b[e] + o] = entries[e][o]
          BY <5>1, <2>5
        <5> QED BY <5>4, <5>5, <3>2
      <4> QED BY <4>1, <4>2
    <3> QED BY <3>4, <3>5
  <2> HIDE DEF Good
  <2>6. 0 \in T
    OBVIOUS
  <2>7. ASSUME NEW k \in T PROVE k + 1 \in T
    <3>1. k \in Nat /\ k + 1 \in Nat
      OBVIOUS
    <3>2. ASSUME k + 1 <= n PROVE Good(k + 1)
      <4>1. CASE k = 0
        BY <4>1, <2>4
      <4>2. CASE k # 0
        <5>1. k >= 1 /\ k <= n
          BY <4>2, <3>1, <3>2, <1>0
        <5>2. Good(k)
          BY <5>1
        <5> QED BY <5>1, <5>2, <3>1, <3>2, <2>5
      <4> QED BY <4>1, <4>2
    <3> QED BY <3>1, <3>2
  <2>8. n \in T
    <3>1. T \in SUBSET Nat
      OBVIOUS
    <3> HIDE DEF T
    <3> QED BY <1>0, <2>6, <2>7, <3>1, Induction
  <2>9. Good(n)
    BY <2>3, <2>8, <1>0
  <2>10. \A e \in 1 .. n : \A o \in 1 .. Len(entries[e]) : f[n][b[e] + o] = entries[e][o]
    BY <2>9 DEF Good
  <2>11. f[n] \in Seq(S) /\ Len(f[n]) = b[n + 1]
    BY <2>9 DEF Good
  <2> QED BY <2>1, <2>10, <2>11 DEF n, b, S
<1> QED BY <1>1, <1>2

\* The walk stays at the entry that holds the index, or behind the last one.
LEMMA Located ==
  ASSUME NEW entries \in Seq(Seq(Element)), NEW index \in Nat
  PROVE  LET place == Locate(entries, index)
             total == Before(entries)[Len(entries) + 1]
         IN  /\ place.entry \in 1 .. Len(entries) + 1 /\ place.offset \in Nat
             /\ Before(entries)[place.entry] + place.offset = index
             /\ index < total =>
                  place.entry <= Len(entries) /\ place.offset < Len(entries[place.entry])
             /\ index >= total => place.entry = Len(entries) + 1
<1> DEFINE b == Before(entries)
           n == Len(entries)
           stays(ei) == ei > n \/ index - b[ei] < Len(entries[ei])
           entry == CHOOSE ei \in 1 .. n + 1 :
                      /\ Stays(entries, index, ei)
                      /\ \A e \in 1 .. ei - 1 : ~Stays(entries, index, e)
           T == {ei \in 1 .. n + 1 : Stays(entries, index, ei)}
<1>0. /\ n \in Nat /\ \A i \in 1 .. n : Len(entries[i]) \in Nat
      /\ b[1] = 0
      /\ \A i \in 1 .. n : b[i + 1] = b[i] + Len(entries[i])
      /\ \A i \in 1 .. n + 1 : b[i] \in Nat
      /\ \A i, j \in 1 .. n + 1 : i <= j => b[i] <= b[j]
  BY BeforeGoesUp
<1>1. /\ entry \in 1 .. n + 1 /\ Stays(entries, index, entry)
      /\ \A e \in 1 .. entry - 1 : ~Stays(entries, index, e)
  <2>1. n + 1 \in T
    BY <1>0 DEF Stays
  <2>2. n + 1 \in Nat /\ T \in SUBSET (1 .. n + 1) /\ T # {}
    BY <2>1, <1>0
  <2>3. PICK x \in T : \A y \in 1 .. x - 1 : y \notin T
    <3> HIDE DEF T, n
    <3> QED BY <2>2, First
  <2>4. \A e \in 1 .. x - 1 : e \in 1 .. n + 1
    BY <1>0
  <2>5. /\ x \in 1 .. n + 1 /\ Stays(entries, index, x)
        /\ \A e \in 1 .. x - 1 : ~Stays(entries, index, e)
    BY <2>3, <2>4
  <2> HIDE DEF T
  <2> QED BY <2>5
<1>2. Locate(entries, index) = [entry |-> entry, offset |-> index - b[entry]]
  BY DEF Locate
<1>3. /\ entry > n \/ index - b[entry] < Len(entries[entry])
      /\ \A e \in 1 .. entry - 1 : ~(e > n) /\ ~(index - b[e] < Len(entries[e]))
  BY <1>1 DEF Stays
<1> HIDE DEF entry, b, n
<1>4. b[entry] \in Nat /\ entry \in Nat /\ b[n + 1] \in Nat
  BY <1>0, <1>1
<1>5. b[entry] <= index
  <2>1. CASE entry = 1
    BY <2>1, <1>0
  <2>2. CASE entry # 1
    <3>1. entry - 1 \in 1 .. entry - 1 /\ entry - 1 \in 1 .. n /\ (entry - 1) + 1 = entry
          /\ entry - 1 \in 1 .. n + 1
      BY <2>2, <1>1, <1>0
    <3>2. ~(index - b[entry - 1] < Len(entries[entry - 1]))
      BY <3>1, <1>3
    <3>3. b[entry] = b[entry - 1] + Len(entries[entry - 1])
      BY <3>1, <1>0
    <3>4. b[entry - 1] \in Nat /\ Len(entries[entry - 1]) \in Nat
      BY <3>1, <1>0
    <3> QED BY <3>2, <3>3, <3>4
  <2> QED BY <2>1, <2>2
<1>6. ASSUME index < b[n + 1] PROVE entry <= n /\ index - b[entry] < Len(entries[entry])
  <2>1. entry # n + 1
    BY <1>4, <1>5, <1>6
  <2>2. entry <= n
    BY <2>1, <1>0, <1>1
  <2> QED BY <2>2, <1>3, <1>4, <1>0
<1>7. ASSUME index >= b[n + 1] PROVE entry = n + 1
  <2> SUFFICES ASSUME entry # n + 1 PROVE FALSE
    OBVIOUS
  <2>1. entry \in 1 .. n /\ entry + 1 \in 1 .. n + 1 /\ n + 1 \in 1 .. n + 1 /\ entry + 1 <= n + 1
    BY <1>0, <1>1
  <2>2. index - b[entry] < Len(entries[entry])
    BY <2>1, <1>0, <1>3
  <2>3. b[entry + 1] = b[entry] + Len(entries[entry]) /\ b[entry + 1] <= b[n + 1]
        /\ Len(entries[entry]) \in Nat
    BY <2>1, <1>0
  <2> QED BY <2>2, <2>3, <1>4, <1>7
<1>8. index - b[entry] \in Nat /\ b[entry] + (index - b[entry]) = index
  BY <1>4, <1>5
<1> QED BY <1>1, <1>2, <1>6, <1>7, <1>8 DEF b, n

--------------------------------------------------------------------------------
(* Arrays.                                                                           *)

\* Entries of the same sizes, and maybe more of them.
LEMMA BeforeAgain ==
  ASSUME NEW a \in Seq(Seq(Element)), NEW b \in Seq(Seq(Element)),
         Len(a) <= Len(b), \A i \in 1 .. Len(a) : Len(b[i]) = Len(a[i])
  PROVE  \A i \in 1 .. Len(a) + 1 : Before(b)[i] = Before(a)[i]
<1> DEFINE n == Len(a)
           p == Before(a)
           q == Before(b)
           T == {k \in Nat : k <= n => q[k + 1] = p[k + 1]}
<1>1. /\ n \in Nat /\ Len(b) \in Nat /\ n <= Len(b)
      /\ p[1] = 0 /\ \A i \in 1 .. n : p[i + 1] = p[i] + Len(a[i])
      /\ q[1] = 0 /\ \A i \in 1 .. Len(b) : q[i + 1] = q[i] + Len(b[i])
  BY BeforeGoesUp
<1> HIDE DEF p, q, n
<1>2. 0 \in T
  BY <1>1
<1>3. ASSUME NEW k \in T PROVE k + 1 \in T
  <2>1. k \in Nat /\ k + 1 \in Nat
    OBVIOUS
  <2>2. ASSUME k + 1 <= n PROVE q[(k + 1) + 1] = p[(k + 1) + 1]
    <3>1. k <= n /\ k + 1 \in 1 .. n /\ k + 1 \in 1 .. Len(b)
      BY <2>1, <2>2, <1>1
    <3>2. q[k + 1] = p[k + 1]
      BY <3>1
    <3>3. Len(b[k + 1]) = Len(a[k + 1])
      BY <3>1 DEF n
    <3> QED BY <3>1, <3>2, <3>3, <1>1
  <2> QED BY <2>1, <2>2
<1>4. \A k \in Nat : k \in T
  <2>1. T \in SUBSET Nat
    OBVIOUS
  <2> HIDE DEF T
  <2> QED BY <1>2, <1>3, <2>1, Induction
<1>5. ASSUME NEW i \in 1 .. n + 1 PROVE q[i] = p[i]
  <2>1. i - 1 \in Nat /\ i - 1 <= n /\ (i - 1) + 1 = i
    BY <1>1
  <2>2. i - 1 \in T
    BY <2>1, <1>4
  <2> QED BY <2>1, <2>2
<1> QED BY <1>5 DEF n, p, q

LEMMA OneOn == \A a, o \in Nat : a + (o + 1) = (a + o) + 1
OBVIOUS

\* The elements in order are those at the places of their indices.
LEMMA FlatAtPlace ==
  ASSUME NEW entries \in Seq(Seq(Element)), NEW k \in Nat, k < Len(FlattenSeq(entries))
  PROVE  LET place == Locate(entries, k)
         IN  /\ place.entry \in 1 .. Len(entries) /\ place.offset \in Nat
             /\ place.offset + 1 \in 1 .. Len(entries[place.entry])
             /\ Before(entries)[place.entry] + place.offset = k
             /\ FlattenSeq(entries)[k + 1] = entries[place.entry][place.offset + 1]
<1> DEFINE e == Locate(entries, k).entry
           o == Locate(entries, k).offset
           b == Before(entries)
           n == Len(entries)
           flat == FlattenSeq(entries)
<1>1. /\ e \in 1 .. n + 1 /\ o \in Nat /\ b[e] + o = k
      /\ k < b[n + 1] => e <= n /\ o < Len(entries[e])
  BY Located
<1>2. /\ Len(flat) = b[n + 1]
      /\ \A i \in 1 .. n : \A j \in 1 .. Len(entries[i]) : flat[b[i] + j] = entries[i][j]
  BY FlatHolds
<1>3. n \in Nat /\ (\A i \in 1 .. n : Len(entries[i]) \in Nat) /\ \A i \in 1 .. n + 1 : b[i] \in Nat
  BY BeforeGoesUp
<1>4. k < Len(flat)
  OBVIOUS
<1> HIDE DEF e, o, b, n, flat
<1>5. e \in 1 .. n /\ o < Len(entries[e])
  BY <1>1, <1>2, <1>3, <1>4
<1>6. o + 1 \in 1 .. Len(entries[e])
  BY <1>1, <1>3, <1>5
<1>7. flat[b[e] + (o + 1)] = entries[e][o + 1]
  BY <1>2, <1>5, <1>6
<1>8. b[e] + (o + 1) = k + 1
  <2>1. b[e] \in Nat /\ o \in Nat /\ b[e] + o = k
    BY <1>1, <1>3
  <2> QED BY <2>1, OneOn
<1> QED BY <1>1, <1>5, <1>6, <1>7, <1>8 DEF e, o, b, n, flat

\* An array to which an element can be added, and its elements.
ArrayReady(arr) ==
  /\ arr \in [count : Nat, grow : Nat, entries : Seq(Seq(Element))]
  /\ arr.entries # <<>> => arr.count <= Len(FlattenSeq(arr.entries)) /\ arr.grow > 0

Elements(arr) ==
  SubSeq(FlattenSeq(arr.entries), 1, IF arr.entries = <<>> THEN 0 ELSE arr.count)

LEMMA UnsetTyped ==
  ASSUME NEW n \in Nat
  PROVE  /\ Unset(n) \in Seq(Element) /\ Len(Unset(n)) = n
         /\ \A i \in 1 .. n : Unset(n)[i] = Nothing
BY DEF Unset, Element

\* The entries with an element at a place.
LEMMA PutAt ==
  ASSUME NEW entries \in Seq(Seq(Element)), NEW x \in Element,
         NEW e \in 1 .. Len(entries), NEW o \in 1 .. Len(entries[e])
  PROVE  LET put == [entries EXCEPT ![e][o] = x]
         IN  /\ put \in Seq(Seq(Element)) /\ Len(put) = Len(entries)
             /\ \A i \in 1 .. Len(entries) : Len(put[i]) = Len(entries[i])
             /\ put[e][o] = x
             /\ \A i \in 1 .. Len(entries) : \A j \in 1 .. Len(entries[i]) :
                  i # e \/ j # o => put[i][j] = entries[i][j]
<1> DEFINE entry == [entries[e] EXCEPT ![o] = x]
           put == [entries EXCEPT ![e] = entry]
<1>0. entries[e] \in Seq(Element) /\ Len(entries) \in Nat /\ Len(entries[e]) \in Nat
  BY ElementOfSeq
<1>1. /\ entry \in Seq(Element) /\ Len(entry) = Len(entries[e]) /\ entry[o] = x
      /\ \A j \in 1 .. Len(entries[e]) : j # o => entry[j] = entries[e][j]
  BY <1>0, ExceptSeq
<1> HIDE DEF entry
<1>2. /\ put \in Seq(Seq(Element)) /\ Len(put) = Len(entries) /\ put[e] = entry
      /\ \A i \in 1 .. Len(entries) : i # e => put[i] = entries[i]
  BY <1>0, <1>1, ExceptSeq
<1>3. put = [entries EXCEPT ![e][o] = x]
  BY DEF entry
<1> HIDE DEF put
<1>4. \A i \in 1 .. Len(entries) : Len(put[i]) = Len(entries[i])
  BY <1>1, <1>2
<1>5. ASSUME NEW i \in 1 .. Len(entries), NEW j \in 1 .. Len(entries[i]), i # e \/ j # o
      PROVE  put[i][j] = entries[i][j]
  BY <1>1, <1>2, <1>5
<1> QED BY <1>1, <1>2, <1>3, <1>4, <1>5

\* One more of a sequence that begins alike.
LEMMA PrefixGrows ==
  ASSUME NEW a \in Seq(Element), NEW b \in Seq(Element), NEW x \in Element, NEW c \in Nat,
         c <= Len(a), c + 1 <= Len(b),
         \A k \in 1 .. c : b[k] = a[k], b[c + 1] = x
  PROVE  SubSeq(b, 1, c + 1) = Append(SubSeq(a, 1, c), x)
<1> DEFINE s == SubSeq(b, 1, c + 1)
           t == SubSeq(a, 1, c)
           u == Append(t, x)
<1>1. s \in Seq(Element) /\ Len(s) = c + 1 /\ \A k \in 1 .. c + 1 : s[k] = b[k]
  BY SubSeqProperties
<1>2. t \in Seq(Element) /\ Len(t) = c /\ \A k \in 1 .. c : t[k] = a[k]
  BY SubSeqProperties
<1> HIDE DEF s, t
<1>3. u \in Seq(Element) /\ Len(u) = c + 1 /\ u[c + 1] = x /\ \A k \in 1 .. c : u[k] = t[k]
  BY <1>2, AppendProperties
<1> HIDE DEF u
<1>4. \A k \in 1 .. c + 1 : s[k] = u[k]
  <2> SUFFICES ASSUME NEW k \in 1 .. c + 1 PROVE s[k] = u[k]
    OBVIOUS
  <2>1. CASE k = c + 1
    BY <2>1, <1>1, <1>3
  <2>2. CASE k # c + 1
    <3>1. k \in 1 .. c
      BY <2>2
    <3> QED BY <3>1, <1>1, <1>2, <1>3
  <2> QED BY <2>1, <2>2
<1>5. s = u
  BY <1>1, <1>3, <1>4, SeqEqual
<1> QED BY <1>5 DEF s, t, u

\* What array_add writes into: the entries, or one more of them.
LEMMA RoomFor ==
  ASSUME NEW arr, ArrayReady(arr), arr.entries # <<>>
  PROVE  LET place == Locate(arr.entries, arr.count)
             grows == place.entry > Len(arr.entries)
             entries == IF grows THEN Append(arr.entries, Unset(arr.grow)) ELSE arr.entries
         IN  /\ entries \in Seq(Seq(Element)) /\ Len(arr.entries) <= Len(entries)
             /\ \A i \in 1 .. Len(arr.entries) : entries[i] = arr.entries[i]
             /\ place.entry \in 1 .. Len(entries) /\ place.entry <= Len(arr.entries) + 1
             /\ place.offset \in Nat /\ place.offset + 1 \in 1 .. Len(entries[place.entry])
             /\ Before(arr.entries)[place.entry] + place.offset = arr.count
<1> DEFINE es == arr.entries
           c == arr.count
           e == Locate(es, c).entry
           o == Locate(es, c).offset
           b == Before(es)
           n == Len(es)
           unset == Unset(arr.grow)
           more == Append(es, unset)
<1>1. /\ es \in Seq(Seq(Element)) /\ c \in Nat /\ arr.grow \in Nat /\ arr.grow > 0
      /\ c <= Len(FlattenSeq(es))
  BY DEF ArrayReady
<1>2. /\ e \in 1 .. n + 1 /\ o \in Nat /\ b[e] + o = c
      /\ c < b[n + 1] => e <= n /\ o < Len(es[e])
      /\ c >= b[n + 1] => e = n + 1
  BY <1>1, Located
<1>3. Len(FlattenSeq(es)) = b[n + 1]
  BY <1>1, FlatHolds
<1>4. n \in Nat /\ (\A i \in 1 .. n : Len(es[i]) \in Nat) /\ b[n + 1] \in Nat
  <2>1. es \in Seq(Seq(Element))
    BY <1>1
  <2> HIDE DEF es
  <2>2. n \in Nat /\ \A i \in 1 .. n + 1 : b[i] \in Nat
    BY <2>1, BeforeGoesUp
  <2> QED BY <2>1, <2>2, BeforeGoesUp
<1>5. unset \in Seq(Element) /\ Len(unset) = arr.grow
  BY <1>1, UnsetTyped
<1> HIDE DEF e, o, b, n, c, unset
<1>6. CASE e > n
  <2>1. e = n + 1
    BY <1>2, <1>4, <1>6
  <2>2. o = 0
    BY <2>1, <1>1, <1>2, <1>3, <1>4
  <2>3. /\ more \in Seq(Seq(Element)) /\ Len(more) = n + 1 /\ more[n + 1] = unset
        /\ \A i \in 1 .. n : more[i] = es[i]
    <3>1. es \in Seq(Seq(Element))
      BY <1>1
    <3> HIDE DEF es
    <3> QED BY <3>1, <1>5, AppendProperties DEF n
  <2>4. e \in 1 .. Len(more) /\ o + 1 \in 1 .. Len(more[e]) /\ n <= Len(more) /\ e <= n + 1
    BY <2>1, <2>2, <2>3, <1>1, <1>4, <1>5
  <2> HIDE DEF more
  <2> QED BY <2>3, <2>4, <1>2, <1>6 DEF e, o, b, n, c, more, unset
<1>7. CASE ~(e > n)
  <2>1. e \in 1 .. n /\ e <= n + 1 /\ n <= n
    BY <1>2, <1>4, <1>7
  <2>2. o < Len(es[e])
    BY <2>1, <1>1, <1>2, <1>3, <1>4
  <2>3. o + 1 \in 1 .. Len(es[e])
    BY <2>1, <2>2, <1>2, <1>4
  <2> QED BY <2>1, <2>3, <1>1, <1>2, <1>7 DEF e, o, b, n, c
<1> QED BY <1>6, <1>7

\* put has x in front of the place e, o of entries es, and theirs at all others.
PutsAt(es, put, x, c, e, o) ==
  /\ es \in Seq(Seq(Element)) /\ put \in Seq(Seq(Element)) /\ x \in Element
  /\ c \in Nat /\ c <= Len(FlattenSeq(es))
  /\ e \in 1 .. Len(put) /\ o \in Nat /\ o + 1 \in 1 .. Len(put[e])
  /\ e <= Len(es) + 1 /\ Len(es) <= Len(put)
  /\ \A i \in 1 .. Len(es) : Len(put[i]) = Len(es[i])
  /\ \A i \in 1 .. Len(es) : \A j \in 1 .. Len(es[i]) :
       i # e \/ j # o + 1 => put[i][j] = es[i][j]
  /\ put[e][o + 1] = x
  /\ Before(es)[e] + o = c

\* The elements in put are the first c of es, and x.
OneMore(es, put, x, c) ==
  /\ c + 1 <= Len(FlattenSeq(put))
  /\ SubSeq(FlattenSeq(put), 1, c + 1) = Append(SubSeq(FlattenSeq(es), 1, c), x)

\* An element behind those of an array, which stay where they are.
LEMMA Added ==
  ASSUME NEW es, NEW put, NEW x, NEW c, NEW e, NEW o, PutsAt(es, put, x, c, e, o)
  PROVE  OneMore(es, put, x, c)
<1> DEFINE n == Len(es)
           m == Len(put)
           b == Before(es)
           q == Before(put)
           old == FlattenSeq(es)
           new == FlattenSeq(put)
<1>0. /\ es \in Seq(Seq(Element)) /\ put \in Seq(Seq(Element)) /\ x \in Element
      /\ c \in Nat /\ c <= Len(old) /\ e \in 1 .. m /\ o \in Nat /\ o + 1 \in 1 .. Len(put[e])
      /\ e <= n + 1 /\ n <= m
      /\ \A i \in 1 .. n : Len(put[i]) = Len(es[i])
      /\ Before(es)[e] + o = c
  BY DEF PutsAt
<1>1. /\ Len(put) = m /\ put[e][o + 1] = x
      /\ \A i \in 1 .. n : \A j \in 1 .. Len(es[i]) :
           i # e \/ j # o + 1 => put[i][j] = es[i][j]
  BY DEF PutsAt
<1>2. n \in Nat /\ m \in Nat /\ n <= m /\ (\A i \in 1 .. n : Len(put[i]) = Len(es[i]))
  BY <1>0
<1>3. \A i \in 1 .. n + 1 : q[i] = b[i]
  BY <1>0, <1>2, BeforeAgain
<1>4. /\ old \in Seq(Element) /\ Len(old) = b[n + 1]
  BY <1>0, FlatHolds
<1>5. /\ new \in Seq(Element) /\ Len(new) = q[m + 1]
      /\ \A i \in 1 .. m : \A j \in 1 .. Len(put[i]) : new[q[i] + j] = put[i][j]
  <2>1. put \in Seq(Seq(Element)) /\ Len(put) = m
    BY <1>0
  <2>2. /\ new \in Seq(Element) /\ Len(new) = q[Len(put) + 1]
        /\ \A i \in 1 .. Len(put) : \A j \in 1 .. Len(put[i]) : new[q[i] + j] = put[i][j]
    BY <2>1, FlatHolds
  <2> QED BY <2>1, <2>2
<1>6. /\ \A i \in 1 .. n + 1 : b[i] \in Nat
      /\ \A i \in 1 .. m + 1 : q[i] \in Nat
      /\ \A i \in 1 .. m : q[i + 1] = q[i] + Len(put[i]) /\ Len(put[i]) \in Nat
      /\ \A i, j \in 1 .. m + 1 : i <= j => q[i] <= q[j]
  BY <1>0, BeforeGoesUp
<1>7. e \in 1 .. n + 1 /\ e \in 1 .. m /\ e + 1 \in 1 .. m + 1 /\ m + 1 \in 1 .. m + 1 /\ e + 1 <= m + 1
  BY <1>0, <1>2
<1>8. /\ o + 1 \in 1 .. Len(put[e]) /\ q[e] = b[e] /\ b[e] + o = c /\ b[e] \in Nat
      /\ Len(put[e]) \in Nat
  BY <1>0, <1>3, <1>6, <1>7
<1>9. new[c + 1] = x
  <2>1. new[q[e] + (o + 1)] = x
    BY <1>1, <1>5, <1>7, <1>8
  <2>2. q[e] + (o + 1) = c + 1
    <3>1. q[e] \in Nat /\ o \in Nat /\ q[e] + o = c
      BY <1>0, <1>8
    <3>2. q[e] + (o + 1) = (q[e] + o) + 1
      BY <3>1, OneOn
    <3> QED BY <3>1, <3>2
  <2> QED BY <2>1, <2>2
<1>10. c + 1 <= Len(new)
  <2>1. q[e + 1] = q[e] + Len(put[e]) /\ q[e + 1] <= q[m + 1] /\ q[e + 1] \in Nat /\ q[m + 1] \in Nat
    BY <1>6, <1>7
  <2> DEFINE lo == b[e]
             hi == q[m + 1]
             l == Len(put[e])
  <2>2. /\ lo \in Nat /\ hi \in Nat /\ l \in Nat /\ lo + l <= hi /\ lo + o = c /\ o + 1 \in 1 .. l
        /\ Len(new) = hi
    BY <1>0, <2>1, <1>5, <1>8
  <2> HIDE DEF lo, hi, l
  <2>3. c + 1 <= hi
    BY <1>0, <2>2
  <2> QED BY <2>2, <2>3
<1>11. ASSUME NEW k \in 1 .. c PROVE new[k] = old[k]
  <2> DEFINE i == Locate(es, k - 1).entry
             j == Locate(es, k - 1).offset
  <2>1. k - 1 \in Nat /\ k - 1 < Len(old) /\ (k - 1) + 1 = k
    BY <1>0, <1>4
  <2>2. /\ i \in 1 .. n /\ j \in Nat /\ j + 1 \in 1 .. Len(es[i])
        /\ b[i] + j = k - 1 /\ old[(k - 1) + 1] = es[i][j + 1]
    BY <1>0, <2>1, FlatAtPlace
  <2> HIDE DEF i, j
  <2>3. i \in 1 .. m /\ i \in 1 .. n + 1 /\ Len(put[i]) = Len(es[i])
    <3>1. i \in 1 .. m /\ i \in 1 .. n + 1
      <4>1. i \in 1 .. n
        BY <2>2
      <4>2. n \in Nat /\ m \in Nat /\ n <= m
        BY <1>2
      <4> HIDE DEF n, m
      <4> QED BY <4>1, <4>2
    <3> QED BY <3>1, <2>2, <1>2
  <2>4. i # e \/ j + 1 # o + 1
    <3> SUFFICES ASSUME i = e, j = o PROVE FALSE
      BY <1>0, <2>2
    <3>1. b[e] + o = k - 1
      BY <2>2
    <3> HIDE DEF b
    <3> QED BY <3>1, <1>8, <2>1
  <2>5. put[i][j + 1] = es[i][j + 1]
    BY <2>2, <2>3, <2>4, <1>1
  <2>6. new[q[i] + (j + 1)] = put[i][j + 1]
    BY <2>2, <2>3, <1>5
  <2>7. q[i] + (j + 1) = k
    <3>1. q[i] = b[i] /\ b[i] \in Nat
      BY <2>3, <1>3, <1>6
    <3>2. b[i] + (j + 1) = (b[i] + j) + 1
      BY <3>1, <2>2, OneOn
    <3> QED BY <3>1, <3>2, <2>2, <2>1
  <2> QED BY <2>1, <2>2, <2>5, <2>6, <2>7
<1>12. SubSeq(new, 1, c + 1) = Append(SubSeq(old, 1, c), x)
  BY <1>0, <1>4, <1>5, <1>9, <1>10, <1>11, PrefixGrows
<1> QED BY <1>10, <1>12 DEF OneMore

--------------------------------------------------------------------------------
(* Arrays and stacks are a sequence and a stack.                                     *)

StackReady(st) ==
  /\ st \in [index : Nat, grow : Nat, data : Seq(Element)]
  /\ st.data # <<>> => st.index <= Len(st.data) /\ st.grow = 2 * Len(st.data)

Stacked(st) == IF st.data = <<>> THEN <<>> ELSE SubSeq(st.data, 1, st.index)

CollectionsInv == ArrayReady(array) /\ StackReady(stack)

LEMMA NoElements == \A s : SubSeq(s, 1, 0) = <<>>
BY SubSeqEmpty

LEMMA ArrayNeeded ==
  ASSUME ArrayReady(array)
  PROVE  /\ ArrayReady(ArrayIfNeeded) /\ ArrayIfNeeded.entries # <<>>
         /\ Elements(ArrayIfNeeded) = Elements(array)
<1>1. CASE array.entries # <<>>
  BY <1>1 DEF ArrayIfNeeded
<1>2. CASE array.entries = <<>>
  <2> DEFINE new == ArrayCreated(ArraySize)
  <2>1. ArrayIfNeeded = new
    BY <1>2 DEF ArrayIfNeeded
  <2>2. Unset(ArraySize) \in Seq(Element) /\ ArraySize \in Nat /\ ArraySize > 0
    BY ContainersAssumption, UnsetTyped
  <2>3. new = [count |-> 0, grow |-> 2 * ArraySize, entries |-> <<Unset(ArraySize)>>]
    BY DEF ArrayCreated
  <2>4. <<Unset(ArraySize)>> \in Seq(Seq(Element)) /\ <<Unset(ArraySize)>> # <<>>
    BY <2>2
  <2>5. Len(FlattenSeq(<<Unset(ArraySize)>>)) \in Nat
    BY <2>4, FlatHolds
  <2>6. ArrayReady(new) /\ new.entries # <<>>
    BY <2>2, <2>3, <2>4, <2>5 DEF ArrayReady
  <2>7. Elements(new) = <<>>
    BY <2>3, <2>6, NoElements DEF Elements
  <2>8. Elements(array) = <<>>
    BY <1>2, NoElements DEF Elements
  <2> QED BY <2>1, <2>6, <2>7, <2>8
<1> QED BY <1>1, <1>2

LEMMA StackNeeded ==
  ASSUME StackReady(stack)
  PROVE  /\ StackReady(StackIfNeeded) /\ StackIfNeeded.data # <<>>
         /\ Stacked(StackIfNeeded) = Stacked(stack)
<1>1. CASE stack.data # <<>>
  BY <1>1 DEF StackIfNeeded
<1>2. CASE stack.data = <<>>
  <2>1. StackIfNeeded = [index |-> 0, grow |-> 2 * StackSize, data |-> Unset(StackSize)]
    BY <1>2 DEF StackIfNeeded
  <2>2. /\ Unset(StackSize) \in Seq(Element) /\ Len(Unset(StackSize)) = StackSize
        /\ StackSize \in Nat /\ StackSize > 0
    BY ContainersAssumption, UnsetTyped
  <2>3. StackReady(StackIfNeeded) /\ StackIfNeeded.data # <<>>
    BY <2>1, <2>2 DEF StackReady
  <2>4. Stacked(StackIfNeeded) = <<>>
    BY <2>1, NoElements DEF Stacked
  <2>5. Stacked(stack) = <<>>
    BY <1>2 DEF Stacked
  <2> QED BY <2>3, <2>4, <2>5
<1> QED BY <1>1, <1>2

LEMMA ArrayWith ==
  ASSUME NEW arr \in [count : Nat, grow : Nat, entries : Seq(Seq(Element))],
         NEW c \in Nat, NEW g \in Nat, NEW es \in Seq(Seq(Element))
  PROVE  /\ LET new == [arr EXCEPT !.count = c, !.entries = es]
            IN  /\ new \in [count : Nat, grow : Nat, entries : Seq(Seq(Element))]
                /\ new.count = c /\ new.grow = arr.grow /\ new.entries = es
         /\ LET new == [arr EXCEPT !.entries = es, !.grow = g]
            IN  /\ new \in [count : Nat, grow : Nat, entries : Seq(Seq(Element))]
                /\ new.count = arr.count /\ new.grow = g /\ new.entries = es
OBVIOUS

LEMMA ArrayAddAdds ==
  ASSUME CollectionsInv, NEW x \in Values, ArrayAdd(x)
  PROVE  ArrayReady(array)' /\ Elements(array)' = Append(Elements(array), x)
<1> DEFINE arr == ArrayIfNeeded
           place == Locate(arr.entries, arr.count)
           e == place.entry
           o == place.offset
           more == Append(arr.entries, Unset(arr.grow))
           entries == IF e > Len(arr.entries) THEN more ELSE arr.entries
           grown == IF e > Len(arr.entries)
                      THEN [arr EXCEPT !.entries = more, !.grow = 2 * arr.grow]
                      ELSE arr
           put == [entries EXCEPT ![e][o + 1] = x]
<1>1. /\ ArrayReady(arr) /\ arr.entries # <<>> /\ Elements(arr) = Elements(array)
  BY ArrayNeeded DEF CollectionsInv
<1>2. /\ arr \in [count : Nat, grow : Nat, entries : Seq(Seq(Element))]
      /\ arr.count <= Len(FlattenSeq(arr.entries)) /\ arr.grow > 0
  BY <1>1 DEF ArrayReady
<1>3. /\ entries \in Seq(Seq(Element)) /\ Len(arr.entries) <= Len(entries)
      /\ \A i \in 1 .. Len(arr.entries) : entries[i] = arr.entries[i]
      /\ e \in 1 .. Len(entries) /\ e <= Len(arr.entries) + 1
      /\ o \in Nat /\ o + 1 \in 1 .. Len(entries[e])
      /\ Before(arr.entries)[e] + o = arr.count
  BY <1>1, RoomFor
<1>4. x \in Element
  BY DEF Element
<1>5. /\ array' = [grown EXCEPT !.count = grown.count + 1, !.entries[e][o + 1] = x]
  BY DEF ArrayAdd
<1> HIDE DEF arr, e, o
<1>6. /\ grown \in [count : Nat, grow : Nat, entries : Seq(Seq(Element))]
      /\ grown.count = arr.count /\ grown.entries = entries /\ grown.grow > 0
  <2>1. CASE e > Len(arr.entries)
    <3>1. more \in Seq(Seq(Element)) /\ 2 * arr.grow \in Nat /\ 2 * arr.grow > 0
      BY <2>1, <1>2, <1>3
    <3> HIDE DEF more
    <3>2. grown = [arr EXCEPT !.entries = more, !.grow = 2 * arr.grow]
      BY <2>1
    <3> HIDE DEF grown
    <3> QED BY <2>1, <3>1, <3>2, <1>2, ArrayWith
  <2>2. CASE ~(e > Len(arr.entries))
    BY <2>2, <1>2
  <2> QED BY <2>1, <2>2
<1> HIDE DEF grown, entries
<1>7. /\ put \in Seq(Seq(Element)) /\ put # <<>>
      /\ arr.count + 1 <= Len(FlattenSeq(put))
      /\ SubSeq(FlattenSeq(put), 1, arr.count + 1)
           = Append(SubSeq(FlattenSeq(arr.entries), 1, arr.count), x)
  <2> DEFINE es == arr.entries
             c == arr.count
  <2>0. /\ put \in Seq(Seq(Element)) /\ Len(put) = Len(entries)
        /\ \A i \in 1 .. Len(entries) : Len(put[i]) = Len(entries[i])
        /\ put[e][o + 1] = x
        /\ \A i \in 1 .. Len(entries) : \A j \in 1 .. Len(entries[i]) :
             i # e \/ j # o + 1 => put[i][j] = entries[i][j]
    BY <1>3, <1>4, PutAt
  <2>1. es \in Seq(Seq(Element)) /\ c \in Nat
    BY <1>2
  <2>2. /\ c <= Len(FlattenSeq(es)) /\ e <= Len(es) + 1 /\ Len(es) <= Len(entries)
        /\ \A i \in 1 .. Len(es) : entries[i] = es[i]
        /\ Before(es)[e] + o = c
    BY <1>2, <1>3
  <2> HIDE DEF es, c, put
  <2>3. \A i \in 1 .. Len(es) : i \in 1 .. Len(entries)
    BY <2>1, <2>2, <1>3
  <2>4. /\ \A i \in 1 .. Len(es) : Len(put[i]) = Len(es[i])
        /\ \A i \in 1 .. Len(es) : \A j \in 1 .. Len(es[i]) :
             i # e \/ j # o + 1 => put[i][j] = es[i][j]
        /\ e \in 1 .. Len(put) /\ o + 1 \in 1 .. Len(put[e]) /\ Len(es) <= Len(put)
    <3>1. e \in 1 .. Len(put) /\ o + 1 \in 1 .. Len(put[e]) /\ Len(es) <= Len(put)
      BY <2>0, <2>2, <1>3
    <3>2. \A i \in 1 .. Len(es) : Len(put[i]) = Len(es[i]) /\ entries[i] = es[i]
      BY <2>0, <2>2, <2>3
    <3>3. ASSUME NEW i \in 1 .. Len(es), NEW j \in 1 .. Len(es[i]), i # e \/ j # o + 1
          PROVE  put[i][j] = es[i][j]
      <4>1. i \in 1 .. Len(entries) /\ entries[i] = es[i]
        BY <2>3, <3>2
      <4> QED BY <4>1, <3>3, <2>0
    <3> QED BY <3>1, <3>2, <3>3
  <2>7. PutsAt(es, put, x, c, e, o)
    BY <2>0, <2>1, <2>2, <2>4, <1>3, <1>4 DEF PutsAt
  <2>5. /\ c + 1 <= Len(FlattenSeq(put))
        /\ SubSeq(FlattenSeq(put), 1, c + 1) = Append(SubSeq(FlattenSeq(es), 1, c), x)
    <3>1. OneMore(es, put, x, c)
      BY <2>7, Added
    <3> QED BY <3>1 DEF OneMore
  <2>6. put # <<>>
    BY <2>0, <1>3
  <2> QED BY <2>0, <2>5, <2>6 DEF es, c, put
<1>8. array' = [grown EXCEPT !.count = arr.count + 1, !.entries = put]
  BY <1>5, <1>6
<1> HIDE DEF put
<1>9. /\ array' \in [count : Nat, grow : Nat, entries : Seq(Seq(Element))]
      /\ array'.count = arr.count + 1 /\ array'.grow = grown.grow /\ array'.entries = put
  <2>1. arr.count + 1 \in Nat
    BY <1>2
  <2> QED BY <1>6, <1>7, <1>8, <2>1, ArrayWith
<1>10. ArrayReady(array)'
  BY <1>6, <1>7, <1>9 DEF ArrayReady
<1>11. Elements(array)' = SubSeq(FlattenSeq(put), 1, arr.count + 1)
  BY <1>7, <1>9 DEF Elements
<1>12. Elements(arr) = SubSeq(FlattenSeq(arr.entries), 1, arr.count)
  BY <1>1 DEF Elements
<1> QED BY <1>1, <1>7, <1>10, <1>11, <1>12

\* The answer for an index, which counts from zero.
LEMMA ArrayGetGets ==
  ASSUME CollectionsInv, NEW index \in Nat, ArrayGet(index)
  PROVE  /\ ArrayReady(array)' /\ Elements(array)' = Elements(array)
         /\ \E i \in 1 .. Len(Elements(array)) + 1 :
              answer' = IF i <= Len(Elements(array)) THEN Elements(array)[i] ELSE Nothing
<1> DEFINE arr == ArrayIfNeeded
           es == arr.entries
           c == arr.count
           place == Locate(es, index)
           flat == FlattenSeq(es)
           elements == Elements(array)
<1>1. ArrayReady(arr) /\ es # <<>> /\ Elements(arr) = elements
  BY ArrayNeeded DEF CollectionsInv
<1>2. /\ es \in Seq(Seq(Element)) /\ c \in Nat /\ c <= Len(flat)
  BY <1>1 DEF ArrayReady
<1>3. elements = SubSeq(flat, 1, c)
  BY <1>1 DEF Elements
<1>4. flat \in Seq(Element)
  BY <1>2, FlatHolds
<1>5. /\ array' = arr
      /\ answer' = IF index >= c THEN Nothing ELSE es[place.entry][place.offset + 1]
  BY DEF ArrayGet
<1>6. index < c => flat[index + 1] = es[place.entry][place.offset + 1]
  <2> SUFFICES ASSUME index < c PROVE flat[index + 1] = es[place.entry][place.offset + 1]
    OBVIOUS
  <2>1. Len(flat) \in Nat
    BY <1>4
  <2>2. index < Len(flat)
    <3> HIDE DEF c, flat
    <3> QED BY <2>1, <1>2
  <2> QED BY <2>2, <1>2, FlatAtPlace
<1> HIDE DEF es, c, place, flat, elements
<1>7. Len(elements) = c /\ \A k \in 1 .. c : elements[k] = flat[k]
  BY <1>2, <1>3, <1>4, SubSeqProperties
<1>8. \E i \in 1 .. c + 1 : answer' = IF i <= c THEN elements[i] ELSE Nothing
  <2>1. CASE index >= c
    <3>1. c + 1 \in 1 .. c + 1 /\ ~(c + 1 <= c)
      BY <1>2
    <3> QED BY <2>1, <3>1, <1>5
  <2>2. CASE index < c
    <3>1. index + 1 \in 1 .. c + 1 /\ index + 1 <= c /\ index + 1 \in 1 .. c /\ ~(index >= c)
      BY <2>2, <1>2
    <3> QED BY <2>2, <3>1, <1>5, <1>6, <1>7
  <2> QED BY <2>1, <2>2, <1>2
<1>9. ArrayReady(array)' /\ Elements(array)' = elements
  BY <1>1, <1>5 DEF ArrayReady, Elements
<1> QED BY <1>7, <1>8, <1>9 DEF elements

LEMMA StackWith ==
  ASSUME NEW st \in [index : Nat, grow : Nat, data : Seq(Element)],
         NEW i \in Nat, NEW g \in Nat, NEW d \in Seq(Element)
  PROVE  /\ LET new == [st EXCEPT !.index = i, !.data = d]
            IN  /\ new \in [index : Nat, grow : Nat, data : Seq(Element)]
                /\ new.index = i /\ new.grow = st.grow /\ new.data = d
         /\ LET new == [st EXCEPT !.data = d, !.grow = g]
            IN  /\ new \in [index : Nat, grow : Nat, data : Seq(Element)]
                /\ new.index = st.index /\ new.grow = g /\ new.data = d
         /\ LET new == [st EXCEPT !.index = i]
            IN  /\ new \in [index : Nat, grow : Nat, data : Seq(Element)]
                /\ new.index = i /\ new.grow = st.grow /\ new.data = st.data
OBVIOUS

\* An element on a stack that has room.
LEMMA PushedOn ==
  ASSUME NEW st, StackReady(st), st.data # <<>>, st.index < Len(st.data), NEW x \in Element
  PROVE  StackReady(Pushed(st, x)) /\ Stacked(Pushed(st, x)) = Append(Stacked(st), x)
<1> DEFINE i == st.index
           d == st.data
           put == [d EXCEPT ![i + 1] = x]
           new == Pushed(st, x)
<1>1. /\ st \in [index : Nat, grow : Nat, data : Seq(Element)]
      /\ i \in Nat /\ d \in Seq(Element) /\ Len(d) \in Nat /\ i < Len(d) /\ st.grow = 2 * Len(d)
  BY DEF StackReady
<1>2. new = [st EXCEPT !.index = i + 1, !.data = put]
  BY DEF Pushed
<1>3. i + 1 \in 1 .. Len(d) /\ i + 1 \in Nat /\ i + 1 <= Len(d) /\ i <= Len(d)
  <2> HIDE DEF i, d
  <2> QED BY <1>1
<1>4. Stacked(st) = SubSeq(d, 1, i)
  BY DEF Stacked
<1> HIDE DEF i, d, new
<1>5. /\ put \in Seq(Element) /\ Len(put) = Len(d) /\ put[i + 1] = x
      /\ \A k \in 1 .. i : put[k] = d[k]
  <2>1. /\ put \in Seq(Element) /\ Len(put) = Len(d) /\ put[i + 1] = x
        /\ \A k \in 1 .. Len(d) : k # i + 1 => put[k] = d[k]
    BY <1>1, <1>3, ExceptSeq
  <2>2. \A k \in 1 .. i : k \in 1 .. Len(d) /\ k # i + 1
    BY <1>1
  <2> HIDE DEF put
  <2> QED BY <2>1, <2>2
<1> HIDE DEF put
<1>6. /\ new \in [index : Nat, grow : Nat, data : Seq(Element)]
      /\ new.index = i + 1 /\ new.grow = st.grow /\ new.data = put
  BY <1>1, <1>2, <1>3, <1>5, StackWith
<1>7. SubSeq(put, 1, i + 1) = Append(SubSeq(d, 1, i), x)
  <2>1. d \in Seq(Element) /\ i \in Nat /\ i <= Len(d) /\ i + 1 <= Len(put)
    BY <1>1, <1>3, <1>5
  <2> QED BY <2>1, <1>5, PrefixGrows
<1>8. put # <<>>
  BY <1>3, <1>5
<1>9. StackReady(new)
  BY <1>1, <1>3, <1>5, <1>6 DEF StackReady
<1>10. Stacked(new) = Append(Stacked(st), x)
  BY <1>4, <1>6, <1>7, <1>8 DEF Stacked
<1> QED BY <1>9, <1>10 DEF new

\* A stack with more data holds the same elements.
LEMMA MoreData ==
  ASSUME NEW st, StackReady(st), st.data # <<>>, NEW new,
         new = [st EXCEPT !.data = st.data \o Unset(st.grow - Len(st.data)), !.grow = 2 * st.grow]
  PROVE  /\ StackReady(new) /\ new.data # <<>> /\ new.index = st.index
         /\ Len(new.data) = 2 * Len(st.data) /\ Len(new.data) > Len(st.data)
         /\ Stacked(new) = Stacked(st)
<1> DEFINE i == st.index
           d == st.data
           m == Len(d)
           free == Unset(m)
           more == d \o free
<1>1. /\ st \in [index : Nat, grow : Nat, data : Seq(Element)]
      /\ i \in Nat /\ d \in Seq(Element) /\ m \in Nat /\ m > 0 /\ i <= m /\ st.grow = 2 * m
  BY DEF StackReady
<1>2. free \in Seq(Element) /\ Len(free) = m
  BY <1>1, UnsetTyped
<1>3. st.grow - m = m /\ 2 * st.grow = 2 * (2 * m) /\ 2 * st.grow \in Nat /\ m + m = 2 * m /\ m + m > m
  BY <1>1
<1>4. new = [st EXCEPT !.data = more, !.grow = 2 * st.grow]
  BY <1>3
<1>5. /\ more \in Seq(Element) /\ Len(more) = m + m
      /\ \A k \in 1 .. m : more[k] = d[k]
  BY <1>1, <1>2, Joined
<1>6. Stacked(st) = SubSeq(d, 1, i)
  BY DEF Stacked
<1> HIDE DEF more
<1>7. /\ new \in [index : Nat, grow : Nat, data : Seq(Element)]
      /\ new.index = i /\ new.grow = 2 * st.grow /\ new.data = more
  <2> DEFINE g == 2 * st.grow
  <2>1. g \in Nat
    BY <1>3
  <2>2. st \in [index : Nat, grow : Nat, data : Seq(Element)] /\ more \in Seq(Element)
    BY <1>1, <1>5
  <2>3. new = [st EXCEPT !.data = more, !.grow = g]
    BY <1>4
  <2> HIDE DEF g
  <2>4. /\ new \in [index : Nat, grow : Nat, data : Seq(Element)]
        /\ new.index = st.index /\ new.grow = g /\ new.data = more
    BY <2>1, <2>2, <2>3
  <2> QED BY <2>4 DEF g
<1> HIDE DEF m, d, i
<1>8. more # <<>>
  BY <1>1, <1>3, <1>5
<1>9. SubSeq(more, 1, i) = SubSeq(d, 1, i)
  <2> DEFINE s == SubSeq(more, 1, i)
             t == SubSeq(d, 1, i)
  <2>0. m = Len(d) /\ i <= m + m /\ \A k \in 1 .. i : k \in 1 .. m
    BY <1>1 DEF m
  <2>1. s \in Seq(Element) /\ Len(s) = i /\ \A k \in 1 .. i : s[k] = more[k]
    BY <2>0, <1>1, <1>3, <1>5, SubSeqProperties
  <2>2. t \in Seq(Element) /\ Len(t) = i /\ \A k \in 1 .. i : t[k] = d[k]
    BY <2>0, <1>1, SubSeqProperties
  <2> HIDE DEF s, t
  <2>3. \A k \in 1 .. i : s[k] = t[k]
    BY <2>0, <2>1, <2>2, <1>5
  <2>4. s = t
    BY <2>1, <2>2, <2>3, SeqEqual
  <2> QED BY <2>4 DEF s, t
<1>10. StackReady(new) /\ new.data # <<>>
  <2>1. new.index <= Len(new.data) /\ new.grow = 2 * Len(new.data)
    <3>1. 2 * st.grow = 2 * (m + m) /\ i <= m + m
      BY <1>1, <1>3
    <3> QED BY <3>1, <1>5, <1>7
  <2> QED BY <2>1, <1>7, <1>8 DEF StackReady
<1>11. Stacked(new) = Stacked(st)
  BY <1>6, <1>7, <1>8, <1>9 DEF Stacked
<1> QED BY <1>3, <1>5, <1>7, <1>10, <1>11 DEF m, d, i

LEMMA StackTyped ==
  ASSUME NEW st, StackReady(st), st.data # <<>>
  PROVE  st.index \in Nat /\ Len(st.data) \in Nat /\ st.index <= Len(st.data)
BY DEF StackReady

LEMMA StackPushPushes ==
  ASSUME CollectionsInv, NEW x \in Values, StackPush(x)
  PROVE  StackReady(stack)' /\ Stacked(stack)' = Append(Stacked(stack), x)
<1> DEFINE st == StackIfNeeded
           grown == [st EXCEPT !.data = st.data \o Unset(st.grow - Len(st.data)),
                               !.grow = 2 * st.grow]
           room == IF st.index >= Len(st.data) THEN grown ELSE st
<1>1. StackReady(st) /\ st.data # <<>> /\ Stacked(st) = Stacked(stack)
  BY StackNeeded DEF CollectionsInv
<1>2. x \in Element
  BY DEF Element
<1>3. stack' = Pushed(room, x)
  BY DEF StackPush
<1>4. /\ StackReady(grown) /\ grown.data # <<>> /\ grown.index = st.index
      /\ Len(grown.data) > Len(st.data) /\ Stacked(grown) = Stacked(st)
  BY <1>1, MoreData
<1> HIDE DEF st, grown
<1>5. st.index \in Nat /\ Len(st.data) \in Nat /\ st.index <= Len(st.data)
      /\ Len(grown.data) \in Nat
  BY <1>1, <1>4, StackTyped
<1>6. /\ StackReady(room) /\ room.data # <<>> /\ room.index < Len(room.data)
      /\ Stacked(room) = Stacked(st)
  <2>1. CASE st.index >= Len(st.data)
    BY <2>1, <1>4, <1>5
  <2>2. CASE ~(st.index >= Len(st.data))
    BY <2>2, <1>1, <1>5
  <2> QED BY <2>1, <2>2
<1> HIDE DEF room
<1>7. StackReady(Pushed(room, x)) /\ Stacked(Pushed(room, x)) = Append(Stacked(room), x)
  BY <1>2, <1>6, PushedOn
<1>8. StackReady(stack') /\ Stacked(stack') = Append(Stacked(stack), x)
  BY <1>1, <1>3, <1>6, <1>7
<1> QED BY <1>8 DEF StackReady, Stacked

\* The top of a stack, and what is below it.
LEMMA TopAndRest ==
  ASSUME NEW st, StackReady(st), st.data # <<>>
  PROVE  /\ st.index \in Nat
         /\ st.index = 0 <=> Stacked(st) = <<>>
         /\ st.index # 0 =>
              /\ Stacked(st)[Len(Stacked(st))] = st.data[st.index]
              /\ StackReady([st EXCEPT !.index = st.index - 1])
              /\ Stacked([st EXCEPT !.index = st.index - 1])
                   = SubSeq(Stacked(st), 1, Len(Stacked(st)) - 1)
<1> DEFINE i == st.index
           d == st.data
           t == Stacked(st)
           less == [st EXCEPT !.index = i - 1]
<1>1. /\ st \in [index : Nat, grow : Nat, data : Seq(Element)]
      /\ i \in Nat /\ d \in Seq(Element) /\ i <= Len(d) /\ Len(d) \in Nat /\ st.grow = 2 * Len(d)
  BY DEF StackReady
<1>2. t = SubSeq(d, 1, i)
  BY DEF Stacked
<1> HIDE DEF i, d, t
<1>3. t \in Seq(Element) /\ Len(t) = i /\ \A k \in 1 .. i : t[k] = d[k]
  BY <1>1, <1>2, SubSeqProperties
<1>4. i = 0 <=> t = <<>>
  BY <1>1, <1>3
<1>5. ASSUME i # 0
      PROVE  /\ t[Len(t)] = d[i] /\ StackReady(less)
             /\ Stacked(less) = SubSeq(t, 1, Len(t) - 1)
  <2>1. i - 1 \in Nat /\ i - 1 <= Len(d) /\ i - 1 <= i /\ i \in 1 .. i /\ \A k \in 1 .. i - 1 : k \in 1 .. i
    BY <1>1, <1>5
  <2>2. /\ less \in [index : Nat, grow : Nat, data : Seq(Element)]
        /\ less.index = i - 1 /\ less.grow = st.grow /\ less.data = d
    BY <2>1, <1>1, StackWith DEF d
  <2> HIDE DEF less
  <2>3. StackReady(less)
    BY <2>1, <2>2, <1>1 DEF StackReady
  <2>4. Stacked(less) = SubSeq(d, 1, i - 1)
    BY <2>2 DEF Stacked, d
  <2> DEFINE a == SubSeq(d, 1, i - 1)
             b == SubSeq(t, 1, i - 1)
  <2>5. a \in Seq(Element) /\ Len(a) = i - 1 /\ \A k \in 1 .. i - 1 : a[k] = d[k]
    BY <2>1, <1>1, SubSeqProperties
  <2>6. b \in Seq(Element) /\ Len(b) = i - 1 /\ \A k \in 1 .. i - 1 : b[k] = t[k]
    BY <2>1, <1>3, SubSeqProperties
  <2> HIDE DEF a, b
  <2>7. \A k \in 1 .. i - 1 : a[k] = b[k]
    BY <2>1, <2>5, <2>6, <1>3
  <2>8. a = b
    BY <2>5, <2>6, <2>7, SeqEqual
  <2>9. t[Len(t)] = d[i]
    BY <2>1, <1>3
  <2> QED BY <2>3, <2>4, <2>8, <2>9, <1>3 DEF a, b
<1> QED BY <1>1, <1>4, <1>5 DEF i, d, t

\* What an operation on the other leaves as it is.
LEMMA ArrayKept ==
  ASSUME CollectionsInv, UNCHANGED array
  PROVE  ArrayReady(array)' /\ Elements(array)' = Elements(array)
BY DEF CollectionsInv, ArrayReady, Elements

LEMMA StackKept ==
  ASSUME CollectionsInv, UNCHANGED stack
  PROVE  StackReady(stack)' /\ Stacked(stack)' = Stacked(stack)
BY DEF CollectionsInv, StackReady, Stacked

\* What a delete leaves.
LEMMA ArrayEmptied ==
  ASSUME NEW arr \in [count : Nat, grow : Nat, entries : Seq(Seq(Element))]
  PROVE  LET new == [arr EXCEPT !.entries = <<>>]
         IN  /\ new \in [count : Nat, grow : Nat, entries : Seq(Seq(Element))]
             /\ new.entries = <<>>
<1>1. \A es \in Seq(Seq(Element)) :
        LET new == [arr EXCEPT !.entries = es]
        IN  /\ new \in [count : Nat, grow : Nat, entries : Seq(Seq(Element))]
            /\ new.entries = es
  OBVIOUS
<1>2. <<>> \in Seq(Seq(Element))
  OBVIOUS
<1> QED BY <1>1, <1>2, Zenon

LEMMA StackEmptied ==
  ASSUME NEW st \in [index : Nat, grow : Nat, data : Seq(Element)]
  PROVE  LET new == [st EXCEPT !.data = <<>>]
         IN  /\ new \in [index : Nat, grow : Nat, data : Seq(Element)]
             /\ new.data = <<>>
<1>1. \A d \in Seq(Element) :
        LET new == [st EXCEPT !.data = d]
        IN  /\ new \in [index : Nat, grow : Nat, data : Seq(Element)] /\ new.data = d
  OBVIOUS
<1>2. <<>> \in Seq(Element)
  OBVIOUS
<1> QED BY <1>1, <1>2, Zenon

\* Every operation keeps the invariant and is one of a sequence and a stack.
LEMMA CollectionsStep ==
  ASSUME CollectionsInv, [CollectionsNext]_collectionVars
  PROVE  CollectionsInv' /\ [C!Next]_(C!vars)
<1>1. ASSUME NEW x \in Values, ArrayAdd(x)
      PROVE  CollectionsInv' /\ C!Next
  <2>1. UNCHANGED stack /\ answer' = Nothing
    BY <1>1 DEF ArrayAdd
  <2>2. ArrayReady(array)' /\ Elements(array)' = Append(Elements(array), x)
    BY <1>1, ArrayAddAdds
  <2>3. StackReady(stack)' /\ Stacked(stack)' = Stacked(stack)
    BY <2>1, StackKept
  <2>4. C!Add(x)
    BY <2>1, <2>2, <2>3 DEF C!Add, Elements, Stacked
  <2> QED BY <2>2, <2>3, <2>4 DEF CollectionsInv, C!Next
<1>2. ASSUME NEW index \in 0 .. MaxElements, ArrayGet(index)
      PROVE  CollectionsInv' /\ C!Next
  <2>1. UNCHANGED stack
    BY <1>2 DEF ArrayGet
  <2>2. index \in Nat
    BY ContainersAssumption
  <2>3. /\ ArrayReady(array)' /\ Elements(array)' = Elements(array)
        /\ \E i \in 1 .. Len(Elements(array)) + 1 :
             answer' = IF i <= Len(Elements(array)) THEN Elements(array)[i] ELSE Nothing
    BY <1>2, <2>2, ArrayGetGets
  <2>4. StackReady(stack)' /\ Stacked(stack)' = Stacked(stack)
    BY <2>1, StackKept
  <2>5. PICK i \in 1 .. Len(Elements(array)) + 1 :
          answer' = IF i <= Len(Elements(array)) THEN Elements(array)[i] ELSE Nothing
    BY <2>3
  <2>6. C!Get(i)
    BY <2>3, <2>4, <2>5 DEF C!Get, Elements, Stacked
  <2>7. \E j \in 1 .. Len(Elements(array)) + 1 : C!Get(j)
    BY <2>6
  <2>8. C!Next
    BY <2>7 DEF C!Next, Elements
  <2> QED BY <2>3, <2>4, <2>8 DEF CollectionsInv
<1>3. ASSUME ArrayDelete
      PROVE  CollectionsInv' /\ C!Next
  <2>1. UNCHANGED stack /\ answer' = Nothing /\ array' = [array EXCEPT !.entries = <<>>]
    BY <1>3 DEF ArrayDelete
  <2>2. array' \in [count : Nat, grow : Nat, entries : Seq(Seq(Element))] /\ array'.entries = <<>>
    <3>1. array \in [count : Nat, grow : Nat, entries : Seq(Seq(Element))]
      BY DEF CollectionsInv, ArrayReady
    <3> QED BY <2>1, <3>1, ArrayEmptied
  <2>3. ArrayReady(array)'
    BY <2>2 DEF ArrayReady
  <2>4. Elements(array)' = <<>>
    BY <2>2, NoElements DEF Elements
  <2>5. StackReady(stack)' /\ Stacked(stack)' = Stacked(stack)
    BY <2>1, StackKept
  <2>6. C!Clear
    BY <2>1, <2>4, <2>5 DEF C!Clear, Elements, Stacked
  <2> QED BY <2>3, <2>5, <2>6 DEF CollectionsInv, C!Next
<1>4. ASSUME NEW x \in Values, StackPush(x)
      PROVE  CollectionsInv' /\ C!Next
  <2>1. UNCHANGED array /\ answer' = Nothing
    BY <1>4 DEF StackPush
  <2>2. StackReady(stack)' /\ Stacked(stack)' = Append(Stacked(stack), x)
    BY <1>4, StackPushPushes
  <2>3. ArrayReady(array)' /\ Elements(array)' = Elements(array)
    BY <2>1, ArrayKept
  <2>4. C!Push(x)
    BY <2>1, <2>2, <2>3 DEF C!Push, Elements, Stacked
  <2> QED BY <2>2, <2>3, <2>4 DEF CollectionsInv, C!Next
<1>5. /\ StackReady(StackIfNeeded) /\ StackIfNeeded.data # <<>>
      /\ Stacked(StackIfNeeded) = Stacked(stack)
  BY StackNeeded DEF CollectionsInv
<1>6. ASSUME stack' = StackIfNeeded
      PROVE  StackReady(stack)' /\ Stacked(stack)' = Stacked(stack)
  BY <1>5, <1>6 DEF StackReady, Stacked
<1>7. ASSUME StackPushFails
      PROVE  CollectionsInv' /\ C!Next
  <2>1. UNCHANGED array /\ answer' = Nothing /\ stack' = StackIfNeeded
    BY <1>7 DEF StackPushFails
  <2>2. StackReady(stack)' /\ Stacked(stack)' = Stacked(stack)
    BY <2>1, <1>6
  <2>3. ArrayReady(array)' /\ Elements(array)' = Elements(array)
    BY <2>1, ArrayKept
  <2>4. C!PushFails
    BY <2>1, <2>2, <2>3 DEF C!PushFails, Elements, Stacked
  <2> QED BY <2>2, <2>3, <2>4 DEF CollectionsInv, C!Next
<1>8. /\ StackIfNeeded.index \in Nat
      /\ StackIfNeeded.index = 0 <=> Stacked(stack) = <<>>
      /\ StackIfNeeded.index # 0 =>
           /\ Stacked(stack)[Len(Stacked(stack))] = StackIfNeeded.data[StackIfNeeded.index]
           /\ StackReady([StackIfNeeded EXCEPT !.index = StackIfNeeded.index - 1])
           /\ Stacked([StackIfNeeded EXCEPT !.index = StackIfNeeded.index - 1])
                = SubSeq(Stacked(stack), 1, Len(Stacked(stack)) - 1)
  <2> DEFINE st == StackIfNeeded
  <2> HIDE DEF st
  <2>1. /\ st.index \in Nat
        /\ st.index = 0 <=> Stacked(st) = <<>>
        /\ st.index # 0 =>
             /\ Stacked(st)[Len(Stacked(st))] = st.data[st.index]
             /\ StackReady([st EXCEPT !.index = st.index - 1])
             /\ Stacked([st EXCEPT !.index = st.index - 1])
                  = SubSeq(Stacked(st), 1, Len(Stacked(st)) - 1)
    <3>1. StackReady(st) /\ st.data # <<>>
      BY <1>5 DEF st
    <3> QED BY <3>1, TopAndRest
  <2>2. Stacked(st) = Stacked(stack)
    BY <1>5 DEF st
  <2>3. /\ st.index \in Nat
        /\ st.index = 0 <=> Stacked(stack) = <<>>
        /\ st.index # 0 =>
             /\ Stacked(stack)[Len(Stacked(stack))] = st.data[st.index]
             /\ StackReady([st EXCEPT !.index = st.index - 1])
             /\ Stacked([st EXCEPT !.index = st.index - 1])
                  = SubSeq(Stacked(stack), 1, Len(Stacked(stack)) - 1)
    BY <2>1, <2>2
  <2> QED BY <2>3 DEF st
<1>9. ASSUME answer' = IF StackIfNeeded.index = 0
                         THEN Nothing ELSE StackIfNeeded.data[StackIfNeeded.index]
      PROVE  answer' = IF Stacked(stack) = <<>>
                         THEN Nothing ELSE Stacked(stack)[Len(Stacked(stack))]
  BY <1>8, <1>9
<1>10. ASSUME StackPeek
       PROVE  CollectionsInv' /\ C!Next
  <2>1. /\ UNCHANGED array /\ stack' = StackIfNeeded
        /\ answer' = IF StackIfNeeded.index = 0
                       THEN Nothing ELSE StackIfNeeded.data[StackIfNeeded.index]
    BY <1>10 DEF StackPeek
  <2>2. StackReady(stack)' /\ Stacked(stack)' = Stacked(stack)
    BY <2>1, <1>6
  <2>3. ArrayReady(array)' /\ Elements(array)' = Elements(array)
    BY <2>1, ArrayKept
  <2>4. answer' = IF Stacked(stack) = <<>>
                    THEN Nothing ELSE Stacked(stack)[Len(Stacked(stack))]
    BY <2>1, <1>9
  <2>5. C!Peek
    BY <2>2, <2>3, <2>4 DEF C!Peek, Elements, Stacked
  <2> QED BY <2>2, <2>3, <2>5 DEF CollectionsInv, C!Next
<1>11. ASSUME StackPop
       PROVE  CollectionsInv' /\ C!Next
  <2>1. /\ UNCHANGED array
        /\ stack' = IF StackIfNeeded.index = 0
                      THEN StackIfNeeded
                      ELSE [StackIfNeeded EXCEPT !.index = StackIfNeeded.index - 1]
        /\ answer' = IF StackIfNeeded.index = 0
                       THEN Nothing ELSE StackIfNeeded.data[StackIfNeeded.index]
    BY <1>11 DEF StackPop
  <2>2. /\ StackReady(stack')
        /\ Stacked(stack') = IF Stacked(stack) = <<>>
                               THEN Stacked(stack)
                               ELSE SubSeq(Stacked(stack), 1, Len(Stacked(stack)) - 1)
    <3>1. CASE StackIfNeeded.index = 0
      <4>1. stack' = StackIfNeeded /\ Stacked(stack) = <<>>
        BY <3>1, <2>1, <1>8
      <4> QED BY <4>1, <1>5
    <3>2. CASE StackIfNeeded.index # 0
      <4>1. stack' = [StackIfNeeded EXCEPT !.index = StackIfNeeded.index - 1]
            /\ Stacked(stack) # <<>>
        BY <3>2, <2>1, <1>8
      <4> QED BY <3>2, <4>1, <1>8
    <3> QED BY <3>1, <3>2
  <2>3. /\ StackReady(stack)'
        /\ Stacked(stack)' = IF Stacked(stack) = <<>>
                               THEN Stacked(stack)
                               ELSE SubSeq(Stacked(stack), 1, Len(Stacked(stack)) - 1)
    BY <2>2 DEF StackReady, Stacked
  <2>4. ArrayReady(array)' /\ Elements(array)' = Elements(array)
    BY <2>1, ArrayKept
  <2>5. answer' = IF Stacked(stack) = <<>>
                    THEN Nothing ELSE Stacked(stack)[Len(Stacked(stack))]
    BY <2>1, <1>9
  <2>6. C!Pop
    BY <2>3, <2>4, <2>5 DEF C!Pop, Elements, Stacked
  <2> QED BY <2>3, <2>4, <2>6 DEF CollectionsInv, C!Next
<1>12. ASSUME StackDelete
       PROVE  CollectionsInv' /\ C!Next
  <2>1. UNCHANGED array /\ answer' = Nothing /\ stack' = [stack EXCEPT !.data = <<>>]
    BY <1>12 DEF StackDelete
  <2>2. stack' \in [index : Nat, grow : Nat, data : Seq(Element)] /\ stack'.data = <<>>
    <3>1. stack \in [index : Nat, grow : Nat, data : Seq(Element)]
      BY DEF CollectionsInv, StackReady
    <3> QED BY <2>1, <3>1, StackEmptied
  <2>3. StackReady(stack)' /\ Stacked(stack)' = <<>>
    BY <2>2 DEF StackReady, Stacked
  <2>4. ArrayReady(array)' /\ Elements(array)' = Elements(array)
    BY <2>1, ArrayKept
  <2>5. C!Empty
    BY <2>1, <2>3, <2>4 DEF C!Empty, Elements, Stacked
  <2> QED BY <2>3, <2>4, <2>5 DEF CollectionsInv, C!Next
<1>13. ASSUME UNCHANGED collectionVars
       PROVE  CollectionsInv' /\ UNCHANGED C!vars
  <2>1. UNCHANGED <<array, stack, answer>>
    BY <1>13 DEF collectionVars
  <2>2. StackReady(stack)' /\ Stacked(stack)' = Stacked(stack)
    BY <2>1, StackKept
  <2>3. ArrayReady(array)' /\ Elements(array)' = Elements(array)
    BY <2>1, ArrayKept
  <2>4. UNCHANGED C!vars
    BY <2>1, <2>2, <2>3 DEF C!vars, Elements, Stacked
  <2> QED BY <2>2, <2>3, <2>4 DEF CollectionsInv
<1> QED
  BY <1>1, <1>2, <1>3, <1>4, <1>7, <1>10, <1>11, <1>12, <1>13 DEF CollectionsNext

\* Arrays and stacks are a sequence and a stack, however often they are grown,
\* deleted and created again, for every initial size of theirs.
THEOREM CollectionsAreCollections == CollectionsSpec => ImplementsCollections
<1>1. CollectionsInit => CollectionsInv /\ C!Init
  <2> SUFFICES ASSUME CollectionsInit PROVE CollectionsInv /\ C!Init
    OBVIOUS
  <2>1. /\ array = [count |-> 0, grow |-> 0, entries |-> <<>>]
        /\ stack = [index |-> 0, grow |-> 0, data |-> <<>>] /\ answer = Nothing
    BY DEF CollectionsInit, NoArray, NoStack
  <2>2. ArrayReady(array) /\ StackReady(stack)
    BY <2>1 DEF ArrayReady, StackReady
  <2>3. Elements(array) = <<>>
    BY <2>1, NoElements DEF Elements
  <2>4. Stacked(stack) = <<>>
    BY <2>1 DEF Stacked
  <2>5. C!Init
    BY <2>1, <2>3, <2>4 DEF C!Init, Elements, Stacked
  <2> QED BY <2>2, <2>5 DEF CollectionsInv
<1>2. CollectionsInv /\ [CollectionsNext]_collectionVars
        => CollectionsInv' /\ [C!Next]_(C!vars)
  BY CollectionsStep
<1> QED
  BY <1>1, <1>2, PTL DEF CollectionsSpec, ImplementsCollections, C!Spec

================================================================================
