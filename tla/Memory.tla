--------------------------------- MODULE Memory ---------------------------------
(***************************************************************************)
(* The allocators: an arena (src/arena.cpp) and the temporary buffer        *)
(* (src/talloc.cpp).  Addresses are offsets: into a chunk of the arena, or  *)
(* into the buffer.                                                         *)
(*                                                                          *)
(* arena_allocate calls itself for the next chunk: each call is a step, and *)
(* request holds its arguments.  temp_allocate calls itself through the     *)
(* logger, which copies its messages into the temporary buffer.  What was   *)
(* handed out is kept for the properties only.                              *)
(***************************************************************************)
EXTENDS Integers, Sequences

CONSTANTS
  ArenaSize,     \* init_size of the arena
  TEMP_MEM_SIZE, \* bytes of the temporary buffer
  WarningSize,   \* bytes of "__talloc_data wrapped.", with the zero at its end
  MaxCalls,      \* calls of temp_allocate in each other for which the stack has room
  MaxChunks,     \* bound of the model: chunks of the arena
  MaxBlocks      \* bound of the model: blocks handed out between two resets

\* Arenas are created with a size that is not zero: no chunk of none would ever
\* double to one that fits.
ASSUME MemoryAssumption ==
  /\ ArenaSize \in Nat \ {0}
  /\ TEMP_MEM_SIZE \in Nat \ {0}
  /\ WarningSize \in Nat \ {0}
  /\ MaxCalls \in Nat /\ MaxChunks \in Nat /\ MaxBlocks \in Nat

VARIABLES
  chunks,   \* the chunks of the arena, in the order of next
  request,  \* the running call of arena_allocate: the size, and the number of
            \* the chunk it looks at, or 0 when there is none
  blocks,   \* blocks handed out by the arena, in order
  position, \* __talloc_data.position
  calls,    \* the running calls of temp_allocate, the innermost one last: size, and
            \* the address when it warned about the end of the buffer
  temps,    \* blocks handed out by the temporary buffer since it was reset
  lap       \* how often the buffer has wrapped since then

arenaVars == <<chunks, request, blocks>>
tempVars == <<position, calls, temps, lap>>

--------------------------------------------------------------------------------
(* Arena.                                                                       *)

\* Mutant: one byte more than there is.
Fits_OneMore(chunk, size) == size <= chunk.size - chunk.index + 1

Fits(chunk, size) == size <= chunk.size - chunk.index

NoRequest == [size |-> 0, at |-> 0]

Idle == request.at = 0

\* A call of arena_allocate from outside.
ArenaAsk(size) ==
  /\ Idle
  /\ Len(blocks) < MaxBlocks
  /\ request' = [size |-> size, at |-> 1]
  /\ UNCHANGED <<chunks, blocks, tempVars>>

\* The chunk has room: the next bytes of it are the answer.
ArenaTake ==
  /\ ~Idle
  /\ LET chunk == chunks[request.at]
         next == chunk.index + request.size
     IN  /\ Fits(chunk, request.size)
         /\ chunks' = [chunks EXCEPT ![request.at] = [size |-> chunk.size, index |-> next]]
         /\ blocks' = Append(blocks, [chunk |-> request.at, from |-> chunk.index, to |-> next])
  /\ request' = NoRequest
  /\ UNCHANGED tempVars

\* The next chunk is asked.
ArenaGoOn ==
  /\ ~Idle
  /\ ~Fits(chunks[request.at], request.size)
  /\ request.at < Len(chunks)
  /\ request' = [request EXCEPT !.at = @ + 1]
  /\ UNCHANGED <<chunks, blocks, tempVars>>

\* Mutant: it is as large as the last one.
ArenaExtend_SameSize ==
  /\ ~Idle
  /\ ~Fits(chunks[request.at], request.size)
  /\ request.at = Len(chunks)
  /\ Len(chunks) < MaxChunks
  /\ chunks' = Append(chunks, [size |-> chunks[request.at].size, index |-> 0])
  /\ request' = [request EXCEPT !.at = @ + 1]
  /\ UNCHANGED <<blocks, tempVars>>

\* There is no next chunk: one of twice the size is created, and asked.
ArenaExtend ==
  /\ ~Idle
  /\ ~Fits(chunks[request.at], request.size)
  /\ request.at = Len(chunks)
  /\ Len(chunks) < MaxChunks
  /\ chunks' = Append(chunks, [size |-> 2 * chunks[request.at].size, index |-> 0])
  /\ request' = [request EXCEPT !.at = @ + 1]
  /\ UNCHANGED <<blocks, tempVars>>

\* arena_create, with a chunk that holds nothing.
ArenaInit ==
  /\ chunks = <<[size |-> ArenaSize, index |-> 0]>>
  /\ request = NoRequest
  /\ blocks = <<>>

--------------------------------------------------------------------------------
(* Temporary buffer.                                                            *)

Call(size) == [size |-> size, address |-> 0, warned |-> FALSE]

Caller == calls[Len(calls)]

Return == SubSeq(calls, 1, Len(calls) - 1)

\* What is handed out to the program: the text of a message is used up at once.
HandOut(address) ==
  temps' = IF Len(calls) = 1
             THEN Append(temps, [lap |-> lap, from |-> address, to |-> address + Caller.size])
             ELSE temps

\* A call of temp_allocate from outside; a request of more than the buffer is
\* answered with NULL.
TempAsk(size) ==
  /\ calls = <<>>
  /\ size <= TEMP_MEM_SIZE
  /\ Len(temps) < MaxBlocks
  /\ calls' = <<Call(size)>>
  /\ UNCHANGED <<position, temps, lap, arenaVars>>

\* Mutant: or at the end of it.
TempTake_UpToTheEnd ==
  /\ calls # <<>> /\ ~Caller.warned
  /\ position + Caller.size <= TEMP_MEM_SIZE
  /\ HandOut(position)
  /\ position' = position + Caller.size
  /\ calls' = Return
  /\ UNCHANGED <<lap, arenaVars>>

\* The request ends in front of the end of the buffer.
TempTake ==
  /\ calls # <<>> /\ ~Caller.warned
  /\ position + Caller.size < TEMP_MEM_SIZE
  /\ HandOut(position)
  /\ position' = position + Caller.size
  /\ calls' = Return
  /\ UNCHANGED <<lap, arenaVars>>

\* It does not: the warning about it asks the buffer for a copy of its text,
\* while address and new_position are on the stack already.
TempWarn ==
  /\ calls # <<>> /\ ~Caller.warned
  /\ position + Caller.size >= TEMP_MEM_SIZE
  /\ Len(calls) < MaxCalls
  /\ calls' = Append([calls EXCEPT ![Len(calls)] =
                       [size |-> Caller.size, address |-> position, warned |-> TRUE]],
                     Call(WarningSize))
  /\ UNCHANGED <<position, temps, lap, arenaVars>>

\* Behind the warning: the answer is the address at the end of the buffer, and the
\* position goes behind as many bytes at the front.
TempWrap ==
  /\ calls # <<>> /\ Caller.warned
  /\ HandOut(Caller.address)
  /\ position' = IF Caller.address + Caller.size > TEMP_MEM_SIZE THEN Caller.size ELSE 0
  /\ lap' = lap + 1
  /\ calls' = Return
  /\ UNCHANGED arenaVars

TempReset ==
  /\ calls = <<>>
  /\ position' = 0
  /\ temps' = <<>>
  /\ lap' = 0
  /\ UNCHANGED <<calls, arenaVars>>

TempInit == position = 0 /\ calls = <<>> /\ temps = <<>> /\ lap = 0

--------------------------------------------------------------------------------

MemoryInit == ArenaInit /\ TempInit

\* The steps for requests of the given sizes.
ArenaNext(sizes) ==
  \/ \E size \in sizes : ArenaAsk(size)
  \/ ArenaTake \/ ArenaGoOn \/ ArenaExtend

TempNext(sizes) ==
  \/ \E size \in sizes : TempAsk(size)
  \/ TempTake \/ TempWarn \/ TempWrap \/ TempReset

memoryVars == <<arenaVars, tempVars>>

MemorySpec == MemoryInit /\ [][ArenaNext(Nat) \/ TempNext(Nat)]_memoryVars

--------------------------------------------------------------------------------
(* Properties.                                                                  *)

Overlap(a, b) == a.from < b.to /\ b.from < a.to

\* Two blocks of an arena never share a byte, and each is inside its chunk,
\* however requests go back to the rest of a smaller chunk, or on to a chunk of
\* twice the size (arena_allocate).
ArenaBlocksApart ==
  /\ \A i \in DOMAIN blocks : blocks[i].to <= chunks[blocks[i].chunk].size
  /\ \A i, j \in DOMAIN blocks :
       i # j /\ blocks[i].chunk = blocks[j].chunk => ~Overlap(blocks[i], blocks[j])

\* Temporary blocks share a byte only if the buffer wrapped between them, and
\* only the block at which it wraps goes past the end of the buffer, by no more
\* than its size.  That block is always longer than the warning about it: a
\* shorter one is never answered, because the warning does not fit either and
\* warns about itself (temp_allocate, log_warning).
TempBlocksApart ==
  /\ \A i, j \in DOMAIN temps :
       i # j /\ temps[i].lap = temps[j].lap => ~Overlap(temps[i], temps[j])
  /\ \A i \in DOMAIN temps :
       /\ temps[i].from <= TEMP_MEM_SIZE
       /\ temps[i].to >= TEMP_MEM_SIZE =>
            /\ temps[i].to - temps[i].from > WarningSize
            /\ temps[i].lap < lap
            /\ i < Len(temps) => temps[i].lap < temps[i + 1].lap

================================================================================
