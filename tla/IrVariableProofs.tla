---------------------------- MODULE IrVariableProofs ----------------------------
(***************************************************************************)
(* Which blocks are in the frames of the calls, for every program whose code *)
(* says so of every opcode: the variables are found where the generator      *)
(* counted them, and what is given back are whole blocks.                    *)
(***************************************************************************)
EXTENDS IrMachineProofs

--------------------------------------------------------------------------------
(* The blocks of a frame.                                                       *)

\* Blocks of at least a word each, one behind the other.
Solid(blocks) ==
  /\ blocks \in Seq(Blocks)
  /\ \A i \in 1 .. Len(blocks) : blocks[i].size > 0
  /\ Tiles(blocks, SizeOfAll(blocks))

LEMMA SolidBlocks ==
  ASSUME NEW blocks, Solid(blocks)
  PROVE  /\ Len(blocks) \in Nat /\ SizeOfAll(blocks) \in Nat
         /\ \A i \in 1 .. Len(blocks) :
              /\ blocks[i] \in Blocks /\ blocks[i].start \in Nat /\ blocks[i].size \in Nat
              /\ blocks[i].start + blocks[i].size <= SizeOfAll(blocks)
         /\ blocks = <<>> => SizeOfAll(blocks) = 0
         /\ blocks # <<>> => 1 \in 1 .. Len(blocks) /\ blocks[1].start = 0
<1>1. Len(blocks) \in Nat /\ blocks \in Seq(Blocks)
  BY DEF Solid
<1>2. \A i \in 1 .. Len(blocks) :
        blocks[i] \in Blocks /\ blocks[i].start \in Nat /\ blocks[i].size \in Nat
  <2>1. \A i \in 1 .. Len(blocks) : blocks[i] \in Blocks
    BY <1>1, ElementOfSeq
  <2> QED BY <2>1 DEF Blocks
<1>3. CASE blocks = <<>>
  BY <1>1, <1>3 DEF SizeOfAll
<1>4. CASE blocks # <<>>
  <2>1. Len(blocks) \in 1 .. Len(blocks) /\ 1 \in 1 .. Len(blocks)
    BY <1>1, <1>4
  <2>2. SizeOfAll(blocks) = blocks[Len(blocks)].start + blocks[Len(blocks)].size
    BY <1>4 DEF SizeOfAll
  <2>3. SizeOfAll(blocks) \in Nat
    BY <2>1, <2>2, <1>2
  <2>4. ASSUME NEW i \in 1 .. Len(blocks)
        PROVE  blocks[i].start + blocks[i].size <= SizeOfAll(blocks)
    <3>1. CASE i = Len(blocks)
      BY <3>1, <2>2, <2>3
    <3>2. CASE i # Len(blocks)
      <4>1. blocks[i].start + blocks[i].size <= blocks[Len(blocks)].start
        BY <3>2, <2>1, <1>1 DEF Solid, Tiles
      <4>2. blocks[i].start \in Nat /\ blocks[i].size \in Nat
        BY <1>2
      <4>3. blocks[Len(blocks)].start \in Nat /\ blocks[Len(blocks)].size \in Nat
        BY <2>1, <1>2
      <4> QED BY <4>1, <4>2, <4>3, <2>2
    <3> QED BY <3>1, <3>2
  <2> QED BY <2>1, <2>3, <2>4, <1>1, <1>2, <1>4 DEF Solid, Tiles
<1> QED BY <1>3, <1>4

\* The first k of the blocks, and how much of the frame they take.
FirstOf(blocks, k, first) ==
  /\ Solid(first) /\ Len(first) = k
  /\ \A i \in 1 .. k : first[i] = blocks[i]
  /\ \A i \in k + 1 .. Len(blocks) : blocks[i].start >= SizeOfAll(first)
  /\ k < Len(blocks) => blocks[k + 1].start = SizeOfAll(first)
  /\ k = Len(blocks) => SizeOfAll(first) = SizeOfAll(blocks)

\* Some of the first blocks are blocks one behind the other, and the rest is behind them.
LEMMA SolidPrefix ==
  ASSUME NEW blocks, Solid(blocks), NEW k \in 0 .. Len(blocks), NEW first,
         first = SubSeq(blocks, 1, k)
  PROVE  FirstOf(blocks, k, first)
<1>1. /\ blocks \in Seq(Blocks) /\ Len(blocks) \in Nat /\ k \in Nat /\ k <= Len(blocks)
      /\ \A i \in 1 .. Len(blocks) :
           blocks[i] \in Blocks /\ blocks[i].start \in Nat /\ blocks[i].size \in Nat
  BY SolidBlocks DEF Solid
<1>2. /\ first \in Seq(Blocks) /\ Len(first) = k
      /\ \A i \in 1 .. k : first[i] = blocks[i]
  <2>1. \A i \in 1 .. k : blocks[i] \in Blocks
    BY <1>1
  <2>2. /\ SubSeq(blocks, 1, k) \in Seq(Blocks)
        /\ Len(SubSeq(blocks, 1, k)) = IF 1 <= k THEN k - 1 + 1 ELSE 0
        /\ \A i \in 1 .. k - 1 + 1 : SubSeq(blocks, 1, k)[i] = blocks[1 + i - 1]
    BY <2>1, <1>1, SubSeqProperties
  <2>3. Len(first) = k /\ \A i \in 1 .. k : first[i] = blocks[i]
    BY <2>2, <1>1
  <2> QED BY <2>2, <2>3
<1>3. /\ k = 0 => first = <<>> /\ SizeOfAll(first) = 0
      /\ k # 0 => /\ first # <<>> /\ k \in 1 .. k
                  /\ SizeOfAll(first) = blocks[k].start + blocks[k].size
  <2>1. k = 0 => first = <<>>
    BY <1>2
  <2>2. k # 0 => first # <<>> /\ k \in 1 .. k
    <3>1. first = <<>> => Len(first) = 0
      OBVIOUS
    <3>2. k # 0 => k \in 1 .. k
      BY <1>1
    <3> QED BY <3>1, <3>2, <1>2
  <2> QED BY <2>1, <2>2, <1>2 DEF SizeOfAll
<1>4. Tiles(blocks, SizeOfAll(blocks))
  BY DEF Solid
<1>5. Tiles(first, SizeOfAll(first))
  <2>1. first # <<>> => first[1].start = 0 /\ first[Len(first)].start + first[Len(first)].size = SizeOfAll(first)
    <3> SUFFICES ASSUME first # <<>>
                 PROVE  first[1].start = 0 /\ first[Len(first)].start + first[Len(first)].size = SizeOfAll(first)
      OBVIOUS
    <3>1. k # 0 /\ 1 \in 1 .. k /\ blocks # <<>>
      BY <1>1, <1>2, <1>3
    <3> QED BY <3>1, <1>2, <1>3, <1>4 DEF Tiles
  <2>2. \A i \in 1 .. Len(first) - 1 : first[i].start + first[i].size = first[i + 1].start
    <3> TAKE i \in 1 .. Len(first) - 1
    <3>1. i \in 1 .. k /\ i + 1 \in 1 .. k /\ i \in 1 .. Len(blocks) - 1
      BY <1>1, <1>2
    <3> QED BY <3>1, <1>2, <1>4 DEF Tiles
  <2>3. \A i, j \in 1 .. Len(first) : i < j => first[i].start + first[i].size <= first[j].start
    <3> TAKE i, j \in 1 .. Len(first)
    <3>1. i \in 1 .. k /\ j \in 1 .. k /\ i \in 1 .. Len(blocks) /\ j \in 1 .. Len(blocks)
      BY <1>1, <1>2
    <3> QED BY <3>1, <1>2, <1>4 DEF Tiles
  <2> QED BY <2>1, <2>2, <2>3, <1>1, <1>2, <1>3 DEF Tiles
<1>6. Solid(first)
  <2>1. \A i \in 1 .. Len(first) : first[i].size > 0
    BY <1>1, <1>2 DEF Solid
  <2> QED BY <2>1, <1>2, <1>5 DEF Solid
<1>7. k < Len(blocks) => blocks[k + 1].start = SizeOfAll(first)
  <2> SUFFICES ASSUME k < Len(blocks) PROVE blocks[k + 1].start = SizeOfAll(first)
    OBVIOUS
  <2>1. CASE k = 0
    BY <2>1, <1>3, <1>4 DEF Tiles
  <2>2. CASE k # 0
    <3>1. k \in 1 .. Len(blocks) - 1
      BY <2>2, <1>1
    <3> QED BY <3>1, <2>2, <1>3, <1>4 DEF Tiles
  <2> QED BY <2>1, <2>2
<1>8. ASSUME NEW i \in k + 1 .. Len(blocks)
      PROVE  blocks[i].start >= SizeOfAll(first)
  <2>1. /\ k + 1 \in 1 .. Len(blocks) /\ i \in 1 .. Len(blocks)
        /\ blocks[k + 1].start = SizeOfAll(first)
    BY <1>1, <1>7
  <2>2. i # k + 1 => blocks[k + 1].start + blocks[k + 1].size <= blocks[i].start
    BY <2>1, <1>1, <1>4 DEF Tiles
  <2> QED BY <2>1, <2>2, <1>1
<1>9. k = Len(blocks) => SizeOfAll(first) = SizeOfAll(blocks)
  <2>1. blocks = <<>> => Len(blocks) = 0
    OBVIOUS
  <2>2. k = Len(blocks) => (blocks = <<>> <=> k = 0)
    BY <2>1, <1>1
  <2> QED BY <2>1, <2>2, <1>1, <1>3 DEF SizeOfAll
<1> QED BY <1>2, <1>6, <1>7, <1>8, <1>9 DEF FirstOf

\* A block of a frame that begins at base.
Moved(block, base) ==
  [start |-> base + block.start, size |-> block.size, name |-> block.name]

\* The blocks of a memory a that begin between base and top are those of the frame.
Holds(blocks, base, top, a) ==
  /\ Solid(blocks)
  /\ top = base + SizeOfAll(blocks)
  /\ \A i \in 1 .. Len(blocks) : \E j \in 1 .. Len(a) : a[j] = Moved(blocks[i], base)
  /\ \A j \in 1 .. Len(a) : base <= a[j].start /\ a[j].start < top =>
       \E i \in 1 .. Len(blocks) : a[j] = Moved(blocks[i], base)

\* A memory with the same blocks below the top.
LEMMA HoldsKeeps ==
  ASSUME NEW blocks, NEW base, NEW top, NEW a, NEW b,
         Holds(blocks, base, top, a), base \in Nat,
         \A j \in 1 .. Len(a) : a[j].start < top => \E k \in 1 .. Len(b) : b[k] = a[j],
         \A k \in 1 .. Len(b) : b[k].start < top => \E j \in 1 .. Len(a) : b[k] = a[j]
  PROVE  Holds(blocks, base, top, b)
<1>1. ASSUME NEW i \in 1 .. Len(blocks)
      PROVE  \E k \in 1 .. Len(b) : b[k] = Moved(blocks[i], base)
  <2>1. PICK j \in 1 .. Len(a) : a[j] = Moved(blocks[i], base)
    BY DEF Holds
  <2>2. a[j].start < top
    <3>1. Solid(blocks) /\ top = base + SizeOfAll(blocks)
      BY DEF Holds
    <3>2. blocks[i].start \in Nat /\ blocks[i].start + blocks[i].size <= SizeOfAll(blocks)
          /\ blocks[i].size \in Nat /\ SizeOfAll(blocks) \in Nat
      BY <3>1, SolidBlocks
    <3>3. blocks[i].size > 0
      BY <3>1 DEF Solid
    <3>4. a[j].start = base + blocks[i].start
      BY <2>1 DEF Moved
    <3> QED BY <3>1, <3>2, <3>3, <3>4
  <2> QED BY <2>1, <2>2
<1>2. ASSUME NEW k \in 1 .. Len(b), base <= b[k].start, b[k].start < top
      PROVE  \E i \in 1 .. Len(blocks) : b[k] = Moved(blocks[i], base)
  <2>1. PICK j \in 1 .. Len(a) : b[k] = a[j]
    BY <1>2
  <2>2. base <= a[j].start /\ a[j].start < top
    BY <2>1, <1>2
  <2>3. \E i \in 1 .. Len(blocks) : a[j] = Moved(blocks[i], base)
    BY <2>2 DEF Holds
  <2> QED BY <2>1, <2>3
<1> QED BY <1>1, <1>2 DEF Holds

--------------------------------------------------------------------------------
(* The inductive invariant.                                                     *)

\* The frames of a function, one way of assigning them.
FramesOf(f) == CHOOSE frames : TidyBy(ir.functions[f].code, frames)

FrameAt(k) == FramesOf(curr_func[k])[CallAt(k)]

\* The frame of every call holds the blocks its code says, up to the next frame or to
\* what is being given back, which are whole blocks.
BlocksPlaced ==
  LET n == Len(curr_func)
  IN  /\ \A k \in 1 .. n : /\ CallAt(k) \in DOMAIN FramesOf(curr_func[k])
                           /\ FrameAt(k).framed <=> k <= Len(fp)
      /\ \A k \in 1 .. Len(fp) : Holds(FrameAt(k).blocks, fp[k], Ceiling(k), allocations)
      /\ \A j \in 1 .. Len(allocations) : allocations[j].size > 0
      /\ Boundary(allocations, Len(data_stack), Words)

VariablesInv ==
  /\ MemoryInv
  /\ freeing # 0 => status = "running"
  /\ status = "running" => BlocksPlaced

\* What is assumed of the programs.
ProgramsTidy == \A p \in Programs : Scoped(p) /\ Tidy(p)

LEMMA FramesOfFunction ==
  ASSUME ProgramsTidy, ir \in Programs, NEW f \in Defined(ir)
  PROVE  TidyBy(ir.functions[f].code, FramesOf(f))
<1>1. \E frames : TidyBy(ir.functions[f].code, frames)
  BY DEF ProgramsTidy, Tidy
<1> QED BY <1>1, Zenon DEF FramesOf

LEMMA VariablesStart == ASSUME ProgramsTidy PROVE Init => VariablesInv
<1> SUFFICES ASSUME Init PROVE VariablesInv
  OBVIOUS
<1>1. MemoryInv
  BY MemoryStarts DEF ProgramsTidy, ProgramsScoped
<1>2. ir \in Programs /\ Entry \in Defined(ir)
  BY DEF Init, ProgramsTidy, Tidy, WellFormed
<1>3. 0 \in DOMAIN FramesOf(Entry) /\ FramesOf(Entry)[0] = NoFrame
  BY <1>2, FramesOfFunction DEF TidyBy
<1>4. /\ curr_func = <<Entry>> /\ Len(curr_func) = 1 /\ curr_func[1] = Entry /\ ip = 0
      /\ fp = <<>> /\ Len(fp) = 0 /\ data_stack = <<>> /\ allocations = <<>> /\ freeing = 0
      /\ Len(allocations) = 0 /\ Len(data_stack) = 0
  BY DEF Init
<1>5. CallAt(1) = 0 /\ FrameAt(1) = NoFrame
  BY <1>3, <1>4 DEF CallAt, FrameAt
<1>6. BlocksPlaced
  BY <1>3, <1>4, <1>5 DEF BlocksPlaced, NoFrame, Boundary, Words
<1> QED BY <1>1, <1>4, <1>6 DEF VariablesInv

--------------------------------------------------------------------------------
(* The opcode that runs.                                                        *)

\* The frame of the last call, and what its code says of the opcode.
LEMMA FrameFetched ==
  ASSUME ProgramsTidy, VariablesInv, Running,
         NEW n, n = Len(curr_func), NEW frame, frame = FrameAt(n), NEW m, m = Len(data_stack)
  PROVE  /\ ProgramsScoped /\ MemoryInv /\ BlocksPlaced /\ freeing = 0 /\ status = "running"
         /\ n \in Nat /\ n >= 1 /\ Peek(curr_func) = curr_func[n] /\ ip \in Nat
         /\ m \in Nat /\ Words = m /\ Tiles(allocations, m) /\ allocations \in Seq(Blocks)
         /\ fp \in Seq(Nat) /\ Len(fp) \in {n - 1, n}
         /\ Op \in Opcodes /\ FrameAllows(Op, frame) /\ (frame.framed <=> Len(fp) = n)
         /\ \A j \in Follows(Code, ip) :
              /\ j \in DOMAIN FramesOf(curr_func[n])
              /\ FramesOf(curr_func[n])[j] = FrameAfter(Op, frame)
         /\ \A k \in 1 .. Len(fp) :
              /\ fp[k] \in Nat /\ fp[k] <= m
              /\ Ceiling(k) = IF k = Len(fp) THEN m ELSE fp[k + 1]
              /\ Holds(FrameAt(k).blocks, fp[k], Ceiling(k), allocations)
         /\ \A j \in 1 .. Len(allocations) :
              /\ allocations[j] \in Blocks
              /\ allocations[j].start \in Nat /\ allocations[j].size \in Nat
              /\ allocations[j].size > 0
              /\ allocations[j].start + allocations[j].size <= m
<1> DEFINE f == curr_func[n]
<1>1. /\ ProgramsScoped /\ MemoryInv /\ BlocksPlaced /\ freeing = 0 /\ status = "running"
      /\ MemoryShape
  BY DEF VariablesInv, Running, ProgramsTidy, ProgramsScoped, MemoryInv
<1>2. /\ n \in Nat /\ n >= 1 /\ Peek(curr_func) = f /\ ip \in Nat /\ f \in Defined(ir)
      /\ Op \in Opcodes /\ Code = ir.functions[f].code
  BY <1>1, Fetched
<1>3. /\ m \in Nat /\ Words = m /\ Tiles(allocations, m) /\ allocations \in Seq(Blocks)
      /\ fp \in Seq(Nat) /\ Len(fp) \in {n - 1, n} /\ Len(fp) \in Nat
      /\ \A k \in 1 .. Len(fp) : fp[k] \in Nat /\ fp[k] <= m
  BY <1>1, FramesBefore
<1>4. TidyBy(ir.functions[f].code, FramesOf(f))
  BY <1>1, <1>2, FramesOfFunction DEF MemoryShape
<1>5. CallAt(n) = ip /\ ip \in DOMAIN FramesOf(f) /\ frame = FramesOf(f)[ip]
      /\ (frame.framed <=> n <= Len(fp))
  BY <1>1, <1>2 DEF BlocksPlaced, FrameAt, CallAt
<1>6. /\ FrameAllows(Op, frame)
      /\ \A j \in Follows(Code, ip) :
           j \in DOMAIN FramesOf(f) /\ FramesOf(f)[j] = FrameAfter(Op, frame)
  <2>1. Op = Code[ip + 1] /\ ip < Len(Code)
    BY DEF Op, Running
  <2> HIDE DEF f
  <2> QED BY <2>1, <1>2, <1>4, <1>5 DEF TidyBy
<1>7. frame.framed <=> Len(fp) = n
  BY <1>2, <1>3, <1>5
<1>8. \A k \in 1 .. Len(fp) :
        /\ Ceiling(k) = IF k = Len(fp) THEN m ELSE fp[k + 1]
        /\ Holds(FrameAt(k).blocks, fp[k], Ceiling(k), allocations)
  BY <1>1, <1>3 DEF BlocksPlaced, Ceiling
<1>9. \A j \in 1 .. Len(allocations) :
        /\ allocations[j] \in Blocks
        /\ allocations[j].start \in Nat /\ allocations[j].size \in Nat
        /\ allocations[j].size > 0
        /\ allocations[j].start + allocations[j].size <= m
  <2>1. \A j \in 1 .. Len(allocations) : allocations[j] \in Blocks /\ allocations[j].size > 0
    BY <1>1, <1>3, ElementOfSeq DEF BlocksPlaced
  <2>2. Solid(allocations)
    <3>1. allocations # <<>> => SizeOfAll(allocations) = m
      BY <1>3 DEF SizeOfAll, Tiles
    <3>2. allocations = <<>> => SizeOfAll(allocations) = m
      BY <1>3 DEF SizeOfAll, Tiles
    <3> QED BY <2>1, <3>1, <3>2, <1>3 DEF Solid
  <2>3. allocations # <<>> => SizeOfAll(allocations) = m
    BY <1>3 DEF SizeOfAll, Tiles
  <2>4. \A j \in 1 .. Len(allocations) : allocations # <<>>
    OBVIOUS
  <2> QED BY <2>1, <2>2, <2>3, <2>4, SolidBlocks
<1> QED BY <1>1, <1>2, <1>3, <1>5, <1>6, <1>7, <1>8, <1>9

\* A step inside of a call, which leaves in its frame what its code says.
LEMMA VariablesStep ==
  ASSUME ProgramsTidy, VariablesInv, Running, MemoryInv',
         NEW n, n = Len(curr_func), NEW next, next = FrameAfter(Op, FrameAt(n)),
         UNCHANGED <<ir, ip_stack, curr_func>>,
         status' = "running" => ip' \in Follows(Code, ip),
         freeing' # 0 => status' = "running",
         status' = "running" =>
           /\ next.framed <=> n <= Len(fp')
           /\ \A k \in 1 .. Len(fp') :
                Holds(IF k = n THEN next.blocks ELSE FrameAt(k).blocks,
                      fp'[k], Ceiling(k)', allocations')
           /\ \A j \in 1 .. Len(allocations') : allocations'[j].size > 0
           /\ Boundary(allocations', Len(data_stack'), Words')
  PROVE  VariablesInv'
<1> SUFFICES ASSUME status' = "running" PROVE BlocksPlaced'
  BY DEF VariablesInv
<1>1. /\ n \in Nat /\ n >= 1 /\ BlocksPlaced /\ Len(fp) \in {n - 1, n} /\ Len(fp) \in Nat
      /\ ip' \in DOMAIN FramesOf(curr_func[n]) /\ FramesOf(curr_func[n])[ip'] = next
  <2> DEFINE frame == FrameAt(n)
             m == Len(data_stack)
  <2> HIDE DEF frame, m
  <2>1. frame = FrameAt(n) /\ m = Len(data_stack)
    BY DEF frame, m
  <2>2. /\ n \in Nat /\ n >= 1 /\ BlocksPlaced /\ Len(fp) \in {n - 1, n} /\ fp \in Seq(Nat)
        /\ \A j \in Follows(Code, ip) :
             /\ j \in DOMAIN FramesOf(curr_func[n])
             /\ FramesOf(curr_func[n])[j] = FrameAfter(Op, frame)
    BY <2>1, FrameFetched
  <2> QED BY <2>1, <2>2
<1>2. \A f : FramesOf(f)' = FramesOf(f)
  BY DEF FramesOf
<1>3. CallAt(n)' = ip' /\ FrameAt(n)' = next
  BY <1>1, <1>2 DEF CallAt, FrameAt
<1>4. \A k \in 1 .. n - 1 : CallAt(k)' = CallAt(k) /\ FrameAt(k)' = FrameAt(k)
  BY <1>1, <1>2 DEF CallAt, FrameAt
<1>5. Len(fp') \in {n - 1, n} /\ Len(fp') \in Nat
  BY DEF MemoryInv, MemoryShape, FramesNest
<1>6. ASSUME NEW k \in 1 .. n
      PROVE  /\ CallAt(k)' \in DOMAIN FramesOf(curr_func[k])'
             /\ FrameAt(k)'.framed <=> k <= Len(fp')
  <2>1. CASE k = n
    BY <2>1, <1>1, <1>2, <1>3
  <2>2. CASE k # n
    <3>1. k \in 1 .. n - 1 /\ k <= Len(fp') /\ k <= Len(fp)
      BY <2>2, <1>1, <1>5
    <3>2. CallAt(k) \in DOMAIN FramesOf(curr_func[k]) /\ FrameAt(k).framed
      BY <3>1, <1>1 DEF BlocksPlaced
    <3> QED BY <3>1, <3>2, <1>2, <1>4
  <2> QED BY <2>1, <2>2
<1>7. ASSUME NEW k \in 1 .. Len(fp')
      PROVE  Holds(FrameAt(k)'.blocks, fp'[k], Ceiling(k)', allocations')
  <2>1. CASE k = n
    BY <2>1, <1>3
  <2>2. CASE k # n
    <3>1. k \in 1 .. n - 1
      BY <2>2, <1>1, <1>5
    <3> QED BY <2>2, <3>1, <1>4
  <2> QED BY <2>1, <2>2
<1> QED BY <1>6, <1>7 DEF BlocksPlaced

LEMMA VariablesPlain ==
  ASSUME ProgramsTidy, VariablesInv, MemoryInv',
         \/ Nop \/ Binary \/ Unary \/ PushConstant \/ PushVariable \/ Discard \/ Clone
         \/ SetupGlobal \/ Load \/ Store \/ Jump \/ JumpIf \/ CallExternal \/ Invalid
  PROVE  VariablesInv'
<1> SUFFICES ASSUME NEW n, n = Len(curr_func), NEW m, m = Len(data_stack),
                    NEW frame, frame = FrameAt(n)
             PROVE  VariablesInv'
  OBVIOUS
<1>1. /\ Execute /\ ~Call /\ ~Ret
      /\ Op.op \notin {"STACK_FRAME_PUSH", "STACK_FRAME_POP", "ALLOC", "FREE"}
  BY DEF Execute, Call, Ret, CallExternal, Fetch, Nop, Binary, Unary, PushConstant,
         PushVariable, Discard, Clone, SetupGlobal, Load, Store, Jump, JumpIf, Invalid,
         BinaryOps, UnaryOps
<1>2. UNCHANGED <<ir, fp, allocations, freeing, ip_stack, curr_func>>
  BY DEF Nop, Binary, Unary, PushConstant, PushVariable, Discard, Clone, SetupGlobal, Load,
         Store, Jump, JumpIf, CallExternal, Invalid, OperandsOnly, frameVars, callVars
<1>3. Running
  BY <1>1, GoesOn
<1>4. /\ n \in Nat /\ n >= 1 /\ ip \in Nat /\ freeing = 0 /\ Len(fp) \in {n - 1, n} /\ Len(fp) \in Nat
      /\ frame.framed <=> Len(fp) = n
      /\ \A k \in 1 .. Len(fp) : Holds(FrameAt(k).blocks, fp[k], Ceiling(k), allocations)
      /\ \A j \in 1 .. Len(allocations) : allocations[j].size > 0
  <2>1. fp \in Seq(Nat)
    BY <1>3, FrameFetched
  <2> QED BY <2>1, <1>3, FrameFetched
<1>5. FrameAfter(Op, frame) = frame
  BY <1>1 DEF FrameAfter
<1>6. status' = "running" => ip' \in Follows(Code, ip)
  BY <1>1, <1>4, GoesOn
<1>7. Len(data_stack') = m
  <2>1. ProgramsScoped /\ MemoryInv
    BY DEF ProgramsTidy, ProgramsScoped, VariablesInv
  <2>2. CASE Store
    <3>1. PICK S : data_stack \in Seq(S)
      BY <2>1 DEF MemoryInv, MemoryShape, IsSequence
    <3>2. data_stack' = data_stack \/ \E i, v : data_stack' = [data_stack EXCEPT ![i] = v]
      BY <2>2 DEF Store
    <3>3. PICK T : data_stack' \in Seq(T)
      BY DEF MemoryInv, MemoryShape, IsSequence
    <3>4. DOMAIN data_stack' = DOMAIN data_stack
      BY <3>2
    <3>5. DOMAIN data_stack = 1 .. Len(data_stack) /\ DOMAIN data_stack' = 1 .. Len(data_stack')
          /\ Len(data_stack) \in Nat /\ Len(data_stack') \in Nat
      BY <3>1, <3>3, LenProperties
    <3> QED BY <3>4, <3>5
  <2>3. CASE ~Store
    BY <2>3 DEF Nop, Binary, Unary, PushConstant, PushVariable, Discard, Clone, SetupGlobal,
                Load, Jump, JumpIf, CallExternal, Invalid, OperandsOnly, frameVars
  <2> QED BY <2>2, <2>3
<1>8. Words' = Words /\ \A k : Ceiling(k)' = Ceiling(k)
  BY <1>2, <1>7 DEF Words, Ceiling
<1>9. Words = m
  BY <1>3, FrameFetched
<1>10. \A k \in 1 .. Len(fp') :
         Holds(IF k = n THEN frame.blocks ELSE FrameAt(k).blocks,
               fp'[k], Ceiling(k)', allocations')
  BY <1>2, <1>4, <1>8
<1>11. Boundary(allocations', Len(data_stack'), Words')
  BY <1>7, <1>8, <1>9 DEF Boundary
<1>12. frame.framed <=> n <= Len(fp')
  BY <1>2, <1>4
<1>13. \A j \in 1 .. Len(allocations') : allocations'[j].size > 0
  BY <1>2, <1>4
<1>14. UNCHANGED <<ir, ip_stack, curr_func>> /\ freeing' = 0
  BY <1>2, <1>4
<1> QED BY <1>3, <1>5, <1>6, <1>10, <1>11, <1>12, <1>13, <1>14, VariablesStep

LEMMA VariablesAlloc ==
  ASSUME ProgramsTidy, VariablesInv, MemoryInv', Alloc PROVE VariablesInv'
<1> SUFFICES ASSUME NEW n, n = Len(curr_func), NEW m, m = Len(data_stack),
                    NEW frame, frame = FrameAt(n), NEW size, size = Op.arg,
                    NEW base, base = fp[n]
             PROVE  VariablesInv'
  OBVIOUS
<1> DEFINE blocks == frame.blocks
           block == [start |-> SizeOfAll(blocks), size |-> size, name |-> Op.name]
           new == [start |-> m, size |-> size, name |-> Op.name]
           more == Push(blocks, block)
<1>1. Running /\ Op.op = "ALLOC"
  BY DEF Alloc, Fetch, Running
<1>2. /\ UNCHANGED <<ir, fp, freeing, ip_stack, curr_func>>
      /\ allocations' = Push(allocations, new)
      /\ data_stack' = data_stack \o [i \in 1 .. size |-> 0]
      /\ ip' = ip + 1
  BY DEF Alloc, Advance, callVars
<1>3. /\ n \in Nat /\ n >= 1 /\ freeing = 0 /\ m \in Nat /\ fp \in Seq(Nat) /\ allocations \in Seq(Blocks)
      /\ Op.name \in STRING /\ size \in Nat \ {0} /\ Len(fp) = n /\ frame.framed
      /\ FrameAfter(Op, frame) = Frame(more)
  <2>1. FrameAllows(Op, frame) /\ (frame.framed <=> Len(fp) = n) /\ Op \in Opcodes
    BY <1>1, FrameFetched
  <2>2. frame.framed /\ size \in Nat \ {0}
    BY <2>1, <1>1 DEF FrameAllows
  <2>3. FrameAfter(Op, frame) = Frame(more)
    BY <1>1 DEF FrameAfter, Push
  <2>4. Op.name \in STRING
    BY <2>1 DEF Opcodes
  <2> QED BY <2>1, <2>2, <2>3, <2>4, <1>1, FrameFetched
<1>4. /\ n \in 1 .. Len(fp) /\ base \in Nat /\ Holds(blocks, base, m, allocations)
  <2>1. n \in 1 .. Len(fp)
    BY <1>3
  <2>2. fp[n] \in Nat /\ Ceiling(n) = m /\ Holds(FrameAt(n).blocks, fp[n], Ceiling(n), allocations)
    BY <2>1, <1>1, <1>3, FrameFetched
  <2> QED BY <2>1, <2>2
<1> HIDE DEF blocks
<1>5. /\ Solid(blocks) /\ m = base + SizeOfAll(blocks)
      /\ blocks \in Seq(Blocks) /\ Len(blocks) \in Nat /\ SizeOfAll(blocks) \in Nat
      /\ \A i \in 1 .. Len(blocks) : blocks[i] \in Blocks
  BY <1>4, SolidBlocks DEF Holds, Solid
<1>6. Solid(more) /\ SizeOfAll(more) = SizeOfAll(blocks) + size
      /\ Len(more) = Len(blocks) + 1 /\ more[Len(blocks) + 1] = block
      /\ \A i \in 1 .. Len(blocks) : more[i] = blocks[i]
  <2>1. block \in Blocks
    BY <1>3, <1>5 DEF Blocks
  <2>2. more \in Seq(Blocks) /\ Tiles(more, SizeOfAll(blocks) + size)
    BY <1>3, <1>5, TilesPushed DEF Solid
  <2> HIDE DEF block
  <2>3. /\ Len(more) = Len(blocks) + 1 /\ more[Len(blocks) + 1] = block /\ more # <<>>
        /\ \A i \in 1 .. Len(blocks) : more[i] = blocks[i]
    BY <2>1, <1>5, PushedStack
  <2> HIDE DEF more
  <2>4. SizeOfAll(more) = SizeOfAll(blocks) + size
    BY <2>3, <1>5 DEF SizeOfAll, block
  <2>5. \A i \in 1 .. Len(more) : more[i].size > 0
    <3> TAKE i \in 1 .. Len(more)
    <3>1. CASE i = Len(blocks) + 1
      BY <3>1, <2>3, <1>3 DEF block
    <3>2. CASE i \in 1 .. Len(blocks)
      BY <3>2, <2>3, <1>5 DEF Solid
    <3> QED BY <3>1, <3>2, <2>3, <1>5
  <2> QED BY <2>2, <2>3, <2>4, <2>5 DEF Solid
<1> HIDE DEF more
<1>7. /\ Len(allocations) \in Nat /\ Len(allocations') = Len(allocations) + 1
      /\ allocations'[Len(allocations) + 1] = new
      /\ \A j \in 1 .. Len(allocations) : allocations'[j] = allocations[j]
  <2>1. new \in Blocks
    BY <1>3 DEF Blocks
  <2>2. allocations' = Push(allocations, new)
    BY <1>2
  <2> HIDE DEF new
  <2> QED BY <2>1, <2>2, <1>3 DEF Push
<1>8. Len(data_stack') = m + size
  <2>1. IsSequence(data_stack)
    BY DEF VariablesInv, MemoryInv, MemoryShape
  <2> QED BY <2>1, <1>2, <1>3, LongerStack
<1>9. Words' = m + size /\ \A k : Ceiling(k)' = IF k = n THEN m + size ELSE fp[k + 1]
  <2>1. Words' = m + size
    BY <1>2, <1>3, <1>8 DEF Words
  <2> QED BY <2>1, <1>2, <1>3 DEF Ceiling
<1>10. /\ new = Moved(block, base) /\ new.start = m /\ new.size = size
  BY <1>5 DEF Moved
<1> HIDE DEF new, block
<1>11. \A j \in 1 .. Len(allocations) : allocations[j].start \in Nat /\ allocations[j].start < m
  <2> TAKE j \in 1 .. Len(allocations)
  <2>1. /\ allocations[j].start \in Nat /\ allocations[j].size \in Nat /\ allocations[j].size > 0
        /\ allocations[j].start + allocations[j].size <= m
    BY <1>1, FrameFetched
  <2>2. m \in Nat
    BY <1>3
  <2> QED BY <2>1, <2>2
<1>12. Holds(more, base, m + size, allocations')
  <2>1. m + size = base + SizeOfAll(more)
    <3>1. /\ m = base + SizeOfAll(blocks) /\ SizeOfAll(more) = SizeOfAll(blocks) + size
          /\ base \in Nat /\ SizeOfAll(blocks) \in Nat
      BY <1>4, <1>5, <1>6
    <3>2. size \in Nat
      BY <1>3
    <3> QED BY <3>1, <3>2
  <2>2. ASSUME NEW i \in 1 .. Len(more)
        PROVE  \E j \in 1 .. Len(allocations') : allocations'[j] = Moved(more[i], base)
    <3>1. CASE i = Len(blocks) + 1
      BY <3>1, <1>6, <1>7, <1>10
    <3>2. CASE i \in 1 .. Len(blocks)
      <4>1. PICK j \in 1 .. Len(allocations) : allocations[j] = Moved(blocks[i], base)
        BY <3>2, <1>4 DEF Holds
      <4>2. j \in 1 .. Len(allocations') /\ allocations'[j] = Moved(more[i], base)
        BY <3>2, <4>1, <1>6, <1>7
      <4> QED BY <4>2
    <3> QED BY <3>1, <3>2, <1>5, <1>6
  <2>3. ASSUME NEW j \in 1 .. Len(allocations'), base <= allocations'[j].start
        PROVE  \E i \in 1 .. Len(more) : allocations'[j] = Moved(more[i], base)
    <3>1. CASE j = Len(allocations) + 1
      <4>1. Len(blocks) + 1 \in 1 .. Len(more)
        BY <1>5, <1>6
      <4> QED BY <3>1, <4>1, <1>6, <1>7, <1>10
    <3>2. CASE j \in 1 .. Len(allocations)
      <4>1. base <= allocations[j].start /\ allocations[j].start < m
        BY <3>2, <2>3, <1>7, <1>11
      <4>2. PICK i \in 1 .. Len(blocks) : allocations[j] = Moved(blocks[i], base)
        BY <3>2, <4>1, <1>4 DEF Holds
      <4>3. i \in 1 .. Len(more) /\ allocations'[j] = Moved(more[i], base)
        BY <3>2, <4>2, <1>5, <1>6, <1>7
      <4> QED BY <4>3
    <3> QED BY <3>1, <3>2, <1>7
  <2> QED BY <2>1, <2>2, <2>3, <1>6 DEF Holds
<1>13. ASSUME NEW k \in 1 .. n - 1
       PROVE  Holds(FrameAt(k).blocks, fp[k], fp[k + 1], allocations')
  <2>1. k \in 1 .. Len(fp) /\ k # Len(fp) /\ k + 1 \in 1 .. Len(fp)
    BY <1>3
  <2>2. fp[k] \in Nat /\ fp[k + 1] <= m /\ fp[k + 1] \in Nat
        /\ Holds(FrameAt(k).blocks, fp[k], fp[k + 1], allocations)
    BY <2>1, <1>1, FrameFetched
  <2>3. \A j \in 1 .. Len(allocations) :
          j \in 1 .. Len(allocations') /\ allocations'[j] = allocations[j]
    BY <1>7
  <2>4. \A j \in 1 .. Len(allocations') : allocations'[j].start < fp[k + 1] => j \in 1 .. Len(allocations)
    <3> TAKE j \in 1 .. Len(allocations')
    <3>1. CASE j = Len(allocations) + 1
      BY <3>1, <2>2, <1>3, <1>7, <1>10
    <3>2. CASE j \in 1 .. Len(allocations)
      BY <3>2
    <3> QED BY <3>1, <3>2, <1>7
  <2> DEFINE lower == FrameAt(k).blocks
             floor == fp[k]
             top == fp[k + 1]
             b == allocations'
  <2>5. Holds(lower, floor, top, allocations) /\ floor \in Nat
    BY <2>2
  <2>6. /\ \A j \in 1 .. Len(allocations) : allocations[j].start < top => \E i \in 1 .. Len(b) : b[i] = allocations[j]
        /\ \A i \in 1 .. Len(b) : b[i].start < top => \E j \in 1 .. Len(allocations) : b[i] = allocations[j]
    BY <2>3, <2>4
  <2> HIDE DEF lower, floor, top, b
  <2>7. Holds(lower, floor, top, b)
    BY <2>5, <2>6, HoldsKeeps
  <2> QED BY <2>7 DEF lower, floor, top, b
<1> DEFINE next == Frame(more)
<1>14. next = FrameAfter(Op, frame) /\ next.framed /\ next.blocks = more
  BY <1>3 DEF Frame
<1> HIDE DEF next
<1>15. \A k \in 1 .. Len(fp') :
         Holds(IF k = n THEN next.blocks ELSE FrameAt(k).blocks, fp'[k], Ceiling(k)', allocations')
  <2> TAKE k \in 1 .. Len(fp')
  <2>1. CASE k = n
    BY <2>1, <1>2, <1>9, <1>12, <1>14
  <2>2. CASE k # n
    <3>1. k \in 1 .. n - 1
      BY <2>2, <1>2, <1>3
    <3> QED BY <3>1, <2>2, <1>2, <1>9, <1>13
  <2> QED BY <2>1, <2>2
<1>16. \A j \in 1 .. Len(allocations') : allocations'[j].size > 0
  <2> TAKE j \in 1 .. Len(allocations')
  <2>1. CASE j = Len(allocations) + 1
    BY <2>1, <1>3, <1>7, <1>10
  <2>2. CASE j \in 1 .. Len(allocations)
    BY <2>2, <1>1, <1>7, FrameFetched
  <2> QED BY <2>1, <2>2, <1>7
<1>17. Boundary(allocations', Len(data_stack'), Words') /\ (next.framed <=> n <= Len(fp'))
  BY <1>2, <1>3, <1>8, <1>9, <1>14 DEF Boundary
<1>18. UNCHANGED <<ir, ip_stack, curr_func>> /\ freeing' = 0 /\ ip' \in Follows(Code, ip)
  BY <1>1, <1>2, <1>3 DEF Follows, Op
<1> QED BY <1>1, <1>14, <1>15, <1>16, <1>17, <1>18, VariablesStep

LEMMA VariablesFree ==
  ASSUME ProgramsTidy, VariablesInv, MemoryInv', Free PROVE VariablesInv'
<1> SUFFICES ASSUME NEW n, n = Len(curr_func), NEW m, m = Len(data_stack),
                    NEW frame, frame = FrameAt(n), NEW size, size = Op.arg,
                    NEW base, base = fp[n]
             PROVE  VariablesInv'
  OBVIOUS
<1> DEFINE blocks == frame.blocks
           left == Kept(blocks, size)
<1>1. Running /\ Op.op = "FREE"
  BY DEF Free, Fetch, Running
<1>2. /\ UNCHANGED <<ir, fp, data_stack, allocations, ip_stack, curr_func, status>>
      /\ freeing' = size /\ ip' = ip + 1
  BY DEF Free, Advance, callVars
<1>3. /\ n \in Nat /\ n >= 1 /\ freeing = 0 /\ m \in Nat /\ fp \in Seq(Nat) /\ status = "running"
      /\ size \in Nat /\ Len(fp) = n /\ frame.framed
      /\ FrameAfter(Op, frame) = Frame(left)
      /\ \E k \in 0 .. Len(blocks) :
           SizeOfAll(SubSeq(blocks, 1, k)) = SizeOfAll(blocks) - size
  <2>1. FrameAllows(Op, frame) /\ (frame.framed <=> Len(fp) = n)
    BY <1>1, FrameFetched
  <2>2. /\ frame.framed /\ size \in Nat
        /\ \E k \in 0 .. Len(blocks) :
             SizeOfAll(SubSeq(blocks, 1, k)) = SizeOfAll(blocks) - size
    BY <2>1, <1>1 DEF FrameAllows
  <2>3. FrameAfter(Op, frame) = Frame(left)
    BY <1>1 DEF FrameAfter
  <2> QED BY <2>1, <2>2, <2>3, <1>1, FrameFetched
<1>4. /\ n \in 1 .. Len(fp) /\ base \in Nat /\ Holds(blocks, base, m, allocations)
  <2>1. n \in 1 .. Len(fp)
    BY <1>3
  <2>2. fp[n] \in Nat /\ Ceiling(n) = m /\ Holds(FrameAt(n).blocks, fp[n], Ceiling(n), allocations)
    BY <2>1, <1>1, <1>3, FrameFetched
  <2> QED BY <2>1, <2>2
<1> HIDE DEF blocks
<1>5. PICK k \in 0 .. Len(blocks) :
        left = SubSeq(blocks, 1, k) /\ SizeOfAll(left) = SizeOfAll(blocks) - size
  <2> DEFINE Fits(k) == SizeOfAll(SubSeq(blocks, 1, k)) = SizeOfAll(blocks) - size
             chosen == CHOOSE k \in 0 .. Len(blocks) : Fits(k)
  <2>1. \E k \in 0 .. Len(blocks) : Fits(k)
    BY <1>3
  <2>2. left = SubSeq(blocks, 1, chosen)
    BY DEF Kept
  <2>3. chosen \in 0 .. Len(blocks) /\ Fits(chosen)
    <3> HIDE DEF Fits
    <3> QED BY <2>1, Zenon
  <2> QED BY <2>2, <2>3
<1> HIDE DEF left
<1>6. /\ Solid(blocks) /\ Solid(left) /\ Len(left) = k /\ Len(blocks) \in Nat
      /\ SizeOfAll(blocks) \in Nat /\ SizeOfAll(left) \in Nat
      /\ m = base + SizeOfAll(blocks)
      /\ \A i \in 1 .. Len(blocks) : blocks[i].start \in Nat
      /\ \A i \in 1 .. k : left[i] = blocks[i]
      /\ \A i \in k + 1 .. Len(blocks) : blocks[i].start >= SizeOfAll(left)
      /\ k < Len(blocks) => blocks[k + 1].start = SizeOfAll(left)
      /\ k = Len(blocks) => SizeOfAll(left) = SizeOfAll(blocks)
  <2>1. Solid(blocks) /\ m = base + SizeOfAll(blocks)
    BY <1>4 DEF Holds
  <2>2. /\ Solid(left) /\ Len(left) = k
        /\ \A i \in 1 .. k : left[i] = blocks[i]
        /\ \A i \in k + 1 .. Len(blocks) : blocks[i].start >= SizeOfAll(left)
        /\ k < Len(blocks) => blocks[k + 1].start = SizeOfAll(left)
        /\ k = Len(blocks) => SizeOfAll(left) = SizeOfAll(blocks)
    <3>1. FirstOf(blocks, k, left)
      BY <2>1, <1>5, SolidPrefix
    <3> QED BY <3>1 DEF FirstOf
  <2>3. /\ Len(blocks) \in Nat /\ SizeOfAll(blocks) \in Nat
        /\ \A i \in 1 .. Len(blocks) : blocks[i].start \in Nat
    BY <2>1, SolidBlocks
  <2>4. SizeOfAll(left) \in Nat
    BY <2>2, SolidBlocks
  <2> QED BY <2>1, <2>2, <2>3, <2>4
<1>7. /\ m - size = base + SizeOfAll(left) /\ Words' = m - size
      /\ \A j : Ceiling(j)' = IF j = n THEN m - size ELSE fp[j + 1]
  <2>1. Words' = m - size
    BY <1>2 DEF Words
  <2>2. m - size = base + SizeOfAll(left)
    <3>1. m = base + SizeOfAll(blocks) /\ SizeOfAll(left) = SizeOfAll(blocks) - size
          /\ base \in Nat /\ SizeOfAll(blocks) \in Nat /\ size \in Nat
      BY <1>3, <1>4, <1>5, <1>6
    <3> QED BY <3>1
  <2> QED BY <2>1, <2>2, <1>2, <1>3 DEF Ceiling
<1>8. Holds(left, base, m - size, allocations)
  <2>1. ASSUME NEW i \in 1 .. Len(left)
        PROVE  \E j \in 1 .. Len(allocations) : allocations[j] = Moved(left[i], base)
    <3>1. i \in 1 .. Len(blocks) /\ left[i] = blocks[i]
      BY <1>6
    <3> QED BY <3>1, <1>4 DEF Holds
  <2>2. ASSUME NEW j \in 1 .. Len(allocations),
               base <= allocations[j].start, allocations[j].start < m - size
        PROVE  \E i \in 1 .. Len(left) : allocations[j] = Moved(left[i], base)
    <3>1. allocations[j].start \in Nat
      BY <1>1, FrameFetched
    <3>2. PICK i \in 1 .. Len(blocks) : allocations[j] = Moved(blocks[i], base)
      <4>1. allocations[j].start < m
        <5>1. m \in Nat /\ size \in Nat
          BY <1>3
        <5> QED BY <5>1, <2>2, <3>1
      <4> QED BY <2>2, <4>1, <1>4 DEF Holds
    <3>3. allocations[j].start = base + blocks[i].start
      BY <3>2 DEF Moved
    <3>4. i \in 1 .. k
      <4>1. base + blocks[i].start < base + SizeOfAll(left)
        BY <2>2, <3>3, <1>7
      <4>2. base \in Nat /\ SizeOfAll(left) \in Nat /\ blocks[i].start \in Nat
        BY <1>4, <1>6
      <4>3. ~(blocks[i].start >= SizeOfAll(left))
        BY <4>1, <4>2
      <4>4. i \notin k + 1 .. Len(blocks)
        BY <4>3, <1>6
      <4>5. k \in Nat /\ Len(blocks) \in Nat /\ i \in Nat /\ 1 <= i /\ i <= Len(blocks)
        BY <1>5, <1>6
      <4> QED BY <4>4, <4>5
    <3>5. left[i] = blocks[i] /\ Len(left) = k
      BY <3>4, <1>6
    <3> QED BY <3>2, <3>4, <3>5
  <2> QED BY <2>1, <2>2, <1>6, <1>7 DEF Holds
<1>9. ASSUME NEW j \in 1 .. n - 1
      PROVE  Holds(FrameAt(j).blocks, fp[j], fp[j + 1], allocations)
  <2>1. j \in 1 .. Len(fp) /\ j # Len(fp)
    BY <1>3
  <2> QED BY <2>1, <1>1, FrameFetched
<1> DEFINE next == Frame(left)
<1>10. next = FrameAfter(Op, frame) /\ next.framed /\ next.blocks = left
  BY <1>3 DEF Frame
<1> HIDE DEF next
<1>11. \A j \in 1 .. Len(fp') :
         Holds(IF j = n THEN next.blocks ELSE FrameAt(j).blocks, fp'[j], Ceiling(j)', allocations')
  <2> TAKE j \in 1 .. Len(fp')
  <2>1. CASE j = n
    BY <2>1, <1>2, <1>7, <1>8, <1>10
  <2>2. CASE j # n
    <3>1. j \in 1 .. n - 1
      BY <2>2, <1>2, <1>3
    <3> QED BY <3>1, <2>2, <1>2, <1>7, <1>9
  <2> QED BY <2>1, <2>2
<1>12. Boundary(allocations', Len(data_stack'), Words')
  <2>1. CASE k = Len(blocks)
    BY <2>1, <1>2, <1>6, <1>7 DEF Boundary
  <2>2. CASE k < Len(blocks)
    <3>1. k + 1 \in 1 .. Len(blocks)
      BY <2>2, <1>6
    <3>2. PICK j \in 1 .. Len(allocations) : allocations[j] = Moved(blocks[k + 1], base)
      BY <3>1, <1>4 DEF Holds
    <3>3. allocations[j].start = m - size
      BY <3>2, <2>2, <1>6, <1>7 DEF Moved
    <3> QED BY <3>3, <1>2, <1>7 DEF Boundary
  <2> QED BY <2>1, <2>2, <1>6
<1>13. \A j \in 1 .. Len(allocations') : allocations'[j].size > 0
  BY <1>1, <1>2, FrameFetched
<1>14. next.framed <=> n <= Len(fp')
  BY <1>2, <1>3, <1>10
<1>15. UNCHANGED <<ir, ip_stack, curr_func>> /\ status' = "running" /\ ip' \in Follows(Code, ip)
  BY <1>1, <1>2, <1>3 DEF Follows, Op
<1> QED BY <1>1, <1>10, <1>11, <1>12, <1>13, <1>14, <1>15, VariablesStep

LEMMA VariablesFramePush ==
  ASSUME ProgramsTidy, VariablesInv, MemoryInv', FramePush PROVE VariablesInv'
<1> SUFFICES ASSUME NEW n, n = Len(curr_func), NEW m, m = Len(data_stack),
                    NEW frame, frame = FrameAt(n)
             PROVE  VariablesInv'
  OBVIOUS
<1>1. Running /\ Op.op = "STACK_FRAME_PUSH"
  BY DEF FramePush, Fetch, Running
<1>2. /\ UNCHANGED <<ir, freeing, data_stack, allocations, ip_stack, curr_func>>
      /\ fp' = Push(fp, m) /\ ip' = ip + 1
  BY DEF FramePush, Advance, callVars
<1>3. /\ n \in Nat /\ n >= 1 /\ freeing = 0 /\ m \in Nat /\ fp \in Seq(Nat) /\ Len(fp) = n - 1
      /\ FrameAfter(Op, frame) = Frame(<<>>)
  <2>1. FrameAllows(Op, frame) /\ (frame.framed <=> Len(fp) = n) /\ Len(fp) \in {n - 1, n}
    BY <1>1, FrameFetched
  <2>2. ~frame.framed
    BY <2>1, <1>1 DEF FrameAllows
  <2>3. FrameAfter(Op, frame) = Frame(<<>>)
    BY <1>1 DEF FrameAfter
  <2> QED BY <2>1, <2>2, <2>3, <1>1, FrameFetched
<1>4. Len(fp') = n /\ fp'[n] = m /\ \A k \in 1 .. n - 1 : fp'[k] = fp[k]
  <2>1. /\ Len(fp') = Len(fp) + 1 /\ fp'[Len(fp) + 1] = m
        /\ \A k \in 1 .. Len(fp) : fp'[k] = fp[k]
    BY <1>2, <1>3 DEF Push
  <2> QED BY <2>1, <1>3
<1>5. Words' = m
  BY <1>2, <1>3 DEF Words
<1>6. Holds(<<>>, m, m, allocations)
  <2>1. Solid(<<>>) /\ SizeOfAll(<<>>) = 0 /\ Len(<<>>) = 0
    BY DEF Solid, SizeOfAll, Tiles
  <2>2. \A j \in 1 .. Len(allocations) : ~(m <= allocations[j].start /\ allocations[j].start < m)
    <3>1. \A j \in 1 .. Len(allocations) : allocations[j].start \in Nat
      BY <1>1, FrameFetched
    <3>2. m \in Nat
      BY <1>3
    <3> QED BY <3>1, <3>2
  <2> QED BY <2>1, <2>2, <1>3 DEF Holds
<1>7. ASSUME NEW k \in 1 .. n - 1
      PROVE  Holds(FrameAt(k).blocks, fp'[k], Ceiling(k)', allocations)
  <2>1. k \in 1 .. Len(fp)
    BY <1>3
  <2>2. /\ Ceiling(k) = IF k = Len(fp) THEN m ELSE fp[k + 1]
        /\ Holds(FrameAt(k).blocks, fp[k], Ceiling(k), allocations)
    BY <2>1, <1>1, FrameFetched
  <2>3. Ceiling(k)' = fp'[k + 1] /\ k + 1 \in 1 .. n
    BY <1>3, <1>4 DEF Ceiling
  <2>4. Ceiling(k)' = Ceiling(k)
    <3>1. CASE k = n - 1
      BY <3>1, <2>2, <2>3, <1>3, <1>4
    <3>2. CASE k # n - 1
      BY <3>2, <2>2, <2>3, <1>3, <1>4
    <3> QED BY <3>1, <3>2
  <2> QED BY <2>2, <2>4, <1>4
<1> DEFINE next == Frame(<<>>)
<1>8. next = FrameAfter(Op, frame) /\ next.framed /\ next.blocks = <<>>
  BY <1>3 DEF Frame
<1> HIDE DEF next
<1>9. \A k \in 1 .. Len(fp') :
        Holds(IF k = n THEN next.blocks ELSE FrameAt(k).blocks, fp'[k], Ceiling(k)', allocations')
  <2> TAKE k \in 1 .. Len(fp')
  <2>1. CASE k = n
    <3>1. Ceiling(k)' = m
      BY <2>1, <1>4, <1>5 DEF Ceiling
    <3> QED BY <3>1, <2>1, <1>2, <1>4, <1>6, <1>8
  <2>2. CASE k # n
    <3>1. k \in 1 .. n - 1
      BY <2>2, <1>3, <1>4
    <3> QED BY <3>1, <2>2, <1>2, <1>7
  <2> QED BY <2>1, <2>2
<1>10. Boundary(allocations', Len(data_stack'), Words')
  BY <1>2, <1>5 DEF Boundary
<1>11. \A j \in 1 .. Len(allocations') : allocations'[j].size > 0
  BY <1>1, <1>2, FrameFetched
<1>12. next.framed <=> n <= Len(fp')
  BY <1>3, <1>4, <1>8
<1>13. UNCHANGED <<ir, ip_stack, curr_func>> /\ freeing' = 0 /\ ip' \in Follows(Code, ip)
  BY <1>1, <1>2, <1>3 DEF Follows, Op
<1> QED BY <1>1, <1>8, <1>9, <1>10, <1>11, <1>12, <1>13, VariablesStep

LEMMA VariablesFramePop ==
  ASSUME ProgramsTidy, VariablesInv, MemoryInv', FramePop PROVE VariablesInv'
<1> SUFFICES ASSUME NEW n, n = Len(curr_func), NEW m, m = Len(data_stack),
                    NEW frame, frame = FrameAt(n), NEW base, base = fp[n]
             PROVE  VariablesInv'
  OBVIOUS
<1> DEFINE blocks == frame.blocks
<1>1. Running /\ Op.op = "STACK_FRAME_POP"
  BY DEF FramePop, Fetch, Running
<1>2. /\ UNCHANGED <<ir, data_stack, allocations, ip_stack, curr_func, status>>
      /\ fp' = Pop(fp) /\ freeing' = m - Peek(fp) /\ ip' = ip + 1
  BY DEF FramePop, Advance, callVars
<1>3. /\ n \in Nat /\ n >= 1 /\ m \in Nat /\ fp \in Seq(Nat) /\ Len(fp) = n /\ status = "running"
      /\ FrameAfter(Op, frame) = NoFrame
  <2>1. FrameAllows(Op, frame) /\ (frame.framed <=> Len(fp) = n)
    BY <1>1, FrameFetched
  <2>2. frame.framed
    BY <2>1, <1>1 DEF FrameAllows
  <2>3. FrameAfter(Op, frame) = NoFrame
    BY <1>1 DEF FrameAfter
  <2> QED BY <2>1, <2>2, <2>3, <1>1, FrameFetched
<1>4. /\ Len(fp') = n - 1 /\ Peek(fp) = base /\ \A k \in 1 .. n - 1 : fp'[k] = fp[k]
  <2>1. fp # <<>>
    BY <1>3
  <2>2. /\ Len(Pop(fp)) = Len(fp) - 1 /\ Peek(fp) = fp[Len(fp)]
        /\ \A k \in 1 .. Len(fp) - 1 : Pop(fp)[k] = fp[k]
    BY <2>1, <1>3, PoppedStack
  <2> QED BY <2>2, <1>2, <1>3
<1>5. base \in Nat /\ Holds(blocks, base, m, allocations)
  <2>1. n \in 1 .. Len(fp)
    BY <1>3
  <2>2. fp[n] \in Nat /\ Ceiling(n) = m /\ Holds(FrameAt(n).blocks, fp[n], Ceiling(n), allocations)
    BY <2>1, <1>1, <1>3, FrameFetched
  <2> QED BY <2>2
<1> HIDE DEF blocks
<1>6. Words' = base
  BY <1>2, <1>3, <1>4, <1>5 DEF Words
<1>7. ASSUME NEW k \in 1 .. n - 1
      PROVE  Holds(FrameAt(k).blocks, fp'[k], Ceiling(k)', allocations)
  <2>1. k \in 1 .. Len(fp) /\ k # Len(fp)
    BY <1>3
  <2>2. Holds(FrameAt(k).blocks, fp[k], fp[k + 1], allocations)
    BY <2>1, <1>1, FrameFetched
  <2>3. Ceiling(k)' = fp[k + 1]
    <3>1. CASE k = n - 1
      BY <3>1, <1>3, <1>4, <1>6 DEF Ceiling
    <3>2. CASE k # n - 1
      <4>1. k + 1 \in 1 .. n - 1
        BY <3>2, <1>3
      <4> QED BY <3>2, <4>1, <1>4 DEF Ceiling
    <3> QED BY <3>1, <3>2
  <2> QED BY <2>2, <2>3, <1>4
<1>8. Boundary(allocations', Len(data_stack'), Words')
  <2>1. /\ Solid(blocks) /\ m = base + SizeOfAll(blocks)
        /\ blocks = <<>> => SizeOfAll(blocks) = 0
        /\ blocks # <<>> => 1 \in 1 .. Len(blocks) /\ blocks[1].start = 0
    BY <1>5, SolidBlocks DEF Holds
  <2>2. CASE blocks = <<>>
    <3>1. m = base
      BY <2>1, <2>2, <1>5
    <3> QED BY <3>1, <1>2, <1>6 DEF Boundary
  <2>3. CASE blocks # <<>>
    <3>1. PICK j \in 1 .. Len(allocations) : allocations[j] = Moved(blocks[1], base)
      BY <2>1, <2>3, <1>5 DEF Holds
    <3>2. allocations[j].start = base
      BY <3>1, <2>1, <2>3, <1>5 DEF Moved
    <3> QED BY <3>2, <1>2, <1>6 DEF Boundary
  <2> QED BY <2>2, <2>3
<1> DEFINE next == NoFrame
<1>9. next = FrameAfter(Op, frame) /\ ~next.framed
  BY <1>3 DEF NoFrame
<1> HIDE DEF next
<1>10. \A k \in 1 .. Len(fp') :
         Holds(IF k = n THEN next.blocks ELSE FrameAt(k).blocks, fp'[k], Ceiling(k)', allocations')
  <2> TAKE k \in 1 .. Len(fp')
  <2>1. k \in 1 .. n - 1 /\ k # n
    BY <1>3, <1>4
  <2> QED BY <2>1, <1>2, <1>7
<1>11. \A j \in 1 .. Len(allocations') : allocations'[j].size > 0
  BY <1>1, <1>2, FrameFetched
<1>12. next.framed <=> n <= Len(fp')
  BY <1>3, <1>4, <1>9
<1>13. UNCHANGED <<ir, ip_stack, curr_func>> /\ status' = "running" /\ ip' \in Follows(Code, ip)
  BY <1>1, <1>2, <1>3 DEF Follows, Op
<1> QED BY <1>1, <1>8, <1>9, <1>10, <1>11, <1>12, <1>13, VariablesStep

\* Giving a block back: it begins where what is given back begins, or behind that.
LEMMA VariablesFreeBlock ==
  ASSUME ProgramsTidy, VariablesInv, MemoryInv', FreeBlock PROVE VariablesInv'
<1> DEFINE m == Len(data_stack)
           r == freeing
           last == Peek(allocations)
           rest == Pop(allocations)
           left == IF last.size > r THEN 0 ELSE r - last.size
<1>1. /\ status = "running" /\ FramesPlaced /\ MemoryShape /\ BlocksPlaced
      /\ Tiles(allocations, m) /\ freeing # 0
      /\ UNCHANGED <<ir, ip, fp, ip_stack, curr_func, status>>
  BY DEF FreeBlock, VariablesInv, MemoryInv, callVars
<1>2. allocations \in Seq(Blocks) /\ m \in Nat /\ r \in 1 .. m /\ Len(fp) \in Nat
  <2>1. allocations \in Seq(Blocks) /\ fp \in Seq(Nat) /\ IsSequence(data_stack) /\ r \in Nat /\ r <= m
    BY <1>1 DEF MemoryShape
  <2>2. m \in Nat
    BY <2>1 DEF IsSequence
  <2> QED BY <2>1, <2>2, <1>1
<1>3. /\ allocations # <<>> /\ last.start \in 0 .. m /\ last.size \in Nat
      /\ last.start + last.size = m
      /\ rest \in Seq(Blocks) /\ Tiles(rest, last.start)
      /\ \A b \in Nat : Boundary(allocations, m, b) /\ b <= m - r => Boundary(rest, last.start, b)
  <2> HIDE DEF m, r
  <2> QED BY <1>1, <1>2, TilesPopped
<1>4. /\ allocations' = rest /\ freeing' = left
      /\ data_stack' = SubSeq(data_stack, 1, last.start)
  BY <1>2, <1>3 DEF FreeBlock
<1>5. /\ Len(allocations) \in Nat /\ Len(allocations) \in 1 .. Len(allocations)
      /\ Len(rest) = Len(allocations) - 1 /\ last = allocations[Len(allocations)]
      /\ \A i \in 1 .. Len(allocations) - 1 : rest[i] = allocations[i]
      /\ \A i \in 1 .. Len(allocations) :
           allocations[i].start \in Nat /\ allocations[i].size \in Nat
  <2>1. \A i \in 1 .. Len(allocations) : allocations[i] \in Blocks
    BY <1>2, ElementOfSeq
  <2>2. /\ Len(allocations) \in Nat /\ Len(allocations) > 0
        /\ Len(rest) = Len(allocations) - 1 /\ last = allocations[Len(allocations)]
        /\ \A i \in 1 .. Len(allocations) - 1 : rest[i] = allocations[i]
    BY <1>2, <1>3, PoppedStack
  <2>3. Len(allocations) \in 1 .. Len(allocations)
    BY <2>2
  <2>4. \A i \in 1 .. Len(allocations) :
          allocations[i].start \in Nat /\ allocations[i].size \in Nat
    BY <2>1 DEF Blocks
  <2> QED BY <2>2, <2>3, <2>4
<1>6. Len(data_stack') = last.start
  <2>1. PICK S : data_stack \in Seq(S)
    BY <1>1 DEF MemoryShape, IsSequence
  <2> DEFINE k == last.start
  <2>2. k \in Nat /\ \A i \in 1 .. k : data_stack[i] \in S
    BY <2>1, <1>2, <1>3
  <2> HIDE DEF k
  <2>3. Len(SubSeq(data_stack, 1, k)) = IF 1 <= k THEN k - 1 + 1 ELSE 0
    BY <2>2, SubSeqProperties
  <2>4. Len(SubSeq(data_stack, 1, k)) = k
    BY <2>2, <2>3
  <2> QED BY <2>4, <1>4 DEF k
<1> HIDE DEF rest, last
<1>7. Boundary(allocations, m, m - r) /\ Words = m - r
  BY <1>1 DEF BlocksPlaced, Words
<1>8. m - r \in Nat /\ m - r <= last.start
  <2>1. m - r \in Nat /\ m - r # m
    BY <1>2
  <2>2. PICK j \in 1 .. Len(allocations) : allocations[j].start = m - r
    BY <2>1, <1>7 DEF Boundary
  <2>3. CASE j = Len(allocations)
    BY <2>1, <2>2, <2>3, <1>5
  <2>4. CASE j # Len(allocations)
    <3>1. allocations[j].start + allocations[j].size <= last.start
      BY <2>4, <1>1, <1>5 DEF Tiles
    <3> QED BY <3>1, <2>1, <2>2, <1>3, <1>5
  <2> QED BY <2>3, <2>4
<1>9. Words' = m - r /\ Words' = Words
  <2>1. last.start - left = m - r
    <3> HIDE DEF m, r
    <3> QED BY <1>2, <1>3, <1>8
  <2> QED BY <2>1, <1>4, <1>6, <1>7 DEF Words
<1> HIDE DEF left
<1>10. \A k \in 1 .. Len(fp) :
         /\ fp[k] \in Nat /\ Ceiling(k)' = Ceiling(k) /\ Ceiling(k) \in Nat
         /\ Ceiling(k) <= m - r
         /\ Holds(FrameAt(k).blocks, fp[k], Ceiling(k), allocations)
  <2> TAKE k \in 1 .. Len(fp)
  <2>1. \A i \in 1 .. Len(fp) : fp[i] \in Nat /\ fp[i] <= m - r
    <3>1. \A i \in 1 .. Len(fp) : fp[i] <= Words
      BY <1>1 DEF FramesPlaced
    <3>2. fp \in Seq(Nat)
      BY <1>1 DEF MemoryShape
    <3> QED BY <3>1, <3>2, <1>7
  <2>2. Ceiling(k)' = Ceiling(k)
    BY <1>1, <1>9 DEF Ceiling
  <2>3. Ceiling(k) \in Nat /\ Ceiling(k) <= m - r
    <3>1. CASE k = Len(fp)
      BY <3>1, <1>7, <1>8 DEF Ceiling
    <3>2. CASE k # Len(fp)
      <4>1. k + 1 \in 1 .. Len(fp)
        BY <3>2, <1>2
      <4> QED BY <3>2, <4>1, <2>1 DEF Ceiling
    <3> QED BY <3>1, <3>2
  <2> QED BY <2>1, <2>2, <2>3, <1>1 DEF BlocksPlaced
<1> HIDE DEF m, r
<1>11. ASSUME NEW k \in 1 .. Len(fp)
       PROVE  Holds(FrameAt(k).blocks, fp[k], Ceiling(k)', rest)
  <2> DEFINE blocks == FrameAt(k).blocks
             base == fp[k]
             top == Ceiling(k)
             a == allocations
  <2>1. Holds(blocks, base, top, a) /\ base \in Nat /\ top \in Nat /\ top <= last.start
    BY <1>2, <1>3, <1>8, <1>10
  <2>2. \A j \in 1 .. Len(a) : a[j].start < top => j # Len(a)
    BY <2>1, <1>3, <1>5
  <2>3. /\ \A j \in 1 .. Len(a) : a[j].start < top => \E i \in 1 .. Len(rest) : rest[i] = a[j]
        /\ \A i \in 1 .. Len(rest) : rest[i].start < top => \E j \in 1 .. Len(a) : rest[i] = a[j]
    <3>1. ASSUME NEW j \in 1 .. Len(a), a[j].start < top
          PROVE  \E i \in 1 .. Len(rest) : rest[i] = a[j]
      <4>1. j # Len(a)
        BY <2>2, <3>1
      <4>2. j \in 1 .. Len(allocations) - 1
        <5>1. Len(allocations) \in Nat
          BY <1>5
        <5> QED BY <4>1, <5>1
      <4>3. j \in 1 .. Len(rest) /\ rest[j] = a[j]
        <5>1. Len(rest) = Len(allocations) - 1
          BY <1>5
        <5>2. \A i \in 1 .. Len(allocations) - 1 : rest[i] = allocations[i]
          BY <1>5
        <5> QED BY <4>2, <5>1, <5>2
      <4> QED BY <4>3
    <3>2. ASSUME NEW i \in 1 .. Len(rest), rest[i].start < top
          PROVE  \E j \in 1 .. Len(a) : rest[i] = a[j]
      <4>1. Len(allocations) \in Nat /\ Len(rest) = Len(allocations) - 1
        BY <1>5
      <4>2. i \in 1 .. Len(a)
        BY <4>1
      <4>3. i \in 1 .. Len(allocations) - 1
        BY <4>1
      <4>4. rest[i] = a[i]
        BY <4>3, <1>5
      <4> QED BY <4>2, <4>4
    <3> QED BY <3>1, <3>2
  <2>4. Ceiling(k)' = top
    BY <1>10
  <2> HIDE DEF blocks, base, top, a
  <2>5. Holds(blocks, base, top, rest)
    BY <2>1, <2>3, HoldsKeeps
  <2> QED BY <2>4, <2>5 DEF blocks, base
<1>12. /\ \A f : FramesOf(f)' = FramesOf(f)
       /\ \A k : CallAt(k)' = CallAt(k) /\ FrameAt(k)' = FrameAt(k)
  <2>1. \A f : FramesOf(f)' = FramesOf(f)
    BY <1>1 DEF FramesOf
  <2> QED BY <2>1, <1>1 DEF CallAt, FrameAt
<1>13. \A j \in 1 .. Len(rest) : rest[j].size > 0
  <2> TAKE j \in 1 .. Len(rest)
  <2>1. Len(allocations) \in Nat /\ Len(rest) = Len(allocations) - 1
    BY <1>5
  <2>2. j \in 1 .. Len(allocations) /\ j \in 1 .. Len(allocations) - 1
    BY <2>1
  <2>3. rest[j] = allocations[j]
    BY <2>2, <1>5
  <2>4. \A i \in 1 .. Len(allocations) : allocations[i].size > 0
    BY <1>1 DEF BlocksPlaced
  <2> QED BY <2>2, <2>3, <2>4
<1>14. Boundary(rest, last.start, m - r)
  BY <1>2, <1>3, <1>7, <1>8
<1>15. BlocksPlaced'
  <2>1. \A k \in 1 .. Len(curr_func) :
          /\ CallAt(k) \in DOMAIN FramesOf(curr_func[k])
          /\ FrameAt(k).framed <=> k <= Len(fp)
    BY <1>1 DEF BlocksPlaced
  <2> QED BY <2>1, <1>1, <1>4, <1>6, <1>9, <1>11, <1>12, <1>13, <1>14 DEF BlocksPlaced
<1> QED BY <1>1, <1>15 DEF VariablesInv

\* A call starts without a frame; the caller goes on behind the opcode, with its own.
LEMMA VariablesCall ==
  ASSUME ProgramsTidy, VariablesInv, MemoryInv', Call PROVE VariablesInv'
<1> SUFFICES ASSUME NEW n, n = Len(curr_func), NEW m, m = Len(data_stack),
                    NEW frame, frame = FrameAt(n), NEW f, f = curr_func[n], NEW g, g = Op.name
             PROVE  VariablesInv'
  OBVIOUS
<1>1. Running /\ Op.op = "CALL" /\ status' = "running"
  BY DEF Call, Fetch, Running
<1>2. /\ UNCHANGED <<ir, fp, data_stack, allocations, freeing>>
      /\ curr_func' = Push(curr_func, g) /\ ip_stack' = Push(ip_stack, ip + 1) /\ ip' = 0
      /\ ~ir.functions[g].external
  BY DEF Call, frameVars
<1>3. /\ BlocksPlaced /\ MemoryInv /\ ProgramsScoped /\ MemoryShape /\ freeing = 0
      /\ n \in Nat /\ n >= 1 /\ ip \in Nat /\ fp \in Seq(Nat) /\ Len(fp) = n
      /\ ip + 1 \in DOMAIN FramesOf(f) /\ FramesOf(f)[ip + 1] = frame /\ frame.framed
  <2>1. FrameAllows(Op, frame) /\ (frame.framed <=> Len(fp) = n) /\ MemoryInv
    BY <1>1, FrameFetched
  <2>2. frame.framed
    BY <2>1, <1>1 DEF FrameAllows
  <2>3. ip + 1 \in Follows(Code, ip) /\ FrameAfter(Op, frame) = frame
    BY <1>1 DEF Follows, Op, FrameAfter
  <2>4. ip + 1 \in DOMAIN FramesOf(f) /\ FramesOf(f)[ip + 1] = frame
    BY <1>1, <2>3, FrameFetched
  <2> QED BY <2>1, <2>2, <2>4, <1>1, FrameFetched DEF MemoryInv
<1>4. g \in Defined(ir) /\ Len(ip_stack) = n - 1
  <2>1. g \in DOMAIN ir.functions
    BY <1>1, <1>3, Fetched
  <2>2. FramesNest
    BY <1>3 DEF MemoryInv
  <2>3. Len(ip_stack) + 1 = n /\ Len(ip_stack) \in Nat
    BY <1>3, <2>2 DEF FramesNest, MemoryShape
  <2> QED BY <2>1, <2>3, <1>2, <1>3 DEF Defined
<1>5. /\ Len(curr_func') = n + 1 /\ curr_func'[n + 1] = g
      /\ \A k \in 1 .. n : curr_func'[k] = curr_func[k]
  <2> DEFINE S == Defined(ir)
  <2>1. curr_func \in Seq(S) /\ g \in S
    BY <1>3, <1>4 DEF MemoryShape
  <2> HIDE DEF S
  <2> QED BY <2>1, <1>2 DEF Push
<1>6. ip_stack'[n] = ip + 1 /\ \A k \in 1 .. n - 1 : ip_stack'[k] = ip_stack[k]
  <2>1. ip_stack \in Seq(Nat) /\ ip + 1 \in Nat
    BY <1>3 DEF MemoryShape
  <2>2. /\ ip_stack'[Len(ip_stack) + 1] = ip + 1
        /\ \A k \in 1 .. Len(ip_stack) : ip_stack'[k] = ip_stack[k]
    BY <2>1, <1>2 DEF Push
  <2> QED BY <2>2, <1>3, <1>4
<1>7. \A h : FramesOf(h)' = FramesOf(h)
  BY <1>2 DEF FramesOf
<1>8. 0 \in DOMAIN FramesOf(g) /\ FramesOf(g)[0] = NoFrame
  BY <1>3, <1>4, FramesOfFunction DEF MemoryShape, TidyBy
<1>9. CallAt(n + 1)' = 0 /\ FrameAt(n + 1)' = NoFrame
  BY <1>2, <1>5, <1>7, <1>8 DEF CallAt, FrameAt
<1>10. CallAt(n)' = ip + 1 /\ FrameAt(n)' = frame
  BY <1>3, <1>5, <1>6, <1>7 DEF CallAt, FrameAt
<1>11. \A k \in 1 .. n - 1 : CallAt(k)' = CallAt(k) /\ FrameAt(k)' = FrameAt(k)
  <2> TAKE k \in 1 .. n - 1
  <2>1. k \in 1 .. n /\ k # n /\ k # n + 1
    BY <1>3
  <2>2. CallAt(k) = ip_stack[k] /\ CallAt(k)' = ip_stack'[k]
    BY <2>1, <1>5 DEF CallAt
  <2> QED BY <2>1, <2>2, <1>5, <1>6, <1>7 DEF FrameAt
<1>12. Words' = Words /\ \A k : Ceiling(k)' = Ceiling(k)
  BY <1>2 DEF Words, Ceiling
<1>13. /\ \A k \in 1 .. n : /\ CallAt(k) \in DOMAIN FramesOf(curr_func[k])
                            /\ FrameAt(k).framed <=> k <= Len(fp)
       /\ \A k \in 1 .. Len(fp) : Holds(FrameAt(k).blocks, fp[k], Ceiling(k), allocations)
       /\ \A j \in 1 .. Len(allocations) : allocations[j].size > 0
       /\ Boundary(allocations, Len(data_stack), Words)
  BY <1>3 DEF BlocksPlaced
<1>14. \A k \in 1 .. n + 1 : /\ CallAt(k)' \in DOMAIN FramesOf(curr_func[k])'
                             /\ FrameAt(k)'.framed <=> k <= Len(fp)
  <2> TAKE k \in 1 .. n + 1
  <2>1. CASE k = n + 1
    <3>1. ~(k <= Len(fp)) /\ ~NoFrame.framed
      BY <2>1, <1>3 DEF NoFrame
    <3> QED BY <3>1, <2>1, <1>5, <1>7, <1>8, <1>9
  <2>2. CASE k = n
    <3>1. n \in 1 .. n /\ curr_func'[n] = f
      BY <1>3, <1>5
    <3>2. FramesOf(curr_func[k])' = FramesOf(f)
      BY <3>1, <2>2, <1>7
    <3> QED BY <3>2, <2>2, <1>3, <1>10
  <2>3. CASE k \in 1 .. n - 1
    <3>1. k \in 1 .. n
      BY <2>3, <1>3
    <3> QED BY <3>1, <2>3, <1>5, <1>7, <1>11, <1>13
  <2> QED BY <2>1, <2>2, <2>3, <1>3
<1>15. \A k \in 1 .. Len(fp) : FrameAt(k)' = FrameAt(k)
  <2> TAKE k \in 1 .. Len(fp)
  <2>1. k = n \/ k \in 1 .. n - 1
    BY <1>3
  <2> QED BY <2>1, <1>10, <1>11
<1>16. BlocksPlaced'
  BY <1>2, <1>5, <1>12, <1>13, <1>14, <1>15 DEF BlocksPlaced
<1> QED BY <1>1, <1>16 DEF VariablesInv

\* A call returns without a frame, and its caller goes on with its own.
LEMMA VariablesRet ==
  ASSUME ProgramsTidy, VariablesInv, MemoryInv', Ret PROVE VariablesInv'
<1> SUFFICES ASSUME NEW n, n = Len(curr_func), NEW m, m = Len(data_stack),
                    NEW frame, frame = FrameAt(n)
             PROVE  VariablesInv'
  OBVIOUS
<1>1. Running /\ Op.op = "RET" /\ UNCHANGED <<ir, fp, data_stack, allocations, freeing>>
  BY DEF Ret, Fetch, Running, frameVars
<1>2. /\ BlocksPlaced /\ MemoryInv /\ MemoryShape /\ freeing = 0
      /\ n \in Nat /\ n >= 1 /\ fp \in Seq(Nat) /\ Len(fp) = n - 1
  <2>1. FrameAllows(Op, frame) /\ (frame.framed <=> Len(fp) = n) /\ MemoryInv
    BY <1>1, FrameFetched
  <2>2. ~frame.framed
    BY <2>1, <1>1 DEF FrameAllows
  <2>3. Len(fp) \in {n - 1, n}
    BY <1>1, FrameFetched
  <2> QED BY <2>1, <2>2, <2>3, <1>1, FrameFetched DEF MemoryInv
<1>3. CASE ip_stack = <<>>
  BY <1>1, <1>2, <1>3 DEF Ret, VariablesInv
<1>4. CASE ip_stack # <<>>
  <2>1. /\ ip' = Peek(ip_stack) /\ ip_stack' = Pop(ip_stack) /\ curr_func' = Pop(curr_func)
        /\ Len(ip_stack) = n - 1 /\ ip_stack \in Seq(Nat) /\ FramesNest
    <3>1. FramesNest /\ ip_stack \in Seq(Nat)
      BY <1>2 DEF MemoryInv, MemoryShape
    <3>2. Len(ip_stack) + 1 = n /\ Len(ip_stack) \in Nat
      BY <3>1 DEF FramesNest
    <3>3. Len(ip_stack) = n - 1
      BY <3>2, <1>2
    <3> QED BY <3>1, <3>3, <1>4 DEF Ret
  <2>2. n - 1 >= 1
    BY <2>1, <1>2, <1>4
  <2>3. Len(curr_func') = n - 1 /\ \A k \in 1 .. n - 1 : curr_func'[k] = curr_func[k]
    <3> DEFINE S == Defined(ir)
    <3>1. curr_func \in Seq(S) /\ curr_func # <<>>
      BY <1>2 DEF MemoryShape
    <3> HIDE DEF S
    <3> QED BY <3>1, <2>1, PoppedStack
  <2>4. ip' = ip_stack[n - 1] /\ \A k \in 1 .. n - 2 : ip_stack'[k] = ip_stack[k]
    <3>1. /\ Peek(ip_stack) = ip_stack[Len(ip_stack)]
          /\ \A k \in 1 .. Len(ip_stack) - 1 : Pop(ip_stack)[k] = ip_stack[k]
      BY <2>1, <1>4, PoppedStack
    <3> QED BY <3>1, <2>1, <1>2
  <2>5. \A h : FramesOf(h)' = FramesOf(h)
    BY <1>1 DEF FramesOf
  <2>6. \A k \in 1 .. n - 1 : CallAt(k)' = CallAt(k) /\ FrameAt(k)' = FrameAt(k)
    <3> TAKE k \in 1 .. n - 1
    <3>1. CallAt(k) = ip_stack[k]
      BY <1>2 DEF CallAt
    <3>2. CallAt(k)' = IF k = n - 1 THEN ip' ELSE ip_stack'[k]
      BY <2>3 DEF CallAt
    <3>3. CallAt(k)' = ip_stack[k]
      <4>1. k # n - 1 => k \in 1 .. n - 2
        BY <1>2
      <4> QED BY <3>2, <4>1, <2>4
    <3> QED BY <3>1, <3>3, <2>3, <2>5 DEF FrameAt
  <2>7. Words' = Words /\ \A k : Ceiling(k)' = Ceiling(k)
    BY <1>1 DEF Words, Ceiling
  <2>8. /\ \A k \in 1 .. n : /\ CallAt(k) \in DOMAIN FramesOf(curr_func[k])
                             /\ FrameAt(k).framed <=> k <= Len(fp)
        /\ \A k \in 1 .. Len(fp) : Holds(FrameAt(k).blocks, fp[k], Ceiling(k), allocations)
        /\ \A j \in 1 .. Len(allocations) : allocations[j].size > 0
        /\ Boundary(allocations, Len(data_stack), Words)
    BY <1>2 DEF BlocksPlaced
  <2>9. \A k \in 1 .. n - 1 : /\ CallAt(k)' \in DOMAIN FramesOf(curr_func[k])'
                              /\ FrameAt(k)'.framed <=> k <= Len(fp)
    <3> TAKE k \in 1 .. n - 1
    <3>1. k \in 1 .. n
      BY <1>2
    <3> QED BY <3>1, <2>3, <2>5, <2>6, <2>8
  <2>10. \A k \in 1 .. Len(fp) : FrameAt(k)' = FrameAt(k)
    BY <2>6, <1>2
  <2>11. BlocksPlaced'
    BY <1>1, <2>3, <2>7, <2>8, <2>9, <2>10 DEF BlocksPlaced
  <2> QED BY <2>11, <1>1, <1>2 DEF VariablesInv
<1> QED BY <1>3, <1>4

--------------------------------------------------------------------------------
(* The theorems about the variables.                                            *)

LEMMA VariablesStay ==
  ASSUME ProgramsTidy PROVE VariablesInv /\ [Next]_vars => VariablesInv'
<1> SUFFICES ASSUME VariablesInv, [Next]_vars PROVE VariablesInv'
  OBVIOUS
<1> MemoryInv'
  <2>1. ProgramsScoped /\ MemoryInv
    BY DEF VariablesInv, ProgramsTidy, ProgramsScoped
  <2> QED BY <2>1, MemoryStays
<1>1. CASE Alloc
  BY <1>1, VariablesAlloc
<1>2. CASE Free
  BY <1>2, VariablesFree
<1>3. CASE FramePush
  BY <1>3, VariablesFramePush
<1>4. CASE FramePop
  BY <1>4, VariablesFramePop
<1>5. CASE Call
  BY <1>5, VariablesCall
<1>6. CASE Ret
  BY <1>6, VariablesRet
<1>7. CASE FreeBlock
  BY <1>7, VariablesFreeBlock
<1>8. CASE \/ Nop \/ Binary \/ Unary \/ PushConstant \/ PushVariable \/ Discard \/ Clone
           \/ SetupGlobal \/ Load \/ Store \/ Jump \/ JumpIf \/ CallExternal \/ Invalid
  BY <1>8, VariablesPlain
<1>9. CASE UNCHANGED vars
  <2>1. BlocksPlaced' = BlocksPlaced /\ status' = status /\ freeing' = freeing
    BY <1>9, Zenon DEF vars, BlocksPlaced, FrameAt, CallAt, FramesOf, Words, Ceiling
  <2> QED BY <2>1 DEF VariablesInv
<1> QED BY <1>1, <1>2, <1>3, <1>4, <1>5, <1>6, <1>7, <1>8, <1>9 DEF Next, Execute

LEMMA VariablesHold == ASSUME ProgramsTidy PROVE Spec => []VariablesInv
<1>1. Init => VariablesInv
  BY VariablesStart
<1>2. VariablesInv /\ [Next]_vars => VariablesInv'
  BY VariablesStay
<1> QED BY <1>1, <1>2, PTL DEF Spec

\* Whatever programs run whose code gives every opcode one view of the frame: what
\* free_memory still has to give back are whole blocks, after any of its rounds.
THEOREM FreesAreWhole == ASSUME ProgramsTidy PROVE Spec => []FreesWholeBlocks
<1>1. ASSUME VariablesInv PROVE FreesWholeBlocks
  <2> SUFFICES ASSUME freeing # 0
               PROVE  \E i \in 1 .. Len(allocations) :
                        allocations[i].start = Len(data_stack) - freeing
    BY DEF FreesWholeBlocks
  <2>1. MemoryShape /\ Boundary(allocations, Len(data_stack), Words)
    BY <1>1 DEF VariablesInv, MemoryInv, BlocksPlaced
  <2>2. freeing \in Nat /\ Len(data_stack) \in Nat
    BY <2>1 DEF MemoryShape, IsSequence
  <2>3. Words # Len(data_stack)
    BY <2>2 DEF Words
  <2> QED BY <2>1, <2>3 DEF Boundary, Words
<1> QED BY <1>1, VariablesHold, PTL

\* The block q is there and has the place.
Inside(blocks, q, place) == q \in 1 .. Len(blocks) /\ place \in Int /\ Contains(blocks[q], place)

\* The blocks of a memory that an address is in.
Hits(a, address) == {i \in 1 .. Len(a) : Contains(a[i], address)}

\* The block q of the frame is the only one of the memory with the place, and the blocks
\* behind it are those behind q.
FoundFor(a, base, blocks, q, place) ==
  \E j \in 1 .. Len(a) :
    /\ a[j] = Moved(blocks[q], base) /\ a[j].start >= base
    /\ Hits(a, base + place) = {j}
    /\ \A i \in j + 1 .. Len(a) :
         \E p \in q + 1 .. Len(blocks) : a[i].name = blocks[p].name

\* A place inside of a block of the last frame.
LEMMA PlaceInFrame ==
  ASSUME NEW a, Solid(a),
         NEW base, base \in Nat, NEW blocks, Holds(blocks, base, SizeOfAll(a), a),
         NEW q, NEW place, Inside(blocks, q, place)
  PROVE  FoundFor(a, base, blocks, q, place)
<1>1. /\ Len(a) \in Nat /\ SizeOfAll(a) \in Nat
      /\ \A i \in 1 .. Len(a) : /\ a[i].start \in Nat /\ a[i].size \in Nat
                                /\ a[i].start + a[i].size <= SizeOfAll(a)
  BY SolidBlocks
<1>2. /\ Solid(blocks) /\ Len(blocks) \in Nat
      /\ \A i \in 1 .. Len(blocks) : blocks[i].start \in Nat /\ blocks[i].size \in Nat
      /\ q \in 1 .. Len(blocks)
  BY SolidBlocks DEF Holds, Inside
<1> DEFINE start == blocks[q].start
           size == blocks[q].size
           begin == base + start
           end == begin + size
           address == base + place
<1>3. /\ begin \in Nat /\ end \in Nat /\ address \in Int
      /\ base <= begin /\ begin <= address /\ address <= end - 1 /\ begin < end
  <2>1. start \in Nat /\ size \in Nat
    BY <1>2
  <2>2. place \in Int /\ place >= start /\ place <= start + size - 1
    BY DEF Contains, Inside
  <2> HIDE DEF start, size
  <2> QED BY <2>1, <2>2
<1>4. PICK j \in 1 .. Len(a) : a[j] = Moved(blocks[q], base)
  BY DEF Holds, Inside
<1>5. a[j].start = begin /\ a[j].size = size /\ a[j].start + a[j].size = end
  BY <1>4 DEF Moved
<1> HIDE DEF address, begin, end, start, size
<1>6. ASSUME NEW i \in 1 .. Len(a) PROVE Contains(a[i], address) <=> i = j
  <2>1. CASE i = j
    <3>1. a[i].start = begin /\ a[i].start + a[i].size = end
      BY <2>1, <1>5
    <3>2. address >= begin /\ address <= end - 1
      BY <1>3
    <3>3. Contains(a[i], address) <=> address >= begin /\ address <= end - 1
      <4>1. Contains(a[i], address) <=>
              address >= a[i].start /\ address <= a[i].start + a[i].size - 1
        BY Zenon DEF Contains
      <4>2. a[i].start \in Nat /\ a[i].size \in Nat
        BY <1>1
      <4> QED BY <3>1, <4>1, <4>2
    <3> QED BY <2>1, <3>2, <3>3
  <2>2. CASE i < j
    <3>1. a[i].start + a[i].size <= begin /\ a[i].start \in Nat /\ a[i].size \in Nat
      BY <2>2, <1>1, <1>5 DEF Solid, Tiles
    <3>2. ~(address <= a[i].start + a[i].size - 1)
      BY <3>1, <1>3
    <3> QED BY <2>2, <3>2 DEF Contains
  <2>3. CASE j < i
    <3>1. end <= a[i].start /\ a[i].start \in Nat
      BY <2>3, <1>1, <1>5 DEF Solid, Tiles
    <3>2. ~(address >= a[i].start)
      BY <3>1, <1>3
    <3> QED BY <2>3, <3>2 DEF Contains
  <2> QED BY <2>1, <2>2, <2>3
<1>7. Hits(a, address) = {j}
  BY <1>6 DEF Hits
<1>8. ASSUME NEW i \in j + 1 .. Len(a)
      PROVE  \E p \in q + 1 .. Len(blocks) : a[i].name = blocks[p].name
  <2>1. i \in 1 .. Len(a) /\ j < i
    BY <1>1
  <2>2. end <= a[i].start
    BY <2>1, <1>5 DEF Solid, Tiles
  <2>3. a[i].start \in Nat /\ a[i].size \in Nat /\ a[i].size > 0 /\ a[i].start + a[i].size <= SizeOfAll(a)
    BY <2>1, <1>1 DEF Solid
  <2>4. base <= a[i].start /\ a[i].start < SizeOfAll(a) /\ begin < a[i].start
    <3>1. a[i].start < SizeOfAll(a)
      BY <2>3, <1>1
    <3>2. begin < a[i].start
      BY <2>2, <2>3, <1>3
    <3> QED BY <3>1, <3>2, <2>3, <1>3
  <2>5. PICK p \in 1 .. Len(blocks) : a[i] = Moved(blocks[p], base)
    BY <2>1, <2>4 DEF Holds
  <2>6. a[i].start = base + blocks[p].start /\ a[i].name = blocks[p].name
    BY <2>5 DEF Moved
  <2>7. blocks[p].start \in Nat /\ blocks[q].start \in Nat /\ blocks[p].size \in Nat
    BY <1>2
  <2>8. ~(blocks[p].start <= blocks[q].start)
    <3>1. base + blocks[q].start < base + blocks[p].start
      BY <2>4, <2>6 DEF begin, start
    <3> QED BY <3>1, <2>7
  <2>9. p < q => blocks[p].start + blocks[p].size <= blocks[q].start
    BY <1>2 DEF Solid, Tiles
  <2>10. ~(p < q)
    <3>1. blocks[p].start + blocks[p].size <= blocks[q].start => blocks[p].start <= blocks[q].start
      BY <2>7
    <3> QED BY <2>8, <2>9, <3>1
  <2>11. p # q
    <3>1. p = q => blocks[p].start <= blocks[q].start
      BY <2>7
    <3> QED BY <2>8, <3>1
  <2>12. p \in q + 1 .. Len(blocks)
    BY <2>10, <2>11, <1>2
  <2> QED BY <2>6, <2>12
<1>9. a[j].start >= base
  BY <1>3, <1>5
<1> QED BY <1>4, <1>7, <1>8, <1>9 DEF address, FoundFor

\* ... and a variable opcode finds the block of its variable in the running call, the
\* last one of that name (get_variable_address, IR_PUSH_STACK, IR_PUSH_SEA).
THEOREM VariablesAreFound == ASSUME ProgramsTidy PROVE Spec => []VariablesResolve
<1>1. ASSUME VariablesInv PROVE VariablesResolve
  <2> SUFFICES ASSUME Running, Op.op \in {"PUSH_STACK", "PUSH_SEA"}
               PROVE  \E i \in 1 .. Len(allocations) :
                        /\ allocations[i].start = VariableAddress(Op.arg - 1)
                        /\ allocations[i].name = Op.name
                        /\ allocations[i].start >= Peek(fp)
                        /\ \A j \in i + 1 .. Len(allocations) : allocations[j].name # Op.name
    BY DEF VariablesResolve, At, Running
  <2> DEFINE n == Len(curr_func)
             m == Len(data_stack)
             frame == FrameAt(n)
             blocks == frame.blocks
             base == Peek(fp)
             place == Op.arg - 1
  <2>1. /\ n \in Nat /\ n >= 1 /\ m \in Nat /\ fp \in Seq(Nat)
        /\ allocations \in Seq(Blocks) /\ Tiles(allocations, m)
        /\ FrameAllows(Op, frame) /\ (frame.framed <=> Len(fp) = n)
        /\ \A k \in 1 .. Len(fp) :
             /\ fp[k] \in Nat /\ Ceiling(k) = IF k = Len(fp) THEN m ELSE fp[k + 1]
             /\ Holds(FrameAt(k).blocks, fp[k], Ceiling(k), allocations)
        /\ \A j \in 1 .. Len(allocations) :
             allocations[j].size > 0 /\ allocations[j].start + allocations[j].size <= m
    BY <1>1, FrameFetched
  <2>2. /\ frame.framed /\ Op.arg \in Nat
        /\ \E q \in 1 .. Len(blocks) :
             /\ Contains(blocks[q], place)
             /\ blocks[q].name = Op.name
             /\ \A p \in q + 1 .. Len(blocks) : blocks[p].name # Op.name
    BY <2>1 DEF FrameAllows
  <2> HIDE DEF n, m
  <2>3. base \in Nat /\ Holds(blocks, base, m, allocations)
    <3>1. Len(fp) = n /\ n \in 1 .. Len(fp) /\ fp # <<>>
      BY <2>1, <2>2
    <3>2. base = fp[n]
      BY <3>1 DEF Peek
    <3>3. fp[n] \in Nat /\ Ceiling(n) = m /\ Holds(FrameAt(n).blocks, fp[n], Ceiling(n), allocations)
      BY <3>1, <2>1
    <3> QED BY <3>2, <3>3
  <2> HIDE DEF frame, base
  <2>4. PICK q \in 1 .. Len(blocks) :
          /\ Contains(blocks[q], place)
          /\ blocks[q].name = Op.name
          /\ \A p \in q + 1 .. Len(blocks) : blocks[p].name # Op.name
    BY <2>2
  <2> HIDE DEF blocks
  <2>5. place \in Int
    BY <2>2
  <2> HIDE DEF place
  <2>6. PICK j \in 1 .. Len(allocations) :
          /\ allocations[j] = Moved(blocks[q], base) /\ allocations[j].start >= base
          /\ Hits(allocations, base + place) = {j}
          /\ \A i \in j + 1 .. Len(allocations) :
               \E p \in q + 1 .. Len(blocks) : allocations[i].name = blocks[p].name
    <3> DEFINE a == allocations
    <3>1. Solid(a) /\ m = SizeOfAll(a)
      <4>1. m = SizeOfAll(a)
        BY <2>1 DEF SizeOfAll, Tiles
      <4> QED BY <4>1, <2>1 DEF Solid
    <3>2. base \in Nat /\ Holds(blocks, base, SizeOfAll(a), a) /\ Inside(blocks, q, place)
      BY <2>3, <2>4, <2>5, <3>1 DEF Inside
    <3> HIDE DEF a
    <3>3. FoundFor(a, base, blocks, q, place)
      BY <3>1, <3>2, PlaceInFrame
    <3> QED BY <3>3 DEF a, FoundFor
  <2>7. VariableAddress(place) = allocations[j].start
    <3>1. (CHOOSE i \in {j} : \A k \in {j} : i <= k) = j
      <4>1. j \in Nat
        BY <2>1
      <4> QED BY <4>1
    <3> DEFINE hits == Hits(allocations, base + place)
    <3>2. VariableAddress(place) =
            IF hits = {} THEN -1
            ELSE allocations[CHOOSE i \in hits : \A k \in hits : i <= k].start
      BY DEF VariableAddress, Hits, base
    <3>3. hits = {j}
      BY <2>6
    <3> HIDE DEF hits
    <3> QED BY <3>1, <3>2, <3>3
  <2>8. allocations[j].name = Op.name
    BY <2>4, <2>6 DEF Moved
  <2>9. \A i \in j + 1 .. Len(allocations) : allocations[i].name # Op.name
    BY <2>4, <2>6
  <2> QED BY <2>6, <2>7, <2>8, <2>9 DEF base, place
<1> QED BY <1>1, VariablesHold, PTL
================================================================================
