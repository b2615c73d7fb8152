----------------------------- MODULE IrMachineProofs -----------------------------
(***************************************************************************)
(* What holds of the interpreter for every program whose code is as IrCode   *)
(* says, for all input and every number of calls.                            *)
(*                                                                          *)
(* The statements about a memory are made of its blocks a and its number of  *)
(* words n, which the actions only combine.                                  *)
(***************************************************************************)
EXTENDS IrCode, SequenceTheorems, TLAPS

--------------------------------------------------------------------------------
(* Stacks.                                                                      *)

\* A sequence, of whatever.
IsSequence(s) == \E S : s \in Seq(S)

LEMMA PoppedStack ==
  ASSUME NEW S, NEW s \in Seq(S)
  PROVE  /\ Pop(s) \in Seq(S)
         /\ Len(s) \in Nat
         /\ s # <<>> => /\ Len(s) > 0 /\ Len(Pop(s)) = Len(s) - 1
                        /\ Peek(s) = s[Len(s)] /\ Peek(s) \in S
         /\ \A i \in 1 .. Len(s) - 1 : Pop(s)[i] = s[i]
<1>1. CASE s = <<>>
  BY <1>1 DEF Pop
<1>2. CASE s # <<>>
  <2>1. Len(s) \in Nat /\ Len(s) > 0 /\ \A i \in 1 .. Len(s) : s[i] \in S
    BY <1>2
  <2>2. Pop(s) = SubSeq(s, 1, Len(s) - 1) /\ Peek(s) = s[Len(s)]
    BY <1>2 DEF Pop, Peek
  <2>3. \A i \in 1 .. Len(s) - 1 : s[i] \in S
    BY <2>1
  <2>4. /\ SubSeq(s, 1, Len(s) - 1) \in Seq(S)
        /\ Len(SubSeq(s, 1, Len(s) - 1)) = Len(s) - 1
        /\ \A i \in 1 .. Len(s) - 1 : SubSeq(s, 1, Len(s) - 1)[i] = s[i]
    <3> DEFINE k == Len(s) - 1
    <3>1. k \in Nat /\ \A i \in 1 .. k : s[i] \in S
      BY <2>1
    <3> HIDE DEF k
    <3>2. /\ SubSeq(s, 1, k) \in Seq(S)
          /\ Len(SubSeq(s, 1, k)) = IF 1 <= k THEN k - 1 + 1 ELSE 0
          /\ \A i \in 1 .. k - 1 + 1 : SubSeq(s, 1, k)[i] = s[1 + i - 1]
      BY <3>1, SubSeqProperties
    <3>3. Len(SubSeq(s, 1, k)) = k /\ \A i \in 1 .. k : SubSeq(s, 1, k)[i] = s[i]
      BY <3>1, <3>2
    <3> QED BY <3>2, <3>3 DEF k
  <2> QED BY <2>1, <2>2, <2>4, <1>2
<1> QED BY <1>1, <1>2

LEMMA PushedStack ==
  ASSUME NEW S, NEW s \in Seq(S), NEW x \in S
  PROVE  /\ Push(s, x) \in Seq(S) /\ Push(s, x) # <<>>
         /\ Len(s) \in Nat /\ Len(Push(s, x)) = Len(s) + 1
         /\ Push(s, x)[Len(s) + 1] = x /\ Peek(Push(s, x)) = x
         /\ \A i \in 1 .. Len(s) : Push(s, x)[i] = s[i]
BY DEF Push, Peek

--------------------------------------------------------------------------------
(* Memories: blocks that tile the words.                                        *)

Blocks == [start : Nat, size : Nat, name : STRING]

\* The blocks a tile n words, and are in order.
Tiles(a, n) ==
  /\ a = <<>> => n = 0
  /\ a # <<>> => a[1].start = 0 /\ a[Len(a)].start + a[Len(a)].size = n
  /\ \A i \in 1 .. Len(a) - 1 : a[i].start + a[i].size = a[i + 1].start
  /\ \A i, j \in 1 .. Len(a) : i < j => a[i].start + a[i].size <= a[j].start

\* A place between two blocks, or behind the last one.
Boundary(a, n, b) == b = n \/ \E i \in 1 .. Len(a) : a[i].start = b

\* allocate_memory
LEMMA TilesPushed ==
  ASSUME NEW a \in Seq(Blocks), NEW n \in Nat, Tiles(a, n),
         NEW size \in Nat, NEW name \in STRING
  PROVE  LET more == Push(a, [start |-> n, size |-> size, name |-> name])
         IN  /\ more \in Seq(Blocks) /\ Tiles(more, n + size)
             /\ \A b : Boundary(a, n, b) => Boundary(more, n + size, b)
<1> DEFINE block == [start |-> n, size |-> size, name |-> name]
           more == Push(a, block)
<1>1. block \in Blocks /\ block.start = n /\ block.size = size
  BY DEF Blocks
<1> HIDE DEF block
<1>2. /\ more \in Seq(Blocks) /\ more # <<>> /\ Len(a) \in Nat /\ Len(more) = Len(a) + 1
      /\ more[Len(a) + 1] = block
      /\ \A i \in 1 .. Len(a) : more[i] = a[i]
  BY <1>1 DEF Push
<1> HIDE DEF more
<1>3. \A i \in 1 .. Len(a) : a[i].start \in Nat /\ a[i].size \in Nat
  <2>1. \A i \in 1 .. Len(a) : a[i] \in Blocks
    BY ElementOfSeq
  <2> QED BY <2>1 DEF Blocks
<1>4. \A i \in 1 .. Len(a) : a[i].start + a[i].size <= n
  <2> TAKE i \in 1 .. Len(a)
  <2>1. /\ a # <<>> /\ a[Len(a)].start + a[Len(a)].size = n
        /\ i # Len(a) => a[i].start + a[i].size <= a[Len(a)].start
    BY <1>2 DEF Tiles
  <2>2. Len(a) \in 1 .. Len(a)
    BY <1>2
  <2>3. /\ a[i].start \in Nat /\ a[i].size \in Nat
        /\ a[Len(a)].start \in Nat /\ a[Len(a)].size \in Nat
    BY <2>2, <1>3
  <2>4. CASE i = Len(a)
    BY <2>1, <2>3, <2>4
  <2>5. CASE i # Len(a)
    BY <2>1, <2>3, <2>5
  <2> QED BY <2>4, <2>5
<1>5. Tiles(more, n + size)
  <2>1. a = <<>> => Len(a) = 0 /\ n = 0
    BY DEF Tiles
  <2>2. a # <<>> => Len(a) > 0
    BY <1>2
  <2>3. more[1].start = 0
    BY <2>1, <2>2, <1>1, <1>2 DEF Tiles
  <2>4. ASSUME NEW i \in 1 .. Len(more) - 1
        PROVE  more[i].start + more[i].size = more[i + 1].start
    <3>1. CASE i = Len(a)
      BY <3>1, <1>1, <1>2, <2>1 DEF Tiles
    <3>2. CASE i # Len(a)
      <4>1. i \in 1 .. Len(a) - 1 /\ i + 1 \in 1 .. Len(a)
        BY <3>2, <1>2
      <4> QED BY <4>1, <1>2 DEF Tiles
    <3> QED BY <3>1, <3>2
  <2>5. ASSUME NEW i \in 1 .. Len(more), NEW j \in 1 .. Len(more), i < j
        PROVE  more[i].start + more[i].size <= more[j].start
    <3>1. i \in 1 .. Len(a) /\ more[i] = a[i]
      BY <2>5, <1>2
    <3>2. CASE j = Len(a) + 1
      BY <3>1, <3>2, <1>1, <1>2, <1>4
    <3>3. CASE j \in 1 .. Len(a)
      BY <3>1, <3>3, <2>5, <1>2 DEF Tiles
    <3> QED BY <3>2, <3>3, <1>2
  <2> QED BY <1>1, <1>2, <2>3, <2>4, <2>5 DEF Tiles
<1>6. ASSUME NEW b, Boundary(a, n, b)
      PROVE  Boundary(more, n + size, b)
  <2>1. CASE b = n
    BY <2>1, <1>1, <1>2 DEF Boundary
  <2>2. CASE b # n
    <3>1. PICK i \in 1 .. Len(a) : a[i].start = b
      BY <2>2, <1>6 DEF Boundary
    <3> QED BY <3>1, <1>2 DEF Boundary
  <2> QED BY <2>1, <2>2
<1> QED BY <1>2, <1>5, <1>6 DEF more, block

\* One round of free_memory: the last block goes, and no boundary it is not to go
\* behind.
LEMMA TilesPopped ==
  ASSUME NEW a \in Seq(Blocks), NEW n \in Nat, Tiles(a, n),
         NEW r \in 1 .. n
  PROVE  LET last == Peek(a)
             left == IF last.size > r THEN 0 ELSE r - last.size
         IN  /\ a # <<>> /\ last.start \in 0 .. n /\ last.size \in Nat
             /\ last.start + last.size = n
             /\ Pop(a) \in Seq(Blocks) /\ Tiles(Pop(a), last.start)
             /\ left \in 0 .. last.start
             /\ \A b \in Nat : Boundary(a, n, b) /\ b <= n - r =>
                  Boundary(Pop(a), last.start, b) /\ b <= last.start - left
<1> DEFINE last == Peek(a)
           rest == Pop(a)
           left == IF last.size > r THEN 0 ELSE r - last.size
<1>1. a # <<>>
  BY DEF Tiles
<1>2. /\ rest \in Seq(Blocks) /\ Len(a) \in Nat /\ Len(a) > 0 /\ Len(rest) = Len(a) - 1
      /\ last = a[Len(a)] /\ last \in Blocks
      /\ \A i \in 1 .. Len(a) - 1 : rest[i] = a[i]
  BY <1>1, PoppedStack
<1> HIDE DEF rest
<1>3. \A i \in 1 .. Len(a) : a[i].start \in Nat /\ a[i].size \in Nat
  <2>1. \A i \in 1 .. Len(a) : a[i] \in Blocks
    BY ElementOfSeq
  <2> QED BY <2>1 DEF Blocks
<1>4. last.start \in Nat /\ last.size \in Nat /\ last.start + last.size = n
  BY <1>1, <1>2, <1>3 DEF Tiles
<1>5. Tiles(rest, last.start)
  <2>1. rest = <<>> => last.start = 0
    <3>1. ASSUME rest = <<>> PROVE Len(a) = 1
      BY <3>1, <1>2
    <3> QED BY <3>1, <1>1, <1>2 DEF Tiles
  <2>2. ASSUME rest # <<>>
        PROVE  rest[1].start = 0 /\ rest[Len(rest)].start + rest[Len(rest)].size = last.start
    <3>1. Len(rest) > 0
      BY <2>2, <1>2
    <3>2. Len(rest) \in 1 .. Len(a) - 1 /\ 1 \in 1 .. Len(a) - 1 /\ Len(rest) + 1 = Len(a)
      BY <3>1, <1>2
    <3>3. rest[1] = a[1] /\ rest[Len(rest)] = a[Len(rest)]
      BY <3>2, <1>2
    <3>4. a[Len(rest)].start + a[Len(rest)].size = a[Len(rest) + 1].start
      BY <3>2 DEF Tiles
    <3> QED BY <3>2, <3>3, <3>4, <1>1, <1>2 DEF Tiles
  <2>3. ASSUME NEW i \in 1 .. Len(rest) - 1
        PROVE  rest[i].start + rest[i].size = rest[i + 1].start
    <3>1. i \in 1 .. Len(a) - 1 /\ i + 1 \in 1 .. Len(a) - 1
      BY <1>2
    <3> QED BY <3>1, <1>2 DEF Tiles
  <2>4. ASSUME NEW i \in 1 .. Len(rest), NEW j \in 1 .. Len(rest), i < j
        PROVE  rest[i].start + rest[i].size <= rest[j].start
    <3>1. i \in 1 .. Len(a) - 1 /\ j \in 1 .. Len(a) - 1 /\ i \in 1 .. Len(a) /\ j \in 1 .. Len(a)
      BY <1>2
    <3> QED BY <3>1, <2>4, <1>2 DEF Tiles
  <2> QED BY <2>1, <2>2, <2>3, <2>4 DEF Tiles
<1>6. left \in 0 .. last.start
  BY <1>4
<1>7. ASSUME NEW b \in Nat, Boundary(a, n, b), b <= n - r
      PROVE  Boundary(rest, last.start, b) /\ b <= last.start - left
  <2>1. PICK i \in 1 .. Len(a) : a[i].start = b
    BY <1>7, <1>4 DEF Boundary
  <2>2. CASE i = Len(a)
    <3>1. b = last.start
      BY <2>1, <2>2, <1>2
    <3> QED BY <3>1, <1>4, <1>7 DEF Boundary
  <2>3. CASE i # Len(a)
    <3>1. i \in 1 .. Len(rest) /\ rest[i].start = b
      BY <2>1, <2>3, <1>2
    <3>2. b <= last.start
      <4>1. a[i].start + a[i].size <= a[Len(a)].start
        BY <2>1, <2>3, <1>2 DEF Tiles
      <4> QED BY <4>1, <2>1, <1>2, <1>3
    <3>3. Boundary(rest, last.start, b)
      BY <3>1 DEF Boundary
    <3>4. b <= last.start - left
      BY <1>4, <1>7, <3>2
    <3> QED BY <3>3, <3>4
  <2> QED BY <2>2, <2>3
<1> QED BY <1>1, <1>2, <1>4, <1>5, <1>6, <1>7 DEF rest

--------------------------------------------------------------------------------
(* Scopes of a frame, and where they begin.                                      *)

\* The levels of a frame have a place each in a memory (a, n): the frame begins at
\* base, nothing known of it is behind top, and between two scopes is at least what
\* the code knows to be there.
Placed(levels, base, top, a, n) ==
  \E place \in [levels -> Nat] :
    /\ place[0] = base
    /\ \A l \in levels : Boundary(a, n, place[l]) /\ place[l] <= top
    /\ \A l, m \in levels : l <= m => m - l <= place[m] - place[l]

\* Fewer scopes, in a memory with the same boundaries.
LEMMA PlacedKeeps ==
  ASSUME NEW levels, NEW fewer, fewer \subseteq levels, 0 \in fewer,
         NEW base, NEW top, NEW higher, NEW a, NEW n, NEW b, NEW m,
         Placed(levels, base, top, a, n),
         \A x \in Nat : Boundary(a, n, x) /\ x <= top => Boundary(b, m, x) /\ x <= higher
  PROVE  Placed(fewer, base, higher, b, m)
<1>1. PICK place \in [levels -> Nat] :
        /\ place[0] = base
        /\ \A l \in levels : Boundary(a, n, place[l]) /\ place[l] <= top
        /\ \A l, k \in levels : l <= k => k - l <= place[k] - place[l]
  BY DEF Placed
<1> DEFINE some == [l \in fewer |-> place[l]]
<1>2. some \in [fewer -> Nat] /\ \A l \in fewer : some[l] = place[l] /\ l \in levels
  OBVIOUS
<1> HIDE DEF some
<1>3. some[0] = base
  BY <1>1, <1>2
<1>4. \A l \in fewer : Boundary(b, m, some[l]) /\ some[l] <= higher
  <2> TAKE l \in fewer
  <2>1. place[l] \in Nat /\ Boundary(a, n, place[l]) /\ place[l] <= top
    BY <1>1, <1>2
  <2> QED BY <2>1, <1>2
<1>5. \A l, k \in fewer : l <= k => k - l <= some[k] - some[l]
  BY <1>1, <1>2
<1> QED BY <1>2, <1>3, <1>4, <1>5 DEF Placed

LEMMA TopOfLevels ==
  ASSUME NEW levels, IsScopes(levels), levels # {}
  PROVE  /\ TopLevel(levels) \in levels /\ TopLevel(levels) \in Nat
         /\ \A l \in levels : l \in Nat /\ l <= TopLevel(levels)
<1>1. \E top \in levels : \A l \in levels : l <= top
  BY DEF IsScopes
<1>2. TopLevel(levels) \in levels /\ \A l \in levels : l <= TopLevel(levels)
  BY <1>1, Zenon DEF TopLevel
<1> QED BY <1>2 DEF IsScopes

\* A block behind the end is the place of a scope more.
LEMMA PlacedAlloc ==
  ASSUME NEW levels, IsScopes(levels), levels # {},
         NEW base, NEW a, NEW n \in Nat, Placed(levels, base, n, a, n),
         NEW size \in Nat, NEW b,
         \A x : Boundary(a, n, x) => Boundary(b, n + size, x)
  PROVE  Placed(levels \cup {TopLevel(levels) + size}, base, n + size, b, n + size)
<1> DEFINE top == TopLevel(levels)
           new == top + size
           more == levels \cup {new}
<1>1. top \in levels /\ top \in Nat /\ \A l \in levels : l \in Nat /\ l <= top
  BY TopOfLevels
<1> HIDE DEF top
<1>2. PICK place \in [levels -> Nat] :
        /\ place[0] = base
        /\ \A l \in levels : Boundary(a, n, place[l]) /\ place[l] <= n
        /\ \A l, k \in levels : l <= k => k - l <= place[k] - place[l]
  BY DEF Placed
<1> DEFINE wider == [l \in more |-> IF l \in levels THEN place[l] ELSE n + size]
<1>3. /\ wider \in [more -> Nat]
      /\ \A l \in levels : wider[l] = place[l]
      /\ new \notin levels => wider[new] = n + size
      /\ 0 \in levels
  <2>1. \A l \in levels : place[l] \in Nat
    OBVIOUS
  <2>2. wider \in [more -> Nat]
    BY <2>1
  <2> QED BY <2>2 DEF IsScopes
<1>4. wider[0] = base
  BY <1>2, <1>3
<1> HIDE DEF wider
<1>5. \A l \in more : Boundary(b, n + size, wider[l]) /\ wider[l] <= n + size
  <2> TAKE l \in more
  <2>1. CASE l \in levels
    BY <2>1, <1>2, <1>3
  <2>2. CASE l \notin levels
    BY <2>2, <1>3 DEF Boundary
  <2> QED BY <2>1, <2>2
<1>6. ASSUME NEW l \in more, NEW k \in more, l <= k
      PROVE  k - l <= wider[k] - wider[l]
  <2>1. CASE l \in levels /\ k \in levels
    BY <2>1, <1>2, <1>3, <1>6
  <2>2. CASE l \in levels /\ k \notin levels
    <3>1. k = new /\ wider[k] = n + size /\ wider[l] = place[l] /\ place[l] \in Nat
      BY <2>2, <1>3
    <3>2. top - l <= place[top] - place[l] /\ place[top] \in Nat /\ place[top] <= n
      BY <2>2, <1>1, <1>2
    <3> QED BY <3>1, <3>2, <2>2, <1>1
  <2>3. CASE l \notin levels
    <3>1. l = new
      BY <2>3
    <3>2. CASE k \in levels
      <4>1. k \in Nat /\ k <= top
        BY <3>2, <1>1
      <4>2. k = new
        BY <3>1, <4>1, <1>6, <1>1
      <4> QED BY <4>2, <3>1, <3>2, <2>3
    <3>3. CASE k \notin levels
      BY <2>3, <3>3, <1>1, <1>3
    <3> QED BY <3>2, <3>3
  <2> QED BY <2>1, <2>2, <2>3
<1> QED BY <1>3, <1>4, <1>5, <1>6 DEF Placed, top

\* What is behind the begin of a scope is at least what IR_FREE gives back of it.
LEMMA PlacedFree ==
  ASSUME NEW levels, IsScopes(levels), levels # {},
         NEW base, NEW a, NEW n \in Nat, Placed(levels, base, n, a, n),
         NEW size \in Nat, TopLevel(levels) - size \in levels,
         NEW fewer, fewer = {l \in levels : l <= TopLevel(levels) - size}
  PROVE  size <= n /\ Placed(fewer, base, n - size, a, n)
<1> DEFINE top == TopLevel(levels)
<1>1. top \in levels /\ top \in Nat /\ \A l \in levels : l \in Nat /\ l <= top
  BY TopOfLevels
<1>2. top - size \in levels
  OBVIOUS
<1> HIDE DEF top
<1>3. PICK place \in [levels -> Nat] :
        /\ place[0] = base
        /\ \A l \in levels : Boundary(a, n, place[l]) /\ place[l] <= n
        /\ \A l, k \in levels : l <= k => k - l <= place[k] - place[l]
  BY DEF Placed
<1>4. 0 \in levels /\ 0 <= top - size
  BY <1>1, <1>2 DEF IsScopes
<1>5. size <= place[top] - place[top - size] /\ place[top] <= n
      /\ place[top] \in Nat /\ place[top - size] \in Nat
  <2>1. top - size <= top
    BY <1>1
  <2>2. top - (top - size) <= place[top] - place[top - size]
    BY <2>1, <1>1, <1>2, <1>3
  <2> QED BY <2>2, <1>1, <1>2, <1>3
<1>6. \A l \in fewer : place[l] \in Nat /\ place[l] <= n - size
  <2> TAKE l \in fewer
  <2>1. l \in levels /\ l \in Nat /\ l <= top - size
    BY <1>1 DEF top
  <2>2. (top - size) - l <= place[top - size] - place[l]
    BY <2>1, <1>2, <1>3
  <2> QED BY <2>1, <2>2, <1>1, <1>3, <1>5
<1> DEFINE some == [l \in fewer |-> place[l]]
<1>7. /\ 0 \in fewer
      /\ some \in [fewer -> Nat] /\ \A l \in fewer : some[l] = place[l] /\ l \in levels
  BY <1>4 DEF top
<1>8. some[0] = base
  BY <1>3, <1>7
<1> HIDE DEF some
<1>9. /\ \A l \in fewer : Boundary(a, n, some[l]) /\ some[l] <= n - size
      /\ \A l, k \in fewer : l <= k => k - l <= some[k] - some[l]
  BY <1>3, <1>6, <1>7
<1>10. Placed(fewer, base, n - size, a, n)
  BY <1>7, <1>8, <1>9 DEF Placed
<1>11. size <= n
  BY <1>5
<1> QED BY <1>10, <1>11

--------------------------------------------------------------------------------
(* The inductive invariant.                                                     *)

\* The scopes of a function, one way of assigning them.
ScopesOf(f) == CHOOSE scopes : ScopedBy(ir.functions[f].code, scopes)

\* Where a running call is, or where it goes on.
CallAt(k) == IF k = Len(curr_func) THEN ip ELSE ip_stack[k]

ScopesAt(k) == ScopesOf(curr_func[k])[CallAt(k)]

\* What is in the memory without what is being given back.
Words == Len(data_stack) - freeing

\* A frame ends where the next one begins.
Ceiling(k) == IF k = Len(fp) THEN Words ELSE fp[k + 1]

MemoryShape ==
  /\ ir \in Programs
  /\ IsSequence(data_stack)
  /\ allocations \in Seq(Blocks)
  /\ fp \in Seq(Nat) /\ ip_stack \in Seq(Nat) /\ curr_func \in Seq(Defined(ir))
  /\ freeing \in Nat /\ freeing <= Len(data_stack)
  /\ \A j, k \in 1 .. Len(fp) : j < k => fp[j] <= fp[k]

\* Every running call but the last one has a frame, and the last one as its code
\* says; all that the code says is in a frame is in the memory, below the frame of
\* the next call and apart from what is being given back.  Without a frame nothing
\* is left.
FramesPlaced ==
  LET n == Len(curr_func)
  IN  /\ curr_func # <<>>
      /\ \A k \in 1 .. n : CallAt(k) \in DOMAIN ScopesOf(curr_func[k])
      /\ \A k \in 1 .. n - 1 : ScopesAt(k) # {}
      /\ Len(fp) = IF ScopesAt(n) = {} THEN n - 1 ELSE n
      /\ \A k \in 1 .. Len(fp) :
           /\ fp[k] <= Words
           /\ Placed(ScopesAt(k), fp[k], Ceiling(k), allocations, Len(data_stack))
      /\ fp # <<>> => fp[1] = 0
      /\ fp = <<>> => Words = 0

MemoryInv ==
  /\ MemoryShape
  /\ Tiles(allocations, Len(data_stack))
  /\ FramesNest
  /\ status = "running" => FramesPlaced

\* What is assumed of the programs.
ProgramsScoped == \A p \in Programs : Scoped(p)

LEMMA MemoryStarts == ASSUME ProgramsScoped PROVE Init => MemoryInv
<1> SUFFICES ASSUME Init PROVE MemoryInv
  OBVIOUS
<1>1. /\ ir \in Programs /\ Scoped(ir) /\ WellFormed(ir) /\ Entry \in Defined(ir)
  BY DEF Init, ProgramsScoped, Scoped, WellFormed
<1>2. ScopedBy(ir.functions[Entry].code, ScopesOf(Entry))
  <2>1. \E scopes : ScopedBy(ir.functions[Entry].code, scopes)
    BY <1>1 DEF Scoped
  <2> QED BY <2>1, Zenon DEF ScopesOf
<1>3. /\ curr_func = <<Entry>> /\ Len(curr_func) = 1 /\ curr_func[1] = Entry /\ ip = 0
      /\ fp = <<>> /\ ip_stack = <<>> /\ data_stack = <<>> /\ allocations = <<>> /\ freeing = 0
  BY DEF Init
<1>4. MemoryShape
  <2>1. <<>> \in Seq(Nat)
    OBVIOUS
  <2>2. data_stack \in Seq(Nat) /\ IsSequence(data_stack)
    BY <1>3, <2>1 DEF IsSequence
  <2> QED BY <1>1, <1>3, <2>2 DEF MemoryShape
<1>5. Tiles(allocations, Len(data_stack))
  BY <1>3 DEF Tiles
<1>6. FramesNest
  BY <1>3 DEF FramesNest
<1>7. CallAt(1) = 0 /\ 0 \in DOMAIN ScopesOf(Entry) /\ ScopesAt(1) = {}
  BY <1>2, <1>3 DEF CallAt, ScopesAt, ScopedBy
<1>8. FramesPlaced
  BY <1>3, <1>7 DEF FramesPlaced, Words
<1> QED BY <1>4, <1>5, <1>6, <1>8 DEF MemoryInv

\* The code of every running call has scopes, and the one in a frame begins with it.
LEMMA ScopesOfCalls ==
  ASSUME ProgramsScoped, MemoryShape, FramesPlaced
  PROVE  LET n == Len(curr_func)
         IN  /\ n \in Nat /\ n >= 1 /\ Len(fp) \in {n - 1, n}
             /\ \A k \in 1 .. n :
                  /\ curr_func[k] \in Defined(ir)
                  /\ ScopedBy(ir.functions[curr_func[k]].code, ScopesOf(curr_func[k]))
                  /\ IsScopes(ScopesAt(k))
             /\ \A k \in 1 .. Len(fp) : 0 \in ScopesAt(k)
<1> DEFINE n == Len(curr_func)
<1>1. n \in Nat /\ n >= 1
  <2> DEFINE S == Defined(ir)
  <2>1. curr_func \in Seq(S) /\ curr_func # <<>>
    BY DEF MemoryShape, FramesPlaced
  <2> HIDE DEF S
  <2> QED BY <2>1, PoppedStack
<1>2. ASSUME NEW k \in 1 .. n
      PROVE  /\ curr_func[k] \in Defined(ir)
             /\ ScopedBy(ir.functions[curr_func[k]].code, ScopesOf(curr_func[k]))
             /\ IsScopes(ScopesAt(k))
  <2>1. curr_func[k] \in Defined(ir)
    BY ElementOfSeq DEF MemoryShape
  <2>2. \E s : ScopedBy(ir.functions[curr_func[k]].code, s)
    BY <2>1 DEF Scoped, MemoryShape, ProgramsScoped
  <2>3. ScopedBy(ir.functions[curr_func[k]].code, ScopesOf(curr_func[k]))
    BY <2>2, Zenon DEF ScopesOf
  <2>4. CallAt(k) \in DOMAIN ScopesOf(curr_func[k])
    BY DEF FramesPlaced
  <2> QED BY <2>1, <2>3, <2>4 DEF ScopedBy, ScopesAt
<1>3. /\ \A k \in 1 .. n - 1 : ScopesAt(k) # {}
      /\ Len(fp) = IF ScopesAt(n) = {} THEN n - 1 ELSE n
  BY DEF FramesPlaced
<1> HIDE DEF n
<1>4. ASSUME NEW k \in 1 .. Len(fp) PROVE 0 \in ScopesAt(k)
  <2>1. k \in 1 .. n /\ ScopesAt(k) # {}
    BY <1>1, <1>3
  <2> QED BY <2>1, <1>2 DEF IsScopes
<1> QED BY <1>1, <1>2, <1>3, <1>4 DEF n

--------------------------------------------------------------------------------
(* The opcode that runs.                                                        *)

Running == status = "running" /\ freeing = 0 /\ ip < Len(Code)

\* The last of the calls, and what its code says of the opcode.
LEMMA Fetched ==
  ASSUME ProgramsScoped, MemoryInv, Running
  PROVE  LET n == Len(curr_func)
             f == curr_func[n]
             levels == ScopesAt(n)
         IN  /\ n \in Nat /\ n >= 1 /\ f \in Defined(ir) /\ Peek(curr_func) = f
             /\ Code = ir.functions[f].code /\ Op \in Opcodes /\ ip \in Nat
             /\ Op.op = "CALL" => Op.name \in DOMAIN ir.functions
             /\ 0 \in DOMAIN ScopesOf(f) /\ ScopesOf(f)[0] = {}
             /\ IsScopes(levels) /\ ScopesAllow(Op, levels)
             /\ \A j \in Follows(Code, ip) :
                  /\ j \in DOMAIN ScopesOf(f) /\ j \in Nat /\ IsScopes(ScopesOf(f)[j])
                  /\ ScopesOf(f)[j] \subseteq ScopesAfter(Op, levels)
                  /\ ScopesOf(f)[j] = {} => ScopesAfter(Op, levels) = {}
<1> DEFINE n == Len(curr_func)
           f == curr_func[n]
           scopes == ScopesOf(f)
<1>1. /\ FramesPlaced /\ MemoryShape /\ curr_func # <<>> /\ ir \in Programs
  BY DEF MemoryInv, Running, MemoryShape, FramesPlaced
<1>2. n \in Nat /\ n >= 1 /\ n \in 1 .. n /\ f \in Defined(ir) /\ Peek(curr_func) = f
  <2>1. n \in Nat /\ n >= 1
    BY <1>1, ScopesOfCalls
  <2>2. n \in 1 .. n
    BY <2>1
  <2> QED BY <1>1, <2>1, <2>2, ScopesOfCalls DEF Peek
<1>3. Scoped(ir) /\ WellFormed(ir)
  BY <1>1 DEF ProgramsScoped, Scoped
<1>4. ScopedBy(ir.functions[f].code, scopes)
  BY <1>1, <1>2, ScopesOfCalls
<1>5. Code = ir.functions[f].code /\ Op = Code[ip + 1]
  BY <1>2 DEF Code, Op
<1>6. CallAt(n) = ip /\ ip \in DOMAIN scopes /\ ScopesAt(n) = scopes[ip]
  BY <1>1, <1>2 DEF CallAt, ScopesAt, FramesPlaced
<1> HIDE DEF scopes, f, n
<1>7. ip \in Nat
  BY <1>4, <1>6 DEF ScopedBy
<1>8. /\ Code \in Seq(Opcodes)
      /\ \A i \in 1 .. Len(Code) : Code[i].op = "CALL" => Code[i].name \in DOMAIN ir.functions
  BY <1>2, <1>3, <1>5 DEF WellFormed
<1>9. ip + 1 \in 1 .. Len(Code) /\ Op \in Opcodes
  BY <1>5, <1>7, <1>8 DEF Running
<1>10. 0 \in DOMAIN scopes /\ scopes[0] = {} /\ IsScopes(scopes[ip])
  BY <1>4, <1>6 DEF ScopedBy
<1>11. /\ ScopesAllow(Op, scopes[ip])
       /\ \A j \in Follows(Code, ip) :
            /\ j \in DOMAIN scopes /\ j \in Nat /\ IsScopes(scopes[j])
            /\ scopes[j] \subseteq ScopesAfter(Op, scopes[ip])
            /\ scopes[j] = {} => ScopesAfter(Op, scopes[ip]) = {}
  BY <1>4, <1>5, <1>6 DEF ScopedBy, Running
<1> QED BY <1>2, <1>5, <1>6, <1>7, <1>8, <1>9, <1>10, <1>11 DEF scopes, f, n

\* But for a call and a return, an opcode is followed by one that the code says.
LEMMA GoesOn ==
  ASSUME Execute, ~Call, ~Ret
  PROVE  Running /\ (ip \in Nat /\ status' = "running" => ip' \in Follows(Code, ip))
<1>1. Op = Code[ip + 1]
  BY DEF Op
<1>2. Running
  BY DEF Execute, Fetch, Running, Nop, Binary, Unary, PushConstant, PushVariable, Discard, Clone,
         SetupGlobal, Alloc, Free, FramePush, FramePop, Load, Store, Jump, JumpIf, CallExternal,
         Invalid
<1>3. SUFFICES ASSUME ip \in Nat, status' = "running" PROVE ip' \in Follows(Code, ip)
  BY <1>2
<1>4. CASE Jump
  BY <1>1, <1>4 DEF Jump, Fetch, Follows
<1>5. CASE JumpIf
  <2>1. ip' = ip + 1 + Op.arg \/ ip' = ip + 1
    BY <1>3, <1>5 DEF JumpIf
  <2> QED BY <1>1, <1>5, <2>1 DEF JumpIf, Fetch, Follows
<1>6. CASE Invalid
  BY <1>3, <1>6 DEF Invalid
<1>7. CASE ~Jump /\ ~JumpIf /\ ~Invalid
  <2>1. ip' = ip + 1
    BY <1>7 DEF Execute, Nop, Binary, Unary, PushConstant, PushVariable, Discard, Clone,
                SetupGlobal, Alloc, Free, FramePush, FramePop, Load, Store, CallExternal, Advance
  <2>2. Op.op \notin {"JUMP", "JUMP_IF", "JUMP_IF_NOT", "RET", "INVALID"}
    BY <1>7 DEF Execute, Fetch, Nop, Binary, Unary, PushConstant, PushVariable, Discard, Clone,
                SetupGlobal, Alloc, Free, FramePush, FramePop, Load, Store, CallExternal,
                BinaryOps, UnaryOps
  <2> QED BY <1>1, <2>1, <2>2 DEF Follows
<1> QED BY <1>4, <1>5, <1>6, <1>7

\* A step inside of a call, which leaves in the frames what its code says.
LEMMA StepInCall ==
  ASSUME ProgramsScoped, MemoryInv, Running,
         UNCHANGED <<ir, ip_stack, curr_func>>,
         status' = "running" => ip' \in Follows(Code, ip),
         MemoryShape', Tiles(allocations, Len(data_stack))', FramesNest',
         Len(fp') = IF ScopesAfter(Op, ScopesAt(Len(curr_func))) = {}
                      THEN Len(curr_func) - 1 ELSE Len(curr_func),
         \A k \in 1 .. Len(fp') :
            /\ fp'[k] <= Words'
            /\ Placed(IF k = Len(curr_func) THEN ScopesAfter(Op, ScopesAt(k)) ELSE ScopesAt(k),
                      fp'[k], Ceiling(k)', allocations', Len(data_stack')),
         fp' # <<>> => fp'[1] = 0,
         fp' = <<>> => Words' = 0
  PROVE  MemoryInv'
<1> SUFFICES ASSUME status' = "running" PROVE FramesPlaced'
  BY DEF MemoryInv
<1> DEFINE n == Len(curr_func)
           f == curr_func[n]
           levels == ScopesAt(n)
           next == ScopesOf(f)[ip']
<1>1. /\ n \in Nat /\ n >= 1
      /\ ip' \in DOMAIN ScopesOf(f) /\ IsScopes(next)
      /\ next \subseteq ScopesAfter(Op, levels)
      /\ next = {} => ScopesAfter(Op, levels) = {}
  BY Fetched
<1>2. Len(curr_func') = n /\ curr_func' = curr_func /\ \A g : ScopesOf(g)' = ScopesOf(g)
  BY DEF ScopesOf
<1>3. CallAt(n)' = ip' /\ ScopesAt(n)' = next
  BY <1>2 DEF CallAt, ScopesAt
<1>4. \A k \in 1 .. n - 1 : CallAt(k)' = CallAt(k) /\ ScopesAt(k)' = ScopesAt(k)
  BY <1>1, <1>2 DEF CallAt, ScopesAt
<1> HIDE DEF next, levels
<1>5. /\ curr_func # <<>>
      /\ \A k \in 1 .. n : CallAt(k) \in DOMAIN ScopesOf(curr_func[k])
      /\ \A k \in 1 .. n - 1 : ScopesAt(k) # {}
  BY DEF MemoryInv, Running, FramesPlaced
<1>6. \A k \in 1 .. n : CallAt(k)' \in DOMAIN ScopesOf(curr_func[k])'
  BY <1>1, <1>2, <1>3, <1>4, <1>5
<1>7. next = {} <=> ScopesAfter(Op, levels) = {}
  BY <1>1
<1>8. Len(fp') = IF ScopesAt(n)' = {} THEN n - 1 ELSE n
  BY <1>3, <1>7 DEF levels
<1>9. ASSUME NEW k \in 1 .. Len(fp')
      PROVE  Placed(ScopesAt(k)', fp'[k], Ceiling(k)', allocations', Len(data_stack'))
  <2>1. CASE k = n
    <3>1. next # {} /\ 0 \in next
      BY <2>1, <1>1, <1>3, <1>8 DEF IsScopes
    <3>2. Placed(ScopesAfter(Op, levels), fp'[k], Ceiling(k)', allocations', Len(data_stack'))
      BY <2>1 DEF levels
    <3>3. Placed(next, fp'[k], Ceiling(k)', allocations', Len(data_stack'))
      BY <3>1, <3>2, <1>1, PlacedKeeps
    <3> QED BY <3>3, <2>1, <1>3
  <2>2. CASE k # n
    <3>1. k \in 1 .. n - 1
      BY <2>2, <1>1, <1>8
    <3> QED BY <2>2, <3>1, <1>4
  <2> QED BY <2>1, <2>2
<1> QED BY <1>1, <1>2, <1>4, <1>5, <1>6, <1>8, <1>9 DEF FramesPlaced

\* A step that leaves the frames and the blocks as they are.
LEMMA PlainStep ==
  ASSUME ProgramsScoped, MemoryInv, Running,
         UNCHANGED <<ir, fp, allocations, freeing, ip_stack, curr_func>>,
         IsSequence(data_stack)', Len(data_stack') = Len(data_stack),
         Op.op \notin {"STACK_FRAME_PUSH", "STACK_FRAME_POP", "ALLOC", "FREE"},
         status' = "running" => ip' \in Follows(Code, ip)
  PROVE  MemoryInv'
<1> DEFINE n == Len(curr_func)
           levels == ScopesAt(n)
<1>1. ScopesAfter(Op, levels) = levels
  BY DEF ScopesAfter
<1>2. FramesPlaced /\ MemoryShape /\ Tiles(allocations, Len(data_stack)) /\ FramesNest
  BY DEF MemoryInv, Running
<1>3. MemoryShape'
  BY <1>2 DEF MemoryShape
<1>4. FramesNest'
  BY <1>2 DEF FramesNest
<1>5. Words' = Words /\ \A k : Ceiling(k)' = Ceiling(k)
  BY DEF Words, Ceiling
<1>6. /\ Len(fp) = IF levels = {} THEN n - 1 ELSE n
      /\ fp # <<>> => fp[1] = 0
      /\ fp = <<>> => Words = 0
      /\ \A k \in 1 .. Len(fp) :
           /\ fp[k] <= Words
           /\ Placed(ScopesAt(k), fp[k], Ceiling(k), allocations, Len(data_stack))
  BY <1>2 DEF FramesPlaced
<1>7. \A k : (IF k = n THEN ScopesAfter(Op, ScopesAt(k)) ELSE ScopesAt(k)) = ScopesAt(k)
  BY <1>1
<1>8. \A k \in 1 .. Len(fp') :
        /\ fp'[k] <= Words'
        /\ Placed(IF k = n THEN ScopesAfter(Op, ScopesAt(k)) ELSE ScopesAt(k),
                  fp'[k], Ceiling(k)', allocations', Len(data_stack'))
  BY <1>5, <1>6, <1>7
<1> HIDE DEF levels
<1> QED BY <1>1, <1>2, <1>3, <1>4, <1>5, <1>6, <1>8, StepInCall DEF levels

\* The opcodes that only work on the operands, the globals and the words of the
\* variables, and those that go to another place of their function.
LEMMA PlainActions ==
  ASSUME ProgramsScoped, MemoryInv,
         \/ Nop \/ Binary \/ Unary \/ PushConstant \/ PushVariable \/ Discard \/ Clone
         \/ SetupGlobal \/ Load \/ Store \/ Jump \/ JumpIf \/ CallExternal \/ Invalid
  PROVE  MemoryInv'
<1>1. /\ Running
      /\ Op.op \notin {"STACK_FRAME_PUSH", "STACK_FRAME_POP", "ALLOC", "FREE", "RET"}
  BY DEF Fetch, Running, Nop, Binary, Unary, PushConstant, PushVariable, Discard, Clone,
         SetupGlobal, Load, Store, Jump, JumpIf, CallExternal, Invalid, BinaryOps, UnaryOps
<1>2. UNCHANGED <<ir, fp, allocations, freeing, ip_stack, curr_func>>
  BY DEF Nop, Binary, Unary, PushConstant, PushVariable, Discard, Clone, SetupGlobal, Load,
         Store, Jump, JumpIf, CallExternal, Invalid, OperandsOnly, frameVars, callVars
<1>3. IsSequence(data_stack)' /\ Len(data_stack') = Len(data_stack)
  <2>1. IsSequence(data_stack)
    BY DEF MemoryInv, MemoryShape
  <2>2. CASE UNCHANGED data_stack
    BY <2>1, <2>2 DEF IsSequence
  <2>3. ASSUME NEW i, NEW v, data_stack' = [data_stack EXCEPT ![i] = v]
        PROVE  IsSequence(data_stack)' /\ Len(data_stack') = Len(data_stack)
    <3>1. PICK S : data_stack \in Seq(S)
      BY <2>1 DEF IsSequence
    <3>2. data_stack' \in Seq(S \cup {v}) /\ Len(data_stack') = Len(data_stack)
      <4> DEFINE T == S \cup {v}
      <4>1. data_stack \in [1 .. Len(data_stack) -> S] /\ Len(data_stack) \in Nat
        BY <3>1, LenProperties
      <4>2. data_stack' \in [1 .. Len(data_stack) -> T]
        BY <2>3, <4>1
      <4> HIDE DEF T
      <4>3. data_stack' \in Seq(T)
        BY <4>1, <4>2, SeqDef
      <4>4. Len(data_stack') = Len(data_stack)
        BY <4>1, <4>2, <4>3, LenProperties
      <4> QED BY <4>3, <4>4 DEF T
    <3> QED BY <3>2 DEF IsSequence
  <2>4. UNCHANGED data_stack \/ \E i, v : data_stack' = [data_stack EXCEPT ![i] = v]
    <3>1. CASE Store
      BY <3>1 DEF Store
    <3>2. CASE ~Store
      BY <3>2 DEF Nop, Binary, Unary, PushConstant, PushVariable, Discard, Clone, SetupGlobal,
                  Load, Jump, JumpIf, CallExternal, Invalid, OperandsOnly, frameVars
    <3> QED BY <3>1, <3>2
  <2> QED BY <2>2, <2>3, <2>4
<1>4. status' = "running" => ip' \in Follows(Code, ip)
  <2>1. Execute /\ ~Call /\ ~Ret
    BY <1>1 DEF Execute, Call, Ret, CallExternal, Fetch, Nop, Binary, Unary, PushConstant,
                PushVariable, Discard, Clone, SetupGlobal, Load, Store, Jump, JumpIf, Invalid,
                BinaryOps, UnaryOps
  <2> QED BY <2>1, <1>1, GoesOn, Fetched
<1> QED BY <1>1, <1>2, <1>3, <1>4, PlainStep

\* What the frames are before a step of a running call, in the words of StepInCall.
LEMMA FramesBefore ==
  ASSUME ProgramsScoped, MemoryInv, Running
  PROVE  LET n == Len(curr_func)
             levels == ScopesAt(n)
         IN  /\ fp \in Seq(Nat) /\ allocations \in Seq(Blocks) /\ IsSequence(data_stack)
             /\ Len(data_stack) \in Nat /\ Len(fp) \in Nat /\ n \in Nat /\ n >= 1
             /\ Words = Len(data_stack)
             /\ Tiles(allocations, Len(data_stack))
             /\ IsScopes(levels)
             /\ Len(fp) = IF levels = {} THEN n - 1 ELSE n
             /\ \A k \in 1 .. Len(fp) :
                  /\ fp[k] \in Nat /\ fp[k] <= Len(data_stack)
                  /\ Placed(ScopesAt(k), fp[k],
                            IF k = Len(fp) THEN Len(data_stack) ELSE fp[k + 1],
                            allocations, Len(data_stack))
                  /\ 0 \in ScopesAt(k)
             /\ \A j, k \in 1 .. Len(fp) : j < k => fp[j] <= fp[k]
             /\ fp # <<>> => fp[1] = 0
             /\ fp = <<>> => Len(data_stack) = 0
             /\ Len(ip_stack) + 1 = n
<1> DEFINE n == Len(curr_func)
           levels == ScopesAt(n)
<1>1. FramesPlaced /\ MemoryShape /\ Tiles(allocations, Len(data_stack)) /\ FramesNest /\ freeing = 0
  BY DEF MemoryInv, Running
<1>2. n \in Nat /\ n >= 1 /\ IsScopes(levels)
  BY Fetched
<1>3. /\ fp \in Seq(Nat) /\ allocations \in Seq(Blocks) /\ IsSequence(data_stack)
      /\ Len(fp) \in Nat /\ \A k \in 1 .. Len(fp) : fp[k] \in Nat
  BY <1>1 DEF MemoryShape
<1>4. Len(data_stack) \in Nat
  BY <1>3 DEF IsSequence
<1>5. Words = Len(data_stack)
  BY <1>1, <1>4 DEF Words
<1>6. /\ Len(fp) = IF levels = {} THEN n - 1 ELSE n
      /\ fp # <<>> => fp[1] = 0
      /\ fp = <<>> => Len(data_stack) = 0
      /\ \A k \in 1 .. Len(fp) :
           /\ fp[k] <= Len(data_stack)
           /\ Placed(ScopesAt(k), fp[k], Ceiling(k), allocations, Len(data_stack))
  BY <1>1, <1>5 DEF FramesPlaced
<1>7. \A k : Ceiling(k) = IF k = Len(fp) THEN Len(data_stack) ELSE fp[k + 1]
  BY <1>5 DEF Ceiling
<1>8. \A k \in 1 .. Len(fp) : 0 \in ScopesAt(k)
  BY <1>1, ScopesOfCalls
<1>9. Len(ip_stack) + 1 = n /\ \A j, k \in 1 .. Len(fp) : j < k => fp[j] <= fp[k]
  BY <1>1 DEF FramesNest, MemoryShape
<1> HIDE DEF levels, n
<1>10. \A k \in 1 .. Len(fp) :
         Placed(ScopesAt(k), fp[k], IF k = Len(fp) THEN Len(data_stack) ELSE fp[k + 1],
                allocations, Len(data_stack))
  BY <1>6, <1>7
<1> QED BY <1>1, <1>2, <1>3, <1>4, <1>5, <1>6, <1>8, <1>9, <1>10 DEF levels, n

\* Words appended.
LEMMA LongerStack ==
  ASSUME IsSequence(data_stack), NEW size \in Nat,
         data_stack' = data_stack \o [i \in 1 .. size |-> 0]
  PROVE  IsSequence(data_stack)' /\ Len(data_stack') = Len(data_stack) + size
<1>1. PICK S : data_stack \in Seq(S)
  BY DEF IsSequence
<1> DEFINE T == S \cup {0}
           zeros == [i \in 1 .. size |-> 0]
<1>2. data_stack \in Seq(T)
  BY <1>1, SeqMonotonic
<1>3. zeros \in Seq(T) /\ Len(zeros) = size
  <2>1. zeros \in Seq(T)
    BY SeqDef
  <2> QED BY <2>1, LenProperties
<1> HIDE DEF T, zeros
<1>4. data_stack' \in Seq(T) /\ Len(data_stack') = Len(data_stack) + size
  BY <1>2, <1>3, ConcatProperties DEF zeros
<1> QED BY <1>4 DEF IsSequence

LEMMA AllocStep == ASSUME ProgramsScoped, MemoryInv, Alloc PROVE MemoryInv'
<1> DEFINE n == Len(curr_func)
           levels == ScopesAt(n)
           m == Len(data_stack)
           size == Op.arg
           more == Push(allocations, [start |-> m, size |-> size, name |-> Op.name])
           wider == levels \cup {TopLevel(levels) + size}
<1>1. Running /\ Op.op = "ALLOC"
  BY DEF Alloc, Fetch, Running
<1>2. /\ UNCHANGED <<ir, fp, freeing, ip_stack, curr_func>>
      /\ allocations' = more
      /\ data_stack' = data_stack \o [i \in 1 .. size |-> 0]
      /\ ip' = ip + 1 /\ freeing = 0
  BY DEF Alloc, Advance, callVars, Fetch
<1>3. /\ Op.name \in STRING /\ levels # {} /\ size \in Nat
      /\ ScopesAfter(Op, levels) = wider
  BY <1>1, Fetched DEF ScopesAllow, ScopesAfter, Opcodes
<1>4. ip' \in Follows(Code, ip)
  BY <1>1, <1>2 DEF Follows, Op
<1> HIDE DEF n, levels, size
<1>5. /\ fp \in Seq(Nat) /\ allocations \in Seq(Blocks) /\ m \in Nat
      /\ n \in Nat /\ n >= 1 /\ Len(fp) = n
      /\ Tiles(allocations, m) /\ IsScopes(levels) /\ IsSequence(data_stack)
  BY <1>1, <1>3, FramesBefore DEF n, levels
<1>6. IsSequence(data_stack)' /\ Len(data_stack') = m + size
  BY <1>2, <1>3, <1>5, LongerStack
<1> HIDE DEF m
<1>7. /\ more \in Seq(Blocks) /\ Tiles(more, m + size)
      /\ \A b : Boundary(allocations, m, b) => Boundary(more, m + size, b)
  BY <1>3, <1>5, TilesPushed
<1> HIDE DEF more
<1>8. MemoryShape'
  <2>1. MemoryShape
    BY DEF MemoryInv
  <2> QED BY <2>1, <1>2, <1>3, <1>5, <1>6, <1>7 DEF MemoryShape
<1>9. Words' = m + size
  BY <1>2, <1>3, <1>5, <1>6 DEF Words
<1>10. \A k : Ceiling(k)' = IF k = Len(fp) THEN m + size ELSE fp[k + 1]
  BY <1>2, <1>9 DEF Ceiling
<1>11. FramesNest'
  <2>1. FramesNest
    BY DEF MemoryInv
  <2>2. fp # <<>> /\ Peek(fp) <= m /\ Peek(fp) \in Nat
    <3>1. fp # <<>>
      BY <1>5
    <3>2. Peek(fp) <= m
      BY <2>1, <3>1, <1>2 DEF FramesNest, m
    <3> QED BY <3>1, <3>2, <1>5, PoppedStack
  <2>3. Peek(fp)' <= Len(data_stack')
    BY <2>2, <1>2, <1>3, <1>5, <1>6 DEF Peek
  <2> QED BY <2>1, <2>3, <1>2 DEF FramesNest
<1>12. ASSUME NEW k \in 1 .. Len(fp')
       PROVE  /\ fp'[k] <= Words'
              /\ Placed(IF k = n THEN ScopesAfter(Op, ScopesAt(k)) ELSE ScopesAt(k),
                        fp'[k], Ceiling(k)', allocations', Len(data_stack'))
  <2>1. /\ fp[k] \in Nat /\ fp[k] <= m /\ 0 \in ScopesAt(k)
        /\ Placed(ScopesAt(k), fp[k], IF k = Len(fp) THEN m ELSE fp[k + 1], allocations, m)
    BY <1>1, <1>2, FramesBefore DEF m
  <2>2. fp'[k] <= Words'
    BY <2>1, <1>2, <1>3, <1>5, <1>9
  <2>3. CASE k = n
    <3>1. Placed(levels, fp[k], m, allocations, m) /\ Ceiling(k)' = m + size
      BY <2>1, <2>3, <1>5, <1>10 DEF levels
    <3>2. Placed(wider, fp[k], m + size, more, m + size)
      BY <3>1, <1>3, <1>5, <1>7, PlacedAlloc
    <3> QED BY <3>1, <3>2, <2>2, <2>3, <1>2, <1>3, <1>6 DEF levels
  <2>4. CASE k # n
    <3>1. /\ Placed(ScopesAt(k), fp[k], fp[k + 1], allocations, m)
          /\ Ceiling(k)' = fp[k + 1]
      BY <2>1, <2>4, <1>5, <1>10
    <3>2. Placed(ScopesAt(k), fp[k], fp[k + 1], more, m + size)
      <4> DEFINE same == ScopesAt(k)
                 top == fp[k + 1]
                 base == fp[k]
      <4> HIDE DEF same, top, base
      <4>1. Placed(same, base, top, allocations, m) /\ 0 \in same
        BY <3>1, <2>1 DEF same, top, base
      <4>2. \A x \in Nat : Boundary(allocations, m, x) /\ x <= top =>
              Boundary(more, m + size, x) /\ x <= top
        BY <1>7
      <4>3. Placed(same, base, top, more, m + size)
        BY <4>1, <4>2, PlacedKeeps
      <4> QED BY <4>3 DEF same, top, base
    <3> QED BY <3>1, <3>2, <2>2, <2>4, <1>2, <1>6
  <2> QED BY <2>3, <2>4
<1>13. Tiles(allocations, Len(data_stack))'
  BY <1>2, <1>6, <1>7
<1>14. /\ fp' # <<>> /\ fp'[1] = 0
       /\ wider # {}
  BY <1>1, <1>2, <1>5, FramesBefore
<1>15. Len(fp') = IF ScopesAfter(Op, ScopesAt(Len(curr_func))) = {}
                    THEN Len(curr_func) - 1 ELSE Len(curr_func)
  BY <1>2, <1>3, <1>5, <1>14 DEF n, levels
<1>16. \A k \in 1 .. Len(fp') :
         /\ fp'[k] <= Words'
         /\ Placed(IF k = Len(curr_func) THEN ScopesAfter(Op, ScopesAt(k)) ELSE ScopesAt(k),
                   fp'[k], Ceiling(k)', allocations', Len(data_stack'))
  BY <1>12 DEF n
<1>17. UNCHANGED <<ir, ip_stack, curr_func>>
  BY <1>2
<1> QED BY <1>1, <1>17, <1>4, <1>8, <1>11, <1>13, <1>14, <1>15, <1>16, StepInCall

LEMMA FreeStep == ASSUME ProgramsScoped, MemoryInv, Free PROVE MemoryInv'
<1> DEFINE n == Len(curr_func)
           levels == ScopesAt(n)
           m == Len(data_stack)
           size == Op.arg
           fewer == {l \in levels : l <= TopLevel(levels) - size}
<1>1. Running /\ Op.op = "FREE"
  BY DEF Free, Fetch, Running
<1>2. /\ UNCHANGED <<ir, fp, data_stack, allocations, ip_stack, curr_func>>
      /\ freeing' = size /\ ip' = ip + 1 /\ freeing = 0
  BY DEF Free, Advance, callVars, Fetch
<1>3. /\ levels # {} /\ size \in Nat /\ TopLevel(levels) - size \in levels
      /\ ScopesAfter(Op, levels) = fewer
  BY <1>1, Fetched DEF ScopesAllow, ScopesAfter
<1>4. ip' \in Follows(Code, ip)
  BY <1>1, <1>2 DEF Follows, Op
<1> HIDE DEF n, levels, size
<1>5. /\ m \in Nat /\ n \in Nat /\ n >= 1 /\ Len(fp) = n
      /\ Tiles(allocations, m) /\ IsScopes(levels) /\ fp \in Seq(Nat)
      /\ 0 \in fewer
  <2>1. /\ m \in Nat /\ n \in Nat /\ n >= 1 /\ Len(fp) = n
        /\ Tiles(allocations, m) /\ IsScopes(levels) /\ fp \in Seq(Nat)
    BY <1>1, <1>3, FramesBefore DEF n, levels
  <2>2. 0 \in levels /\ TopLevel(levels) \in Nat
    BY <2>1, <1>3, TopOfLevels DEF IsScopes
  <2>3. TopLevel(levels) - size \in Nat
    BY <2>1, <1>3 DEF IsScopes
  <2> QED BY <2>1, <2>2, <2>3
<1> HIDE DEF m
<1>6. n \in 1 .. Len(fp) /\ Placed(levels, fp[n], m, allocations, m)
  <2>1. n \in 1 .. Len(fp)
    BY <1>5
  <2> QED BY <1>1, <1>5, <2>1, FramesBefore DEF m, levels
<1>7. size <= m /\ Placed(fewer, fp[n], m - size, allocations, m)
  <2> DEFINE base == fp[n]
  <2> HIDE DEF base
  <2>1. Placed(levels, base, m, allocations, m)
    BY <1>6 DEF base
  <2>2. size <= m /\ Placed(fewer, base, m - size, allocations, m)
    <3> DEFINE some == fewer
    <3> HIDE DEF some
    <3>1. some = {l \in levels : l <= TopLevel(levels) - size}
      BY DEF some
    <3>2. size <= m /\ Placed(some, base, m - size, allocations, m)
      BY <2>1, <3>1, <1>3, <1>5, PlacedFree
    <3> QED BY <3>2 DEF some
  <2> QED BY <2>2 DEF base
<1>8. Words' = m - size
  BY <1>2 DEF Words, m
<1>9. fp[n] <= m - size
  <2>1. 0 \in fewer
    BY <1>5
  <2> HIDE DEF fewer
  <2>2. PICK place \in [fewer -> Nat] :
          place[0] = fp[n] /\ \A l \in fewer : place[l] <= m - size
    BY <1>7 DEF Placed
  <2> QED BY <2>1, <2>2
<1>10. MemoryShape'
  <2>1. MemoryShape
    BY DEF MemoryInv
  <2> QED BY <2>1, <1>2, <1>3, <1>7 DEF MemoryShape, m
<1>11. \A k : Ceiling(k)' = IF k = Len(fp) THEN m - size ELSE fp[k + 1]
  BY <1>2, <1>8 DEF Ceiling
<1>12. FramesNest'
  <2>1. FramesNest
    BY DEF MemoryInv
  <2>2. Peek(fp)' <= Len(data_stack')
    <3>1. fp # <<>> /\ Peek(fp) <= m
      BY <2>1, <1>2, <1>5 DEF FramesNest, m
    <3> QED BY <3>1, <1>2 DEF Peek, m
  <2> QED BY <2>1, <2>2, <1>2 DEF FramesNest
<1>13. ASSUME NEW k \in 1 .. Len(fp')
       PROVE  /\ fp'[k] <= Words'
              /\ Placed(IF k = n THEN ScopesAfter(Op, ScopesAt(k)) ELSE ScopesAt(k),
                        fp'[k], Ceiling(k)', allocations', Len(data_stack'))
  <2>1. k \in 1 .. Len(fp) /\ fp[k] \in Nat /\ fp[n] \in Nat
    BY <1>2, <1>5
  <2>2. Placed(ScopesAt(k), fp[k], IF k = Len(fp) THEN m ELSE fp[k + 1], allocations, m)
    BY <1>1, <2>1, FramesBefore DEF m
  <2>3. fp[k] <= fp[n]
    <3>1. k < n => fp[k] <= fp[n]
      BY <1>1, <1>6, <2>1, FramesBefore
    <3> QED BY <3>1, <2>1, <1>5
  <2>4. fp'[k] <= Words'
    BY <2>1, <2>3, <1>2, <1>3, <1>5, <1>8, <1>9
  <2>5. CASE k = n
    <3>1. Ceiling(k)' = m - size
      BY <2>5, <1>5, <1>11
    <3> QED BY <3>1, <2>4, <2>5, <1>2, <1>3, <1>7 DEF levels, m
  <2>6. CASE k # n
    <3>1. Ceiling(k)' = fp[k + 1]
      BY <2>6, <1>5, <1>11
    <3>2. Placed(ScopesAt(k), fp[k], fp[k + 1], allocations, m)
      BY <2>2, <2>6, <1>5
    <3> QED BY <3>1, <3>2, <2>4, <2>6, <1>2 DEF m
  <2> QED BY <2>5, <2>6
<1>14. /\ fp' # <<>> /\ fp'[1] = 0
       /\ fewer # {}
  <2>1. fp # <<>> /\ 0 \in fewer
    BY <1>5
  <2> QED BY <1>1, <1>2, <2>1, FramesBefore
<1>15. Len(fp') = IF ScopesAfter(Op, ScopesAt(Len(curr_func))) = {}
                    THEN Len(curr_func) - 1 ELSE Len(curr_func)
  BY <1>2, <1>3, <1>5, <1>14 DEF n, levels
<1>16. \A k \in 1 .. Len(fp') :
         /\ fp'[k] <= Words'
         /\ Placed(IF k = Len(curr_func) THEN ScopesAfter(Op, ScopesAt(k)) ELSE ScopesAt(k),
                   fp'[k], Ceiling(k)', allocations', Len(data_stack'))
  BY <1>13 DEF n
<1>17. UNCHANGED <<ir, ip_stack, curr_func>> /\ Tiles(allocations, Len(data_stack))'
  BY <1>2, <1>5 DEF m
<1> QED BY <1>1, <1>17, <1>4, <1>10, <1>12, <1>14, <1>15, <1>16, StepInCall

LEMMA FramePushStep == ASSUME ProgramsScoped, MemoryInv, FramePush PROVE MemoryInv'
<1> DEFINE n == Len(curr_func)
           levels == ScopesAt(n)
           m == Len(data_stack)
           more == Push(fp, m)
<1>1. Running /\ Op.op = "STACK_FRAME_PUSH"
  BY DEF FramePush, Fetch, Running
<1>2. /\ UNCHANGED <<ir, freeing, data_stack, allocations, ip_stack, curr_func>>
      /\ fp' = more /\ ip' = ip + 1 /\ freeing = 0
  BY DEF FramePush, Advance, callVars, Fetch
<1>3. levels = {} /\ ScopesAfter(Op, levels) = {0}
  BY <1>1, Fetched DEF ScopesAllow, ScopesAfter
<1>4. ip' \in Follows(Code, ip)
  BY <1>1, <1>2 DEF Follows, Op
<1> HIDE DEF n, levels
<1>5. /\ m \in Nat /\ n \in Nat /\ n >= 1 /\ Len(fp) = n - 1
      /\ Tiles(allocations, m) /\ fp \in Seq(Nat)
  BY <1>1, <1>3, FramesBefore DEF n, levels
<1> HIDE DEF m
<1>6. /\ more \in Seq(Nat) /\ more # <<>> /\ Len(more) = n /\ more[n] = m /\ Peek(more) = m
      /\ \A k \in 1 .. n - 1 : more[k] = fp[k]
  <2>1. /\ more \in Seq(Nat) /\ more # <<>> /\ Len(more) = Len(fp) + 1
        /\ more[Len(fp) + 1] = m /\ Peek(more) = m
        /\ \A k \in 1 .. Len(fp) : more[k] = fp[k]
    BY <1>5 DEF Push, Peek
  <2> HIDE DEF more
  <2> QED BY <2>1, <1>5
<1> HIDE DEF more
<1>7. Words' = m
  BY <1>2, <1>5 DEF Words, m
<1>8. \A k \in 1 .. n - 1 :
        /\ fp[k] \in Nat /\ fp[k] <= m
        /\ Placed(ScopesAt(k), fp[k], IF k = Len(fp) THEN m ELSE fp[k + 1], allocations, m)
  BY <1>1, <1>5, FramesBefore DEF m
<1>9. MemoryShape'
  <2>1. MemoryShape
    BY DEF MemoryInv
  <2>2. ASSUME NEW j \in 1 .. Len(fp'), NEW k \in 1 .. Len(fp'), j < k
        PROVE  fp'[j] <= fp'[k]
    <3>1. j \in 1 .. n - 1
      BY <2>2, <1>2, <1>6, <1>5
    <3>2. CASE k = n
      BY <3>1, <3>2, <1>2, <1>6, <1>8
    <3>3. CASE k # n
      <4>1. k \in 1 .. n - 1
        BY <3>3, <1>2, <1>6, <1>5
      <4>2. fp[j] <= fp[k]
        BY <3>1, <4>1, <2>2, <2>1, <1>5 DEF MemoryShape
      <4> QED BY <3>1, <4>1, <4>2, <1>2, <1>6
    <3> QED BY <3>2, <3>3
  <2> QED BY <2>1, <2>2, <1>2, <1>6 DEF MemoryShape
<1>10. FramesNest'
  <2>1. Len(ip_stack)' + 1 = Len(curr_func)'
    BY <1>2 DEF MemoryInv, FramesNest
  <2>2. Len(fp') \in {Len(curr_func') - 1, Len(curr_func')}
    BY <1>2, <1>6 DEF n
  <2>3. Peek(fp') <= Len(data_stack')
    BY <1>2, <1>5, <1>6 DEF m
  <2>4. \A i \in 1 .. Len(fp') - 1 : fp'[i] <= fp'[i + 1]
    <3> TAKE i \in 1 .. Len(fp') - 1
    <3>1. i \in 1 .. Len(fp') /\ i + 1 \in 1 .. Len(fp') /\ i < i + 1
      BY <1>2, <1>5, <1>6
    <3> QED BY <3>1, <1>9 DEF MemoryShape
  <2>5. Peek(fp)' = Peek(fp')
    BY DEF Peek
  <2> QED BY <2>1, <2>2, <2>3, <2>4, <2>5 DEF FramesNest
<1>11. ASSUME NEW k \in 1 .. Len(fp')
       PROVE  /\ fp'[k] <= Words'
              /\ Placed(IF k = n THEN ScopesAfter(Op, ScopesAt(k)) ELSE ScopesAt(k),
                        fp'[k], Ceiling(k)', allocations', Len(data_stack'))
  <2>1. CASE k = n
    <3>1. fp'[k] = m /\ Ceiling(k)' = m
      BY <2>1, <1>2, <1>6, <1>7 DEF Ceiling
    <3>2. Placed({0}, m, m, allocations, m)
      <4> DEFINE place == [l \in {0} |-> m]
      <4>1. place \in [{0} -> Nat] /\ place[0] = m
        BY <1>5
      <4>2. \A l \in {0} : Boundary(allocations, m, place[l]) /\ place[l] <= m
        BY <1>5 DEF Boundary
      <4>3. \A l, j \in {0} : l <= j => j - l <= place[j] - place[l]
        BY <1>5
      <4> HIDE DEF place
      <4> QED BY <4>1, <4>2, <4>3 DEF Placed
    <3>3. ScopesAfter(Op, ScopesAt(k)) = {0}
      BY <2>1, <1>3 DEF levels
    <3>4. Placed(ScopesAfter(Op, ScopesAt(k)), fp'[k], Ceiling(k)', allocations', Len(data_stack'))
      BY <3>1, <3>2, <3>3, <1>2 DEF m
    <3> QED BY <3>1, <3>4, <2>1, <1>5, <1>7
  <2>2. CASE k # n
    <3>1. k \in 1 .. n - 1
      BY <2>2, <1>2, <1>6, <1>5
    <3>2. fp'[k] = fp[k] /\ fp'[k] <= Words'
      BY <3>1, <1>2, <1>6, <1>7, <1>8
    <3>3. Ceiling(k)' = IF k = Len(fp) THEN m ELSE fp[k + 1]
      <4>1. k + 1 \in 1 .. n - 1 \/ k + 1 = n
        BY <3>1, <1>5
      <4> QED BY <4>1, <3>1, <1>2, <1>5, <1>6 DEF Ceiling
    <3>4. Placed(ScopesAt(k), fp[k], IF k = Len(fp) THEN m ELSE fp[k + 1], allocations, m)
      BY <3>1, <1>8
    <3> QED BY <3>2, <3>3, <3>4, <2>2, <1>2 DEF m
  <2> QED BY <2>1, <2>2
<1>12. fp' # <<>> /\ fp'[1] = 0
  <2>1. CASE n = 1
    <3>1. fp = <<>>
      BY <2>1, <1>5
    <3>2. m = 0
      BY <3>1, <1>1, FramesBefore DEF m
    <3> QED BY <3>2, <2>1, <1>2, <1>6
  <2>2. CASE n # 1
    <3>1. fp # <<>> /\ 1 \in 1 .. n - 1
      BY <2>2, <1>5
    <3>2. fp[1] = 0
      BY <3>1, <1>1, FramesBefore
    <3> QED BY <3>1, <3>2, <1>2, <1>6
  <2> QED BY <2>1, <2>2
<1>13. Len(fp') = IF ScopesAfter(Op, ScopesAt(Len(curr_func))) = {}
                    THEN Len(curr_func) - 1 ELSE Len(curr_func)
  BY <1>2, <1>3, <1>6 DEF n, levels
<1>14. \A k \in 1 .. Len(fp') :
         /\ fp'[k] <= Words'
         /\ Placed(IF k = Len(curr_func) THEN ScopesAfter(Op, ScopesAt(k)) ELSE ScopesAt(k),
                   fp'[k], Ceiling(k)', allocations', Len(data_stack'))
  BY <1>11 DEF n
<1>15. UNCHANGED <<ir, ip_stack, curr_func>> /\ Tiles(allocations, Len(data_stack))'
  BY <1>2, <1>5 DEF m
<1> QED BY <1>1, <1>15, <1>4, <1>9, <1>10, <1>12, <1>13, <1>14, StepInCall

LEMMA FramePopStep == ASSUME ProgramsScoped, MemoryInv, FramePop PROVE MemoryInv'
<1> DEFINE n == Len(curr_func)
           levels == ScopesAt(n)
           m == Len(data_stack)
           rest == Pop(fp)
<1>1. Running /\ Op.op = "STACK_FRAME_POP"
  BY DEF FramePop, Fetch, Running
<1>2. /\ UNCHANGED <<ir, data_stack, allocations, ip_stack, curr_func>>
      /\ fp' = rest /\ ip' = ip + 1 /\ freeing = 0 /\ freeing' = m - Peek(fp)
  BY DEF FramePop, Advance, callVars, Fetch
<1>3. levels # {} /\ ScopesAfter(Op, levels) = {}
  BY <1>1, Fetched DEF ScopesAllow, ScopesAfter
<1>4. ip' \in Follows(Code, ip)
  BY <1>1, <1>2 DEF Follows, Op
<1> HIDE DEF n, levels
<1>5. /\ m \in Nat /\ n \in Nat /\ n >= 1 /\ Len(fp) = n
      /\ Tiles(allocations, m) /\ fp \in Seq(Nat) /\ fp # <<>>
  BY <1>1, <1>3, FramesBefore DEF n, levels
<1> HIDE DEF m
<1>6. /\ rest \in Seq(Nat) /\ Len(rest) = n - 1 /\ Peek(fp) = fp[n]
      /\ \A k \in 1 .. n - 1 : rest[k] = fp[k]
  BY <1>5, PoppedStack
<1> HIDE DEF rest
<1>7. \A k \in 1 .. n :
        /\ fp[k] \in Nat /\ fp[k] <= m
        /\ Placed(ScopesAt(k), fp[k], IF k = Len(fp) THEN m ELSE fp[k + 1], allocations, m)
  BY <1>1, <1>5, FramesBefore DEF m
<1>8. \A j, k \in 1 .. n : j < k => fp[j] <= fp[k]
  BY <1>1, <1>5, FramesBefore
<1>9. fp[n] \in Nat /\ fp[n] <= m /\ Words' = fp[n]
  BY <1>2, <1>5, <1>6, <1>7 DEF Words, m
<1>10. MemoryShape'
  <2>1. MemoryShape
    BY DEF MemoryInv
  <2>2. freeing' \in Nat /\ freeing' <= m
    BY <1>2, <1>5, <1>6, <1>9
  <2>3. \A j, k \in 1 .. Len(fp') : j < k => fp'[j] <= fp'[k]
    BY <1>2, <1>5, <1>6, <1>8
  <2> QED BY <2>1, <2>2, <2>3, <1>2, <1>6 DEF MemoryShape, m
<1>11. FramesNest'
  <2>1. Len(ip_stack)' + 1 = Len(curr_func)'
    BY <1>2 DEF MemoryInv, FramesNest
  <2>2. Len(fp') \in {Len(curr_func') - 1, Len(curr_func')}
    BY <1>2, <1>6 DEF n
  <2>3. ASSUME fp' # <<>> PROVE Peek(fp)' <= Len(data_stack')
    <3>1. Len(rest) \in 1 .. n /\ Len(rest) \in 1 .. n - 1
      BY <2>3, <1>2, <1>5, <1>6
    <3>2. Peek(fp)' = fp[Len(rest)]
      BY <2>3, <3>1, <1>2, <1>6 DEF Peek
    <3> QED BY <3>1, <3>2, <1>2, <1>7 DEF m
  <2>4. \A i \in 1 .. Len(fp') - 1 : fp'[i] <= fp'[i + 1]
    <3> TAKE i \in 1 .. Len(fp') - 1
    <3>1. i \in 1 .. Len(fp') /\ i + 1 \in 1 .. Len(fp') /\ i < i + 1
      BY <1>2, <1>5, <1>6
    <3> QED BY <3>1, <1>10 DEF MemoryShape
  <2> QED BY <2>1, <2>2, <2>3, <2>4 DEF FramesNest
<1>12. ASSUME NEW k \in 1 .. Len(fp')
       PROVE  /\ fp'[k] <= Words'
              /\ Placed(IF k = n THEN ScopesAfter(Op, ScopesAt(k)) ELSE ScopesAt(k),
                        fp'[k], Ceiling(k)', allocations', Len(data_stack'))
  <2>1. k \in 1 .. n - 1 /\ k \in 1 .. n /\ n \in 1 .. n /\ k < n /\ fp'[k] = fp[k]
    BY <1>2, <1>5, <1>6
  <2>2. fp'[k] <= Words'
    BY <2>1, <1>8, <1>9
  <2>3. Ceiling(k)' = fp[k + 1]
    <3>1. CASE k = n - 1
      BY <3>1, <2>1, <1>2, <1>5, <1>6, <1>9 DEF Ceiling
    <3>2. CASE k # n - 1
      <4>1. k + 1 \in 1 .. n - 1
        BY <3>2, <2>1, <1>5
      <4> QED BY <4>1, <3>2, <1>2, <1>6 DEF Ceiling
    <3> QED BY <3>1, <3>2
  <2>4. Placed(ScopesAt(k), fp[k], fp[k + 1], allocations, m)
    BY <2>1, <1>5, <1>7
  <2>5. k # n
    BY <2>1, <1>5
  <2> QED BY <2>1, <2>2, <2>3, <2>4, <2>5, <1>2 DEF m
<1>13. /\ fp' # <<>> => fp'[1] = 0
       /\ fp' = <<>> => Words' = 0
  <2>1. fp[1] = 0
    BY <1>1, <1>5, FramesBefore
  <2>2. ASSUME fp' # <<>> PROVE fp'[1] = 0
    <3>1. 1 \in 1 .. n - 1
      BY <2>2, <1>2, <1>5, <1>6
    <3> QED BY <3>1, <2>1, <1>2, <1>6
  <2>3. ASSUME fp' = <<>> PROVE Words' = 0
    <3>1. n = 1
      BY <2>3, <1>2, <1>5, <1>6
    <3> QED BY <3>1, <2>1, <1>9
  <2> QED BY <2>2, <2>3
<1>14. Len(fp') = IF ScopesAfter(Op, ScopesAt(Len(curr_func))) = {}
                    THEN Len(curr_func) - 1 ELSE Len(curr_func)
  BY <1>2, <1>3, <1>6 DEF n, levels
<1>15. \A k \in 1 .. Len(fp') :
         /\ fp'[k] <= Words'
         /\ Placed(IF k = Len(curr_func) THEN ScopesAfter(Op, ScopesAt(k)) ELSE ScopesAt(k),
                   fp'[k], Ceiling(k)', allocations', Len(data_stack'))
  BY <1>12 DEF n
<1>16. UNCHANGED <<ir, ip_stack, curr_func>> /\ Tiles(allocations, Len(data_stack))'
  BY <1>2, <1>5 DEF m
<1> QED BY <1>1, <1>16, <1>4, <1>10, <1>11, <1>13, <1>14, <1>15, StepInCall

\* Giving a block back: the frames stay where they are, in front of what goes.
LEMMA FreeBlockStep == ASSUME ProgramsScoped, MemoryInv, FreeBlock PROVE MemoryInv'
<1> DEFINE n == Len(curr_func)
           m == Len(data_stack)
           r == freeing
           last == Peek(allocations)
           rest == Pop(allocations)
           left == IF last.size > r THEN 0 ELSE r - last.size
<1>1. /\ status = "running" /\ FramesPlaced /\ MemoryShape
      /\ Tiles(allocations, m) /\ FramesNest
  BY DEF FreeBlock, MemoryInv
<1>2. /\ UNCHANGED <<ir, ip, fp, ip_stack, curr_func>>
      /\ freeing # 0
  BY DEF FreeBlock, callVars
<1>3. allocations \in Seq(Blocks) /\ m \in Nat /\ r \in 1 .. m /\ Len(fp) \in Nat
  <2>1. allocations \in Seq(Blocks) /\ fp \in Seq(Nat) /\ IsSequence(data_stack) /\ r \in Nat /\ r <= m
    BY <1>1 DEF MemoryShape
  <2>2. m \in Nat
    BY <2>1 DEF IsSequence
  <2> QED BY <2>1, <2>2, <1>2
<1>4. /\ allocations # <<>> /\ last.start \in 0 .. m /\ last.size \in Nat
      /\ last.start + last.size = m
      /\ rest \in Seq(Blocks) /\ Tiles(rest, last.start)
      /\ left \in 0 .. last.start
      /\ \A b \in Nat : Boundary(allocations, m, b) /\ b <= m - r =>
           Boundary(rest, last.start, b) /\ b <= last.start - left
  <2> HIDE DEF m, r
  <2> QED BY <1>1, <1>3, TilesPopped
<1>5. /\ allocations' = rest /\ freeing' = left
      /\ data_stack' = SubSeq(data_stack, 1, last.start)
  BY <1>3, <1>4 DEF FreeBlock
<1> HIDE DEF left
<1>6. IsSequence(data_stack)' /\ Len(data_stack') = last.start
  <2>1. PICK S : data_stack \in Seq(S)
    BY <1>1 DEF MemoryShape, IsSequence
  <2> DEFINE k == last.start
  <2>2. k \in Nat /\ \A i \in 1 .. k : data_stack[i] \in S
    BY <2>1, <1>3, <1>4
  <2> HIDE DEF k
  <2>3. /\ SubSeq(data_stack, 1, k) \in Seq(S)
        /\ Len(SubSeq(data_stack, 1, k)) = IF 1 <= k THEN k - 1 + 1 ELSE 0
    BY <2>2, SubSeqProperties
  <2>4. Len(SubSeq(data_stack, 1, k)) = k
    BY <2>2, <2>3
  <2> QED BY <2>3, <2>4, <1>5 DEF k, IsSequence
<1> HIDE DEF last, rest
<1>7. Words = m - r /\ Words' = last.start - left /\ Words' \in Nat
  BY <1>4, <1>5, <1>6 DEF Words
<1> HIDE DEF m, r
<1>8. /\ \A k \in 1 .. Len(fp) :
           /\ fp[k] \in Nat /\ fp[k] <= m - r
           /\ Placed(ScopesAt(k), fp[k], Ceiling(k), allocations, m)
           /\ 0 \in ScopesAt(k)
      /\ fp = <<>> => m - r = 0
      /\ Len(fp) \in {n - 1, n} /\ n \in Nat
  <2>1. \A k \in 1 .. Len(fp) : fp[k] \in Nat
    BY <1>1 DEF MemoryShape
  <2>2. (\A k \in 1 .. Len(fp) : 0 \in ScopesAt(k)) /\ Len(fp) \in {n - 1, n} /\ n \in Nat
    BY <1>1, ScopesOfCalls
  <2> QED BY <2>1, <2>2, <1>1, <1>7 DEF FramesPlaced, m
<1>9. ASSUME NEW k \in 1 .. Len(fp)
      PROVE  /\ fp[k] <= last.start - left
             /\ Placed(ScopesAt(k), fp[k], Ceiling(k)', rest, last.start)
  <2> DEFINE levels == ScopesAt(k)
             top == Ceiling(k)
             higher == Ceiling(k)'
             base == fp[k]
  <2>1. Placed(levels, base, top, allocations, m) /\ 0 \in levels /\ base \in Nat /\ base <= m - r
    BY <1>8
  <2>2. base <= last.start - left
    <3> HIDE DEF levels, top, base
    <3>1. PICK place \in [levels -> Nat] :
            place[0] = base /\ Boundary(allocations, m, place[0])
      BY <2>1 DEF Placed
    <3> QED BY <3>1, <2>1, <1>4
  <2>3. \A x \in Nat : Boundary(allocations, m, x) /\ x <= top =>
          Boundary(rest, last.start, x) /\ x <= higher
    <3> SUFFICES ASSUME NEW x \in Nat, Boundary(allocations, m, x), x <= top
                 PROVE  Boundary(rest, last.start, x) /\ x <= higher
      OBVIOUS
    <3>1. CASE k = Len(fp)
      <4>1. top = m - r /\ higher = last.start - left
        BY <3>1, <1>2, <1>7 DEF Ceiling
      <4> QED BY <4>1, <1>4
    <3>2. CASE k # Len(fp)
      <4>1. k + 1 \in 1 .. Len(fp) /\ top = fp[k + 1] /\ higher = fp[k + 1]
        BY <3>2, <1>2, <1>3 DEF Ceiling
      <4>2. x <= m - r
        BY <4>1, <1>3, <1>8
      <4> QED BY <4>1, <4>2, <1>4
    <3> QED BY <3>1, <3>2
  <2>4. Placed(levels, base, higher, rest, last.start)
    <3> HIDE DEF levels, top, higher, base
    <3> QED BY <2>1, <2>3, PlacedKeeps
  <2> QED BY <2>2, <2>4
<1>10. MemoryShape'
  <2>1. freeing' \in Nat /\ freeing' <= Len(data_stack')
    BY <1>4, <1>5, <1>6
  <2> QED BY <2>1, <1>1, <1>2, <1>4, <1>5, <1>6 DEF MemoryShape
<1>11. FramesNest'
  <2>1. ASSUME fp' # <<>>, freeing' = 0
        PROVE  Peek(fp)' <= Len(data_stack')
    <3>1. Len(fp) \in 1 .. Len(fp) /\ Peek(fp)' = fp[Len(fp)]
      <4>1. fp \in Seq(Nat)
        BY <1>1 DEF MemoryShape
      <4> QED BY <4>1, <2>1, <1>2 DEF Peek
    <3>2. fp[Len(fp)] <= last.start - left /\ left = 0
      BY <3>1, <2>1, <1>5, <1>9
    <3> QED BY <3>1, <3>2, <1>4, <1>6
  <2> QED BY <2>1, <1>1, <1>2 DEF FramesNest
<1>12. FramesPlaced'
  <2>1. \A k : CallAt(k)' = CallAt(k) /\ ScopesAt(k)' = ScopesAt(k)
    BY <1>2 DEF CallAt, ScopesAt, ScopesOf
  <2>2. \A f : ScopesOf(f)' = ScopesOf(f)
    BY <1>2 DEF ScopesOf
  <2>3. \A k \in 1 .. Len(fp') :
          /\ fp'[k] <= Words'
          /\ Placed(ScopesAt(k)', fp'[k], Ceiling(k)', allocations', Len(data_stack'))
    BY <2>1, <1>2, <1>5, <1>6, <1>7, <1>9
  <2>4. fp' = <<>> => Words' = 0
    <3> SUFFICES ASSUME fp' = <<>> PROVE Words' = 0
      OBVIOUS
    <3>1. m = r
      BY <1>2, <1>3, <1>8
    <3>2. left = last.start
      BY <3>1, <1>3, <1>4 DEF left
    <3> QED BY <3>2, <1>4, <1>7
  <2>5. /\ curr_func # <<>>
        /\ \A k \in 1 .. n : CallAt(k) \in DOMAIN ScopesOf(curr_func[k])
        /\ \A k \in 1 .. n - 1 : ScopesAt(k) # {}
        /\ Len(fp) = IF ScopesAt(n) = {} THEN n - 1 ELSE n
        /\ fp # <<>> => fp[1] = 0
    BY <1>1 DEF FramesPlaced
  <2> QED BY <2>1, <2>2, <2>3, <2>4, <2>5, <1>2 DEF FramesPlaced
<1>13. Tiles(allocations, Len(data_stack))'
  BY <1>4, <1>5, <1>6
<1> QED BY <1>10, <1>11, <1>12, <1>13 DEF MemoryInv

\* A call starts without a frame; the caller goes on behind the opcode.
LEMMA CallStep == ASSUME ProgramsScoped, MemoryInv, Call PROVE MemoryInv'
<1> SUFFICES ASSUME NEW n, n = Len(curr_func), NEW f, f = curr_func[n], NEW g, g = Op.name
             PROVE  MemoryInv'
  OBVIOUS
<1> DEFINE levels == ScopesAt(n)
           next == ScopesOf(f)[ip + 1]
<1>1. Running /\ Op.op = "CALL" /\ status' = "running"
  BY DEF Call, Fetch, Running
<1>2. /\ UNCHANGED <<ir, fp, data_stack, allocations, freeing>>
      /\ curr_func' = Push(curr_func, g) /\ ip_stack' = Push(ip_stack, ip + 1) /\ ip' = 0
      /\ ~ir.functions[g].external /\ freeing = 0
  BY DEF Call, frameVars, Fetch
<1>3. FramesPlaced /\ MemoryShape /\ Tiles(allocations, Len(data_stack)) /\ FramesNest
  BY <1>1 DEF MemoryInv, Running
<1>4. /\ g \in Defined(ir) /\ ip \in Nat /\ levels # {}
      /\ ip + 1 \in DOMAIN ScopesOf(f) /\ next \subseteq levels /\ next # {} /\ 0 \in next
  <2>1. ip + 1 \in Follows(Code, ip) /\ ScopesAfter(Op, levels) = levels
    BY <1>1 DEF Follows, Op, ScopesAfter
  <2>2. levels # {} /\ g \in DOMAIN ir.functions /\ ip \in Nat
    BY <1>1, Fetched DEF ScopesAllow
  <2>3. /\ ip + 1 \in DOMAIN ScopesOf(f) /\ next \subseteq levels /\ IsScopes(next)
        /\ next = {} => levels = {}
    BY <1>1, <2>1, Fetched
  <2> QED BY <2>2, <2>3, <1>2 DEF Defined, IsScopes
<1>5. n \in Nat /\ n >= 1 /\ Len(ip_stack) = n - 1 /\ Len(fp) = n
  BY <1>1, <1>4, FramesBefore DEF FramesNest
<1>6. /\ curr_func' \in Seq(Defined(ir)) /\ Len(curr_func') = n + 1 /\ curr_func' # <<>>
      /\ curr_func'[n + 1] = g /\ \A k \in 1 .. n : curr_func'[k] = curr_func[k]
  <2> DEFINE S == Defined(ir)
  <2>1. curr_func \in Seq(S) /\ g \in S
    BY <1>3, <1>4 DEF MemoryShape
  <2> HIDE DEF S
  <2>2. /\ curr_func' \in Seq(S) /\ Len(curr_func') = n + 1 /\ curr_func' # <<>>
        /\ curr_func'[n + 1] = g /\ \A k \in 1 .. n : curr_func'[k] = curr_func[k]
    BY <2>1, <1>2 DEF Push
  <2> QED BY <2>2 DEF S
<1>7. /\ ip_stack' \in Seq(Nat) /\ Len(ip_stack') = n /\ ip_stack'[n] = ip + 1
      /\ \A k \in 1 .. n - 1 : ip_stack'[k] = ip_stack[k]
  <2>1. ip_stack \in Seq(Nat) /\ ip + 1 \in Nat
    BY <1>3, <1>4 DEF MemoryShape
  <2>2. /\ ip_stack' \in Seq(Nat) /\ Len(ip_stack') = Len(ip_stack) + 1
        /\ ip_stack'[Len(ip_stack) + 1] = ip + 1
        /\ \A k \in 1 .. Len(ip_stack) : ip_stack'[k] = ip_stack[k]
    BY <2>1, <1>2 DEF Push
  <2> QED BY <2>2, <1>5
<1>8. MemoryShape'
  <2>1. Defined(ir)' = Defined(ir)
    BY <1>2 DEF Defined
  <2> QED BY <2>1, <1>2, <1>3, <1>6, <1>7 DEF MemoryShape, IsSequence
<1>9. FramesNest'
  <2>1. /\ Len(ip_stack') + 1 = Len(curr_func')
        /\ Len(fp') \in {Len(curr_func') - 1, Len(curr_func')}
    BY <1>2, <1>5, <1>6, <1>7
  <2> QED BY <2>1, <1>2, <1>3 DEF FramesNest, Peek
<1>10. ScopesOf(g)' = ScopesOf(g) /\ \A h : ScopesOf(h)' = ScopesOf(h)
  BY <1>2 DEF ScopesOf
<1>11. 0 \in DOMAIN ScopesOf(g) /\ ScopesOf(g)[0] = {}
  <2>1. \E s : ScopedBy(ir.functions[g].code, s)
    BY <1>3, <1>4 DEF Scoped, MemoryShape, ProgramsScoped
  <2>2. ScopedBy(ir.functions[g].code, ScopesOf(g))
    BY <2>1, Zenon DEF ScopesOf
  <2> QED BY <2>2 DEF ScopedBy
<1>12. CallAt(n + 1)' = 0 /\ ScopesAt(n + 1)' = {}
  BY <1>2, <1>6, <1>10, <1>11 DEF CallAt, ScopesAt
<1>13. CallAt(n)' = ip + 1 /\ ScopesAt(n)' = next
  BY <1>5, <1>6, <1>7, <1>10 DEF CallAt, ScopesAt
<1>14. \A k \in 1 .. n - 1 : CallAt(k)' = CallAt(k) /\ ScopesAt(k)' = ScopesAt(k)
  <2> TAKE k \in 1 .. n - 1
  <2>1. k \in 1 .. n /\ k # n /\ k # n + 1
    BY <1>5
  <2>2. CallAt(k) = ip_stack[k] /\ CallAt(k)' = ip_stack'[k]
    BY <2>1, <1>6 DEF CallAt
  <2> QED BY <2>1, <2>2, <1>6, <1>7, <1>10 DEF ScopesAt
<1> HIDE DEF next, levels
<1>15. /\ \A k \in 1 .. n : CallAt(k) \in DOMAIN ScopesOf(curr_func[k])
       /\ \A k \in 1 .. n - 1 : ScopesAt(k) # {}
       /\ fp # <<>> => fp[1] = 0
       /\ fp = <<>> => Words = 0
       /\ \A k \in 1 .. Len(fp) :
            /\ fp[k] <= Words
            /\ Placed(ScopesAt(k), fp[k], Ceiling(k), allocations, Len(data_stack))
  BY <1>3 DEF FramesPlaced
<1>16. Words' = Words /\ \A k : Ceiling(k)' = Ceiling(k)
  BY <1>2 DEF Words, Ceiling
<1>17. \A k \in 1 .. Len(fp') :
         /\ fp'[k] <= Words'
         /\ Placed(ScopesAt(k)', fp'[k], Ceiling(k)', allocations', Len(data_stack'))
  <2> TAKE k \in 1 .. Len(fp')
  <2>1. CASE k = n
    <3> DEFINE top == Ceiling(n)
               base == fp[n]
    <3>1. Placed(levels, base, top, allocations, Len(data_stack))
      BY <2>1, <1>5, <1>15 DEF levels
    <3> HIDE DEF top, base
    <3>2. Placed(next, base, top, allocations, Len(data_stack))
      BY <3>1, <1>4, PlacedKeeps DEF next
    <3> QED BY <3>2, <2>1, <1>2, <1>5, <1>13, <1>15, <1>16 DEF top, base
  <2>2. CASE k # n
    <3>1. k \in 1 .. n - 1 /\ k \in 1 .. Len(fp)
      BY <2>2, <1>2, <1>5
    <3> QED BY <3>1, <1>2, <1>14, <1>15, <1>16
  <2> QED BY <2>1, <2>2
<1>18. \A k \in 1 .. n + 1 : CallAt(k)' \in DOMAIN ScopesOf(curr_func[k])'
  <2> TAKE k \in 1 .. n + 1
  <2>1. CASE k = n + 1
    BY <2>1, <1>6, <1>10, <1>11, <1>12
  <2>2. CASE k = n
    <3>1. n \in 1 .. n /\ curr_func'[n] = f
      BY <1>5, <1>6
    <3>2. ScopesOf(curr_func[k])' = ScopesOf(f)
      BY <3>1, <2>2, <1>10
    <3> QED BY <3>2, <2>2, <1>4, <1>13
  <2>3. CASE k \in 1 .. n - 1
    <3>1. k \in 1 .. n
      BY <2>3, <1>5
    <3> QED BY <3>1, <2>3, <1>6, <1>10, <1>14, <1>15
  <2> QED BY <2>1, <2>2, <2>3, <1>5
<1>19. \A k \in 1 .. n : ScopesAt(k)' # {}
  <2> TAKE k \in 1 .. n
  <2>1. k = n \/ k \in 1 .. n - 1
    BY <1>5
  <2> QED BY <2>1, <1>4, <1>13, <1>14, <1>15 DEF next
<1>20. FramesPlaced'
  <2>1. Len(fp') = IF ScopesAt(n + 1)' = {} THEN n + 1 - 1 ELSE n + 1
    BY <1>2, <1>5, <1>12
  <2>2. \A k \in 1 .. n + 1 - 1 : ScopesAt(k)' # {}
    BY <1>5, <1>19
  <2> QED BY <2>1, <2>2, <1>2, <1>6, <1>15, <1>16, <1>17, <1>18 DEF FramesPlaced
<1>21. Tiles(allocations, Len(data_stack))'
  BY <1>2, <1>3
<1> QED BY <1>8, <1>9, <1>20, <1>21 DEF MemoryInv

\* A call returns without a frame, and its caller goes on with its own.
LEMMA RetStep == ASSUME ProgramsScoped, MemoryInv, Ret PROVE MemoryInv'
<1> SUFFICES ASSUME NEW n, n = Len(curr_func) PROVE MemoryInv'
  OBVIOUS
<1>1. Running /\ Op.op = "RET" /\ UNCHANGED <<ir, fp, data_stack, allocations, freeing>>
  BY DEF Ret, Fetch, Running, frameVars
<1>2. FramesPlaced /\ MemoryShape /\ Tiles(allocations, Len(data_stack)) /\ FramesNest
  BY <1>1 DEF MemoryInv, Running
<1>3. ScopesAt(n) = {} /\ n \in Nat /\ n >= 1 /\ Len(fp) = n - 1 /\ Len(ip_stack) = n - 1
  <2>1. ScopesAt(n) = {}
    BY <1>1, Fetched DEF ScopesAllow
  <2> QED BY <2>1, <1>1, FramesBefore
<1>4. CASE ip_stack = <<>>
  <2>1. status' = "done" /\ UNCHANGED <<ip_stack, curr_func>>
    BY <1>4 DEF Ret
  <2>2. MemoryShape'
    BY <2>1, <1>1, <1>2 DEF MemoryShape, IsSequence, Defined
  <2>3. FramesNest' /\ Tiles(allocations, Len(data_stack))'
    BY <2>1, <1>1, <1>2 DEF FramesNest, Peek
  <2> QED BY <2>1, <2>2, <2>3 DEF MemoryInv
<1>5. CASE ip_stack # <<>>
  <2>1. ip' = Peek(ip_stack) /\ ip_stack' = Pop(ip_stack) /\ curr_func' = Pop(curr_func)
    BY <1>5 DEF Ret
  <2>2. n - 1 >= 1
    BY <1>3, <1>5, <1>2 DEF MemoryShape
  <2>3. /\ curr_func' \in Seq(Defined(ir)) /\ Len(curr_func') = n - 1 /\ curr_func' # <<>>
        /\ \A k \in 1 .. n - 1 : curr_func'[k] = curr_func[k]
    <3> DEFINE S == Defined(ir)
    <3>1. curr_func \in Seq(S) /\ curr_func # <<>>
      BY <1>2 DEF MemoryShape, FramesPlaced
    <3> HIDE DEF S
    <3>2. Pop(curr_func) \in Seq(S) /\ Len(Pop(curr_func)) = n - 1
          /\ \A k \in 1 .. n - 1 : Pop(curr_func)[k] = curr_func[k]
      BY <3>1, PoppedStack
    <3>3. Pop(curr_func) # <<>>
      BY <3>2, <2>2
    <3> QED BY <3>2, <3>3, <2>1 DEF S
  <2>4. /\ ip_stack' \in Seq(Nat) /\ Len(ip_stack') = n - 2 /\ ip' = ip_stack[n - 1]
        /\ \A k \in 1 .. n - 2 : ip_stack'[k] = ip_stack[k]
    <3>1. ip_stack \in Seq(Nat)
      BY <1>2 DEF MemoryShape
    <3>2. /\ Pop(ip_stack) \in Seq(Nat) /\ Len(Pop(ip_stack)) = Len(ip_stack) - 1
          /\ Peek(ip_stack) = ip_stack[Len(ip_stack)]
          /\ \A k \in 1 .. Len(ip_stack) - 1 : Pop(ip_stack)[k] = ip_stack[k]
      BY <3>1, <1>5, PoppedStack
    <3> QED BY <3>2, <2>1, <1>3
  <2>5. MemoryShape'
    <3>1. Defined(ir)' = Defined(ir)
      BY <1>1 DEF Defined
    <3> QED BY <3>1, <2>3, <2>4, <1>1, <1>2 DEF MemoryShape, IsSequence
  <2>6. FramesNest'
    <3>1. /\ Len(ip_stack') + 1 = Len(curr_func')
          /\ Len(fp') \in {Len(curr_func') - 1, Len(curr_func')}
      BY <2>3, <2>4, <1>1, <1>3
    <3> QED BY <3>1, <1>1, <1>2 DEF FramesNest, Peek
  <2>7. \A h : ScopesOf(h)' = ScopesOf(h)
    BY <1>1 DEF ScopesOf
  <2>8. \A k \in 1 .. n - 1 : CallAt(k)' = CallAt(k) /\ ScopesAt(k)' = ScopesAt(k)
    <3> TAKE k \in 1 .. n - 1
    <3>1. CallAt(k) = ip_stack[k]
      BY <1>3 DEF CallAt
    <3>2. CallAt(k)' = IF k = n - 1 THEN ip' ELSE ip_stack'[k]
      BY <2>3 DEF CallAt
    <3>3. CallAt(k)' = ip_stack[k]
      <4>1. k # n - 1 => k \in 1 .. n - 2
        BY <1>3
      <4> QED BY <3>2, <4>1, <2>4
    <3> QED BY <3>1, <3>3, <2>3, <2>7 DEF ScopesAt
  <2>9. /\ \A k \in 1 .. n : CallAt(k) \in DOMAIN ScopesOf(curr_func[k])
        /\ \A k \in 1 .. n - 1 : ScopesAt(k) # {}
        /\ fp # <<>> => fp[1] = 0
        /\ fp = <<>> => Words = 0
        /\ \A k \in 1 .. Len(fp) :
             /\ fp[k] <= Words
             /\ Placed(ScopesAt(k), fp[k], Ceiling(k), allocations, Len(data_stack))
    BY <1>2 DEF FramesPlaced
  <2>10. Words' = Words /\ \A k : Ceiling(k)' = Ceiling(k)
    BY <1>1 DEF Words, Ceiling
  <2>11. \A k \in 1 .. n - 1 : CallAt(k)' \in DOMAIN ScopesOf(curr_func[k])'
    <3> TAKE k \in 1 .. n - 1
    <3>1. k \in 1 .. n
      BY <1>3
    <3> QED BY <3>1, <2>3, <2>7, <2>8, <2>9
  <2>12. /\ \A k \in 1 .. n - 1 - 1 : ScopesAt(k)' # {}
         /\ Len(fp') = IF ScopesAt(n - 1)' = {} THEN n - 1 - 1 ELSE n - 1
    <3>1. \A k \in 1 .. n - 1 : ScopesAt(k)' # {}
      BY <2>8, <2>9
    <3>2. n - 1 \in 1 .. n - 1 /\ \A k \in 1 .. n - 1 - 1 : k \in 1 .. n - 1
      BY <2>2, <1>3
    <3> QED BY <3>1, <3>2, <1>1, <1>3
  <2>13. \A k \in 1 .. Len(fp') :
           /\ fp'[k] <= Words'
           /\ Placed(ScopesAt(k)', fp'[k], Ceiling(k)', allocations', Len(data_stack'))
    BY <1>1, <1>3, <2>8, <2>9, <2>10
  <2>14. FramesPlaced'
    BY <2>3, <2>9, <2>10, <2>11, <2>12, <2>13, <1>1 DEF FramesPlaced
  <2>15. Tiles(allocations, Len(data_stack))'
    BY <1>1, <1>2
  <2> QED BY <2>5, <2>6, <2>14, <2>15 DEF MemoryInv
<1> QED BY <1>4, <1>5

--------------------------------------------------------------------------------
(* The theorems about the memory.                                               *)

LEMMA MemoryStays == ASSUME ProgramsScoped PROVE MemoryInv /\ [Next]_vars => MemoryInv'
<1> SUFFICES ASSUME MemoryInv, [Next]_vars PROVE MemoryInv'
  OBVIOUS
<1>1. CASE Alloc
  BY <1>1, AllocStep
<1>2. CASE Free
  BY <1>2, FreeStep
<1>3. CASE FramePush
  BY <1>3, FramePushStep
<1>4. CASE FramePop
  BY <1>4, FramePopStep
<1>5. CASE Call
  BY <1>5, CallStep
<1>6. CASE Ret
  BY <1>6, RetStep
<1>7. CASE FreeBlock
  BY <1>7, FreeBlockStep
<1>8. CASE \/ Nop \/ Binary \/ Unary \/ PushConstant \/ PushVariable \/ Discard \/ Clone
           \/ SetupGlobal \/ Load \/ Store \/ Jump \/ JumpIf \/ CallExternal \/ Invalid
  BY <1>8, PlainActions
<1>9. CASE UNCHANGED vars
  <2>1. /\ MemoryShape' = MemoryShape /\ Tiles(allocations, Len(data_stack))' = Tiles(allocations, Len(data_stack))
        /\ FramesNest' = FramesNest /\ FramesPlaced' = FramesPlaced /\ status' = status
    BY <1>9, Zenon DEF vars, MemoryShape, IsSequence, FramesNest, FramesPlaced, ScopesAt, CallAt,
                      ScopesOf, Words, Ceiling
  <2> QED BY <2>1 DEF MemoryInv
<1> QED BY <1>1, <1>2, <1>3, <1>4, <1>5, <1>6, <1>7, <1>8, <1>9 DEF Next, Execute

LEMMA MemoryHolds == ASSUME ProgramsScoped PROVE Spec => []MemoryInv
<1>1. Init => MemoryInv
  BY MemoryStarts
<1>2. MemoryInv /\ [Next]_vars => MemoryInv'
  BY MemoryStays
<1> QED BY <1>1, <1>2, PTL DEF Spec

\* Whatever programs run whose code keeps to its scopes, whatever they read and however
\* deep they call, and when they end with a violation too: the blocks tile the data
\* stack and the frames of the calls nest in it (allocate_memory, free_memory,
\* IR_STACK_FRAME_PUSH, IR_STACK_FRAME_POP, IR_CALL, IR_RET).
THEOREM MemoryIsSound == ASSUME ProgramsScoped PROVE Spec => []MemoryNests
<1>1. MemoryInv => MemoryNests
  <2> SUFFICES ASSUME MemoryInv PROVE BlocksTile
    BY DEF MemoryInv, MemoryNests
  <2>1. Tiles(allocations, Len(data_stack)) /\ MemoryShape
    BY DEF MemoryInv
  <2>2. allocations = <<>> => data_stack = <<>>
    BY <2>1 DEF Tiles, MemoryShape, IsSequence
  <2>3. allocations # <<>> => Peek(allocations) = allocations[Len(allocations)]
    BY DEF Peek
  <2> QED BY <2>1, <2>2, <2>3 DEF BlocksTile, Tiles
<1> QED BY <1>1, MemoryHolds, PTL

\* A returning call has given its frame back, and the one interop_func started
\* everything (IR_RET, IR_STACK_FRAME_POP).
THEOREM ReturnsAreClean == ASSUME ProgramsScoped PROVE Spec => []ReturnsClean
<1>1. ASSUME MemoryInv PROVE ReturnsClean
  <2> SUFFICES ASSUME Running, Op.op = "RET"
               PROVE  /\ Len(fp) = Len(curr_func) - 1
                      /\ ip_stack = <<>> => data_stack = <<>>
    BY DEF ReturnsClean, Running
  <2>1. ScopesAt(Len(curr_func)) = {}
    BY <1>1, Fetched DEF ScopesAllow
  <2>2. Len(fp) = Len(curr_func) - 1
    BY <1>1, <2>1, FramesBefore
  <2>3. ASSUME ip_stack = <<>> PROVE data_stack = <<>>
    <3>1. Len(fp) = 0 /\ fp \in Seq(Nat)
      <4>1. Len(ip_stack) = 0
        BY <2>3
      <4>2. fp \in Seq(Nat) /\ Len(ip_stack) + 1 = Len(curr_func) /\ Len(curr_func) \in Nat
        BY <1>1, FramesBefore
      <4>3. Len(curr_func) = 1
        BY <4>1, <4>2
      <4>4. Len(fp) = 0
        BY <2>2, <4>3
      <4> QED BY <4>2, <4>4
    <3>2. Len(data_stack) = 0 /\ IsSequence(data_stack)
      BY <1>1, <3>1, FramesBefore
    <3> QED BY <3>2 DEF IsSequence
  <2> QED BY <2>2, <2>3
<1> QED BY <1>1, MemoryHolds, PTL

--------------------------------------------------------------------------------
(* The operands, for every program whose code balances them, as long as it does  *)
(* not store to a global.                                                        *)

LEMMA SequencePopped ==
  ASSUME NEW s, IsSequence(s)
  PROVE  /\ IsSequence(Pop(s)) /\ Len(s) \in Nat
         /\ Len(Pop(s)) = IF Len(s) = 0 THEN 0 ELSE Len(s) - 1
<1>1. PICK S : s \in Seq(S)
  BY DEF IsSequence
<1>2. s = <<>> => Pop(s) = <<>> /\ Len(s) = 0
  BY DEF Pop
<1>3. Pop(s) \in Seq(S) /\ Len(s) \in Nat /\ (s # <<>> => Len(s) > 0 /\ Len(Pop(s)) = Len(s) - 1)
  BY <1>1, PoppedStack
<1> QED BY <1>2, <1>3 DEF IsSequence

LEMMA SequencePushed ==
  ASSUME NEW s, IsSequence(s), NEW x
  PROVE  IsSequence(Push(s, x)) /\ Len(Push(s, x)) = Len(s) + 1 /\ Len(s) \in Nat
<1>1. PICK S : s \in Seq(S)
  BY DEF IsSequence
<1> DEFINE T == S \cup {x}
<1>2. s \in Seq(T) /\ x \in T
  BY <1>1, SeqMonotonic
<1> HIDE DEF T
<1>3. Push(s, x) \in Seq(T) /\ Len(Push(s, x)) = Len(s) + 1 /\ Len(s) \in Nat
  BY <1>2, PushedStack
<1> QED BY <1>3 DEF IsSequence

--------------------------------------------------------------------------------
(* The inductive invariant of the operands.                                     *)

\* The numbers of operands of a function, one way of assigning them.
OperandsOf(f) == CHOOSE operands : BalancedBy(ir, f, operands)

OperandsAt(k) == OperandsOf(curr_func[k])[CallAt(k)]

Result(f) == Truth(ir.functions[f].returns)

OperandsShape ==
  /\ ir \in Programs
  /\ IsSequence(exec_stack) /\ IsSequence(ip_stack)
  /\ heights \in Seq(Nat) /\ curr_func \in Seq(Defined(ir)) /\ curr_func # <<>>
  /\ Len(heights) = Len(curr_func) /\ Len(ip_stack) + 1 = Len(curr_func)

\* The operands are those of the running calls, one call on the other: as many as
\* the code of each says, and of a caller as many as its code says of the place
\* behind the call, less the result that is still to come.
OperandsPlaced ==
  LET n == Len(curr_func)
  IN  /\ \A k \in 1 .. n : CallAt(k) \in DOMAIN OperandsOf(curr_func[k])
      /\ \A k \in 1 .. n - 1 :
           heights[k + 1] + Result(curr_func[k + 1]) = heights[k] + OperandsAt(k)
      /\ Len(exec_stack) = heights[n] + OperandsAt(n)

OperandsInv == OperandsShape /\ (status = "running" => OperandsPlaced)

\* What is assumed of the programs, and of what they do: a store to a global leaves
\* an operand behind that the generator does not count.
ProgramsBalanced == \A p \in Programs : Balanced(p)

StoresNoGlobal == Running /\ Op.op = "STORE" => ~ValidGlobal(Peek(exec_stack))

LEMMA OperandsOfFunction ==
  ASSUME ProgramsBalanced, ir \in Programs, NEW f \in Defined(ir)
  PROVE  /\ BalancedBy(ir, f, OperandsOf(f))
         /\ ir.functions[f].params \in Nat /\ ir.functions[f].returns \in BOOLEAN
         /\ WellFormed(ir)
<1>1. Balanced(ir)
  BY DEF ProgramsBalanced
<1>2. \E operands : BalancedBy(ir, f, operands)
  BY <1>1 DEF Balanced
<1>3. BalancedBy(ir, f, OperandsOf(f))
  BY <1>2, Zenon DEF OperandsOf
<1> QED BY <1>1, <1>3 DEF Balanced

LEMMA OperandsStart == ASSUME ProgramsBalanced PROVE Init => OperandsInv
<1> SUFFICES ASSUME Init PROVE OperandsInv
  OBVIOUS
<1>1. ir \in Programs /\ Entry \in Defined(ir) /\ ir.functions[Entry].params = 0
  BY DEF Init, ProgramsBalanced, Balanced, WellFormed
<1>2. BalancedBy(ir, Entry, OperandsOf(Entry))
  BY <1>1, OperandsOfFunction
<1>3. /\ curr_func = <<Entry>> /\ ip = 0 /\ ip_stack = <<>> /\ exec_stack = <<>> /\ heights = <<0>>
      /\ Len(curr_func) = 1 /\ Len(heights) = 1 /\ heights[1] = 0 /\ curr_func[1] = Entry
  BY DEF Init
<1>4. OperandsShape
  <2>1. <<>> \in Seq(Nat) /\ <<0>> \in Seq(Nat)
    OBVIOUS
  <2>2. IsSequence(exec_stack) /\ IsSequence(ip_stack)
    BY <1>3, <2>1 DEF IsSequence
  <2> QED BY <1>1, <1>3, <2>1, <2>2 DEF OperandsShape
<1>5. 0 \in DOMAIN OperandsOf(Entry) /\ OperandsOf(Entry)[0] = 0
  BY <1>1, <1>2 DEF BalancedBy
<1>6. CallAt(1) = 0 /\ OperandsAt(1) = 0
  BY <1>3, <1>5 DEF CallAt, OperandsAt
<1>7. OperandsPlaced
  BY <1>3, <1>5, <1>6 DEF OperandsPlaced
<1> QED BY <1>4, <1>7 DEF OperandsInv

--------------------------------------------------------------------------------
(* The opcode that runs, and what it does to the operands.                      *)

\* What the code of the last call says of the operands there.
LEMMA OperandsFetched ==
  ASSUME ProgramsBalanced, OperandsInv, Running, NEW n, n = Len(curr_func)
  PROVE  LET f == curr_func[n]
             count == OperandsAt(n)
         IN  /\ n \in Nat /\ n >= 1 /\ f \in Defined(ir) /\ Peek(curr_func) = f
             /\ Code = ir.functions[f].code /\ ip \in Nat
             /\ Op.op = "CALL" => Op.name \in DOMAIN ir.functions
             /\ OperandsPlaced /\ OperandsShape
             /\ heights[n] \in Nat /\ Peek(heights) = heights[n]
             /\ count \in Nat /\ count >= Takes(ir, Op)
             /\ Len(exec_stack) = heights[n] + count
             /\ Op.op = "RET" => count = Result(f)
             /\ \A j \in Follows(Code, ip) :
                  /\ j \in DOMAIN OperandsOf(f) /\ OperandsOf(f)[j] \in Nat
                  /\ OperandsOf(f)[j] = OperandsAfter(ir, Op, count)
<1> DEFINE f == curr_func[n]
           S == Defined(ir)
<1>1. OperandsPlaced /\ OperandsShape
  BY DEF OperandsInv, Running
<1>2. n \in Nat /\ n >= 1 /\ f \in S /\ Peek(curr_func) = f
  <2>1. curr_func \in Seq(S) /\ curr_func # <<>>
    BY <1>1 DEF OperandsShape
  <2> HIDE DEF S
  <2>2. /\ Len(curr_func) \in Nat /\ Len(curr_func) > 0
        /\ Peek(curr_func) = curr_func[Len(curr_func)] /\ Peek(curr_func) \in S
    BY <2>1, PoppedStack
  <2> QED BY <2>2
<1>3. heights[n] \in Nat /\ Peek(heights) = heights[n]
  <2>1. heights \in Seq(Nat) /\ Len(heights) = n
    BY <1>1 DEF OperandsShape
  <2>2. heights # <<>> /\ n \in 1 .. Len(heights)
    BY <2>1, <1>2
  <2> QED BY <2>1, <2>2 DEF Peek
<1>4. BalancedBy(ir, f, OperandsOf(f)) /\ WellFormed(ir)
  BY <1>1, <1>2, OperandsOfFunction DEF OperandsShape
<1>5. Code = ir.functions[f].code /\ Op = Code[ip + 1] /\ ip < Len(Code)
  BY <1>2 DEF Code, Op, Running
<1>6. ip \in DOMAIN OperandsOf(f) /\ OperandsAt(n) = OperandsOf(f)[ip]
  BY <1>1, <1>2 DEF OperandsPlaced, OperandsAt, CallAt
<1>7. ip \in Nat /\ OperandsOf(f)[ip] \in Nat
  BY <1>4, <1>6 DEF BalancedBy
<1>8. Op.op = "CALL" => Op.name \in DOMAIN ir.functions
  <2>1. ip + 1 \in 1 .. Len(Code)
    <3>1. Code \in Seq(Opcodes)
      BY <1>2, <1>4, <1>5 DEF WellFormed
    <3> QED BY <3>1, <1>5, <1>7
  <2> QED BY <2>1, <1>2, <1>4, <1>5 DEF WellFormed
<1>9. /\ OperandsOf(f)[ip] >= Takes(ir, Op)
      /\ Op.op = "RET" => OperandsOf(f)[ip] = Result(f)
      /\ \A j \in Follows(Code, ip) :
           /\ j \in DOMAIN OperandsOf(f) /\ OperandsOf(f)[j] \in Nat
           /\ OperandsOf(f)[j] = OperandsAfter(ir, Op, OperandsOf(f)[ip])
  <2> DEFINE g == f
  <2> HIDE DEF g
  <2>1. BalancedBy(ir, g, OperandsOf(g)) /\ ip \in DOMAIN OperandsOf(g)
        /\ ip < Len(ir.functions[g].code) /\ Code = ir.functions[g].code
        /\ Op = ir.functions[g].code[ip + 1]
    BY <1>4, <1>5, <1>6 DEF g
  <2> QED BY <2>1 DEF BalancedBy, Result, g
<1>10. Len(exec_stack) = heights[n] + OperandsAt(n)
  BY <1>1 DEF OperandsPlaced
<1> QED BY <1>1, <1>2, <1>3, <1>5, <1>6, <1>7, <1>8, <1>9, <1>10

\* A step inside of a call.
LEMMA OperandsStep ==
  ASSUME ProgramsBalanced, OperandsInv, Running,
         UNCHANGED <<ir, ip_stack, curr_func, heights>>,
         IsSequence(exec_stack)',
         status' = "running" =>
           /\ ip' \in Follows(Code, ip)
           /\ \A n \in Nat, count \in Nat :
                /\ n = Len(exec_stack) - count /\ n \in Nat
                /\ count >= Takes(ir, Op) /\ OperandsAfter(ir, Op, count) \in Nat
                => Len(exec_stack') = n + OperandsAfter(ir, Op, count)
  PROVE  OperandsInv'
<1> SUFFICES ASSUME NEW n, n = Len(curr_func) PROVE OperandsInv'
  OBVIOUS
<1>1. OperandsShape'
  BY OperandsFetched DEF OperandsShape, IsSequence
<1> SUFFICES ASSUME status' = "running" PROVE OperandsPlaced'
  BY <1>1 DEF OperandsInv
<1> DEFINE f == curr_func[n]
           count == OperandsAt(n)
           h == heights[n]
<1>2. /\ n \in Nat /\ n >= 1 /\ OperandsPlaced
      /\ h \in Nat /\ count \in Nat /\ count >= Takes(ir, Op)
      /\ Len(exec_stack) = h + count
      /\ ip' \in DOMAIN OperandsOf(f) /\ OperandsOf(f)[ip'] \in Nat
      /\ OperandsOf(f)[ip'] = OperandsAfter(ir, Op, count)
  BY OperandsFetched
<1>3. \A g : OperandsOf(g)' = OperandsOf(g) /\ Result(g)' = Result(g)
  BY DEF OperandsOf, Result
<1>4. CallAt(n)' = ip' /\ OperandsAt(n)' = OperandsOf(f)[ip']
  BY <1>3 DEF CallAt, OperandsAt
<1>5. \A k \in 1 .. n - 1 : CallAt(k)' = CallAt(k) /\ OperandsAt(k)' = OperandsAt(k)
  BY <1>2, <1>3 DEF CallAt, OperandsAt
<1>6. Len(exec_stack') = h + OperandsAt(n)'
  <2> HIDE DEF h, count
  <2>1. h = Len(exec_stack) - count
    BY <1>2
  <2> QED BY <2>1, <1>2, <1>4
<1> HIDE DEF f, count
<1>7. \A k \in 1 .. n : CallAt(k)' \in DOMAIN OperandsOf(curr_func[k])'
  <2> TAKE k \in 1 .. n
  <2>1. CASE k = n
    BY <2>1, <1>2, <1>3, <1>4 DEF f
  <2>2. CASE k # n
    <3>1. k \in 1 .. n - 1
      BY <2>2, <1>2
    <3> QED BY <3>1, <1>2, <1>3, <1>5 DEF OperandsPlaced
  <2> QED BY <2>1, <2>2
<1>8. \A k \in 1 .. n - 1 :
        heights'[k + 1] + Result(curr_func[k + 1])' = heights'[k] + OperandsAt(k)'
  BY <1>2, <1>3, <1>5 DEF OperandsPlaced
<1> QED BY <1>6, <1>7, <1>8 DEF OperandsPlaced

\* How many operands there are after an opcode, whatever they are.
LEMMA OperandsChange ==
  ASSUME ProgramsBalanced, OperandsInv, StoresNoGlobal, Execute, ~Call, ~Ret
  PROVE  OperandsInv'
<1>1. Running
  BY GoesOn
<1>2. UNCHANGED <<ir, ip_stack, curr_func, heights>>
  BY DEF Execute, Nop, Binary, Unary, PushConstant, PushVariable, Discard, Clone, SetupGlobal,
         Alloc, Free, FramePush, FramePop, Load, Store, Jump, JumpIf, CallExternal, Invalid,
         OperandsOnly, callVars
<1>3. status' = "running" => ip' \in Follows(Code, ip)
  BY <1>1, GoesOn, OperandsFetched
<1> DEFINE Counted ==
             \A n \in Nat, count \in Nat :
               /\ n = Len(exec_stack) - count /\ n \in Nat
               /\ count >= Takes(ir, Op) /\ OperandsAfter(ir, Op, count) \in Nat
               => Len(exec_stack') = n + OperandsAfter(ir, Op, count)
           length == Len(exec_stack)
           popped == Pop(exec_stack)
<1>4. /\ IsSequence(exec_stack) /\ length \in Nat
      /\ IsSequence(popped) /\ Len(popped) = IF length = 0 THEN 0 ELSE length - 1
      /\ \A x : IsSequence(Push(exec_stack, x)) /\ Len(Push(exec_stack, x)) = length + 1
  <2>1. IsSequence(exec_stack)
    BY DEF OperandsInv, OperandsShape
  <2> QED BY <2>1, SequencePopped, SequencePushed
<1>5. \A x : IsSequence(Push(popped, x)) /\ Len(Push(popped, x)) = Len(popped) + 1
  BY <1>4, SequencePushed
<1>6. \A x, y : /\ IsSequence(Push(Push(popped, x), y))
                /\ Len(Push(Push(popped, x), y)) = Len(popped) + 2
  <2> TAKE x, y
  <2> DEFINE one == Push(popped, x)
  <2>1. IsSequence(one) /\ Len(one) = Len(popped) + 1 /\ Len(popped) \in Nat
    BY <1>4, <1>5, SequencePushed
  <2> HIDE DEF one
  <2>2. IsSequence(Push(one, y)) /\ Len(Push(one, y)) = Len(one) + 1
    BY <2>1, SequencePushed
  <2>3. Len(Push(one, y)) = Len(popped) + 2
    BY <2>1, <2>2
  <2> QED BY <2>2, <2>3 DEF one
<1>7. /\ IsSequence(Pop(popped))
      /\ Len(Pop(popped)) = IF Len(popped) = 0 THEN 0 ELSE Len(popped) - 1
      /\ \A x : /\ IsSequence(Push(Pop(popped), x))
                /\ Len(Push(Pop(popped), x)) = Len(Pop(popped)) + 1
  <2>1. /\ IsSequence(Pop(popped))
        /\ Len(Pop(popped)) = IF Len(popped) = 0 THEN 0 ELSE Len(popped) - 1
    BY <1>4, SequencePopped
  <2> QED BY <2>1, SequencePushed
<1>8. SUFFICES IsSequence(exec_stack)' /\ (status' = "running" => Counted)
  <2> HIDE DEF Counted
  <2>1. status' = "running" => Counted
    BY <1>8
  <2> USE DEF Counted
  <2> QED BY <1>1, <1>2, <1>3, <1>8, <2>1, OperandsStep
<1>9. CASE Nop \/ Free \/ FramePush \/ FramePop \/ Jump \/ Invalid
  <2>1. exec_stack' = exec_stack
    BY <1>9 DEF Nop, Free, FramePush, FramePop, Jump, Invalid
  <2>2. Op.op \in {"NOP", "FREE", "STACK_FRAME_PUSH", "STACK_FRAME_POP", "JUMP", "INVALID"}
    BY <1>9 DEF Nop, Free, FramePush, FramePop, Jump, Invalid, Fetch
  <2>3. \A count : OperandsAfter(ir, Op, count) = count
    BY <2>2 DEF OperandsAfter, BinaryOps
  <2> QED BY <2>1, <2>3, <1>4 DEF IsSequence
<1>10. CASE Binary
  <2>1. Takes(ir, Op) = 2 /\ \A count : OperandsAfter(ir, Op, count) = count - 1
    <3>1. Op.op \in BinaryOps
      BY <1>10 DEF Binary, Fetch
    <3>2. Op.op \notin {"CALL", "STORE"}
      BY <3>1 DEF BinaryOps
    <3>3. Takes(ir, Op) = 2
      BY <3>1 DEF Takes, BinaryOps, UnaryOps
    <3>4. \A count : OperandsAfter(ir, Op, count) = count - 1
      BY <3>1, <3>2 DEF OperandsAfter, BinaryOps
    <3> QED BY <3>3, <3>4
  <2>2. IsSequence(exec_stack)' /\ (status' = "running" => Len(exec_stack') = Len(Pop(popped)) + 1)
    <3>1. CASE exec_stack' = Pop(popped) /\ status' = "trap"
      BY <3>1, <1>7 DEF IsSequence
    <3>2. CASE \E x : exec_stack' = Push(Pop(popped), x)
      BY <3>2, <1>7 DEF IsSequence
    <3> QED BY <1>10, <3>1, <3>2 DEF Binary
  <2>3. length >= 2 => Len(Pop(popped)) = length - 2
    BY <1>4, <1>7
  <2> QED BY <2>1, <2>2, <2>3, <1>4
<1>11. CASE Unary
  <2>1. \A count : Takes(ir, Op) = 1 /\ OperandsAfter(ir, Op, count) = count
    BY <1>11 DEF Unary, Fetch, UnaryOps, BinaryOps, Takes, OperandsAfter
  <2>2. IsSequence(exec_stack)' /\ Len(exec_stack') = Len(popped) + 1
    BY <1>11, <1>5 DEF Unary, IsSequence
  <2> QED BY <2>1, <2>2, <1>4
<1>12. CASE PushConstant \/ PushVariable \/ Alloc
  <2>1. \A count : OperandsAfter(ir, Op, count) = count + 1
    BY <1>12 DEF PushConstant, PushVariable, Alloc, Fetch, BinaryOps, OperandsAfter
  <2>2. /\ IsSequence(exec_stack)'
        /\ status' = "running" => Len(exec_stack') = length + 1
    <3>1. CASE exec_stack' = exec_stack /\ status' = "no variable"
      BY <3>1, <1>4 DEF IsSequence
    <3>2. CASE \E x : exec_stack' = Push(exec_stack, x)
      BY <3>2, <1>4 DEF IsSequence
    <3> QED BY <1>12, <3>1, <3>2 DEF PushConstant, PushVariable, Alloc
  <2> QED BY <2>1, <2>2, <1>4
<1>13. CASE Discard \/ SetupGlobal \/ JumpIf
  <2>1. \A count : Takes(ir, Op) = 1 /\ OperandsAfter(ir, Op, count) = count - 1
    BY <1>13 DEF Discard, SetupGlobal, JumpIf, Fetch, UnaryOps, BinaryOps, Takes, OperandsAfter
  <2>2. exec_stack' = popped
    BY <1>13 DEF Discard, SetupGlobal, JumpIf
  <2> QED BY <2>1, <2>2, <1>4 DEF IsSequence
<1>14. CASE Clone
  <2>1. \A count : Takes(ir, Op) = 1 /\ OperandsAfter(ir, Op, count) = count + 1
    BY <1>14 DEF Clone, Fetch, UnaryOps, BinaryOps, Takes, OperandsAfter
  <2>2. IsSequence(exec_stack)' /\ Len(exec_stack') = Len(popped) + 2
    BY <1>14, <1>6 DEF Clone, IsSequence
  <2> QED BY <2>1, <2>2, <1>4
<1>15. CASE Load
  <2>1. \A count : Takes(ir, Op) = 1 /\ OperandsAfter(ir, Op, count) = count
    BY <1>15 DEF Load, Fetch, UnaryOps, BinaryOps, Takes, OperandsAfter
  <2>2. IsSequence(exec_stack)' /\ (status' = "running" => Len(exec_stack') = Len(popped) + 1)
    <3>1. CASE exec_stack' = popped /\ status' = Violation(Peek(exec_stack))
      BY <3>1, <1>4 DEF IsSequence, Violation
    <3>2. CASE \E x : exec_stack' = Push(popped, x)
      BY <3>2, <1>5 DEF IsSequence
    <3> QED BY <1>15, <3>1, <3>2 DEF Load
  <2> QED BY <2>1, <2>2, <1>4
<1>16. CASE Store
  <2>1. Takes(ir, Op) = 2 /\ \A count : OperandsAfter(ir, Op, count) = count - 2
    <3>1. Op.op = "STORE"
      BY <1>16 DEF Store, Fetch
    <3>2. Takes(ir, Op) = 2
      BY <3>1 DEF Takes, BinaryOps, UnaryOps
    <3>3. \A count : OperandsAfter(ir, Op, count) = count - 2
      BY <3>1 DEF OperandsAfter, BinaryOps
    <3> QED BY <3>2, <3>3
  <2>2. exec_stack' = Pop(popped)
    BY <1>1, <1>16 DEF Store, Fetch, StoresNoGlobal
  <2>3. length >= 2 => Len(Pop(popped)) = length - 2
    BY <1>4, <1>7
  <2>4. IsSequence(exec_stack)'
    BY <2>2, <1>7 DEF IsSequence
  <2> QED BY <2>1, <2>2, <2>3, <2>4, <1>4
<1>17. CASE CallExternal
  <2>1. /\ Op.op = "CALL" /\ ir.functions[Op.name].external
        /\ CASE Op.name = "getchar" -> \E c : exec_stack' = Push(exec_stack, c)
             [] Op.name = "putchar" -> exec_stack' = popped
             [] OTHER -> exec_stack' = exec_stack
    BY <1>17 DEF CallExternal, Fetch
  <2>2. CASE Op.name = "getchar"
    <3>1. IsSequence(exec_stack)' /\ Len(exec_stack') = length + 1
      BY <2>1, <2>2, <1>4 DEF IsSequence
    <3>2. \A count : OperandsAfter(ir, Op, count) = count + 1
      BY <2>1, <2>2 DEF OperandsAfter, BinaryOps
    <3> QED BY <3>1, <3>2, <1>4
  <2>3. CASE Op.name = "putchar"
    <3>1. IsSequence(exec_stack)' /\ Len(exec_stack') = Len(popped)
      BY <2>1, <2>3, <1>4 DEF IsSequence
    <3>2. \A count : OperandsAfter(ir, Op, count) = count - 1
      BY <2>1, <2>3 DEF OperandsAfter, BinaryOps
    <3> QED BY <3>1, <3>2, <1>4
  <2>4. CASE Op.name \notin {"getchar", "putchar"}
    <3>1. IsSequence(exec_stack)' /\ exec_stack' = exec_stack
      BY <2>1, <2>4, <1>4 DEF IsSequence
    <3>2. \A count : OperandsAfter(ir, Op, count) = count
      BY <2>1, <2>4 DEF OperandsAfter, BinaryOps
    <3> QED BY <3>1, <3>2, <1>4
  <2> QED BY <2>2, <2>3, <2>4
<1> HIDE DEF Counted
<1> QED BY <1>9, <1>10, <1>11, <1>12, <1>13, <1>14, <1>15, <1>16, <1>17 DEF Execute

\* A call begins with its arguments, and its caller goes on with its result.
LEMMA OperandsCalled == ASSUME ProgramsBalanced, OperandsInv, Call PROVE OperandsInv'
<1> SUFFICES ASSUME NEW n, n = Len(curr_func), NEW f, f = curr_func[n], NEW g, g = Op.name
             PROVE  OperandsInv'
  OBVIOUS
<1> DEFINE callee == ir.functions[g]
           count == OperandsAt(n)
           h == heights[n]
           height == Len(exec_stack) - callee.params
<1>1. /\ Running /\ Op.op = "CALL" /\ UNCHANGED <<ir, exec_stack>>
      /\ curr_func' = Push(curr_func, g) /\ ip_stack' = Push(ip_stack, ip + 1) /\ ip' = 0
      /\ heights' = Push(heights, height) /\ ~callee.external
  BY DEF Call, Fetch, Running
<1>2. /\ n \in Nat /\ n >= 1 /\ g \in Defined(ir) /\ OperandsPlaced /\ OperandsShape
      /\ h \in Nat /\ count \in Nat /\ count >= Takes(ir, Op) /\ Len(exec_stack) = h + count
      /\ \A j \in Follows(Code, ip) :
           j \in DOMAIN OperandsOf(f) /\ OperandsOf(f)[j] = OperandsAfter(ir, Op, count)
  <2>1. Op.name \in DOMAIN ir.functions
    BY <1>1, OperandsFetched
  <2> QED BY <2>1, <1>1, OperandsFetched DEF Defined
<1>3. /\ BalancedBy(ir, g, OperandsOf(g)) /\ callee.params \in Nat /\ callee.returns \in BOOLEAN
  BY <1>2, OperandsOfFunction DEF OperandsShape
<1>4. 0 \in DOMAIN OperandsOf(g) /\ OperandsOf(g)[0] = callee.params
  BY <1>3 DEF BalancedBy
<1>5. /\ Takes(ir, Op) = callee.params
      /\ OperandsAfter(ir, Op, count) = count - callee.params + Result(g)
      /\ ip + 1 \in Follows(Code, ip)
  BY <1>1 DEF Takes, OperandsAfter, Follows, Op, Result, BinaryOps, UnaryOps
<1>6. /\ ip + 1 \in DOMAIN OperandsOf(f)
      /\ OperandsOf(f)[ip + 1] = count - callee.params + Result(g)
  BY <1>2, <1>5
<1> HIDE DEF callee, count, h
<1>7. /\ height \in Nat /\ Len(exec_stack) = height + callee.params
      /\ height + Result(g) = h + (count - callee.params + Result(g))
  <2>1. Result(g) \in Nat
    BY DEF Result, Truth
  <2> QED BY <2>1, <1>2, <1>3, <1>5
<1> HIDE DEF height
<1>8. /\ curr_func' \in Seq(Defined(ir)) /\ Len(curr_func') = n + 1 /\ curr_func' # <<>>
      /\ curr_func'[n + 1] = g /\ \A k \in 1 .. n : curr_func'[k] = curr_func[k]
  <2> DEFINE S == Defined(ir)
  <2>1. curr_func \in Seq(S) /\ g \in S
    BY <1>2 DEF OperandsShape
  <2> HIDE DEF S
  <2> QED BY <2>1, <1>1 DEF Push, S
<1>9. /\ heights' \in Seq(Nat) /\ Len(heights') = n + 1 /\ heights'[n + 1] = height
      /\ \A k \in 1 .. n : heights'[k] = heights[k]
  <2>1. heights \in Seq(Nat) /\ Len(heights) = n
    BY <1>2 DEF OperandsShape
  <2> QED BY <2>1, <1>1, <1>7 DEF Push
<1>10. /\ IsSequence(ip_stack)' /\ Len(ip_stack') = n /\ ip_stack'[n] = ip + 1
       /\ \A k \in 1 .. n - 1 : ip_stack'[k] = ip_stack[k]
  <2>1. IsSequence(ip_stack) /\ Len(ip_stack) + 1 = n /\ Len(ip_stack) \in Nat
    BY <1>2, SequencePopped DEF OperandsShape
  <2>2. IsSequence(ip_stack)' /\ Len(ip_stack') = n
    BY <2>1, <1>1, <1>2, SequencePushed DEF IsSequence
  <2>3. PICK S : ip_stack \in Seq(S)
    BY <2>1 DEF IsSequence
  <2>4. n = Len(ip_stack) + 1 /\ n - 1 = Len(ip_stack)
    BY <2>1
  <2>5. ip_stack'[n] = ip + 1 /\ \A k \in 1 .. n - 1 : ip_stack'[k] = ip_stack[k]
    BY <2>3, <2>4, <1>1 DEF Push
  <2> QED BY <2>2, <2>5
<1>11. OperandsShape'
  <2>1. Defined(ir)' = Defined(ir)
    BY <1>1 DEF Defined
  <2> QED BY <2>1, <1>1, <1>2, <1>8, <1>9, <1>10 DEF OperandsShape, IsSequence
<1>12. \A k : OperandsOf(k)' = OperandsOf(k) /\ Result(k)' = Result(k)
  BY <1>1 DEF OperandsOf, Result
<1>13. CallAt(n + 1)' = 0 /\ OperandsAt(n + 1)' = callee.params
  BY <1>1, <1>4, <1>8, <1>12 DEF CallAt, OperandsAt, callee
<1>14. CallAt(n)' = ip + 1 /\ OperandsAt(n)' = count - callee.params + Result(g)
  <2>1. CallAt(n)' = ip + 1
    BY <1>2, <1>8, <1>10 DEF CallAt
  <2>2. n \in 1 .. n /\ curr_func'[n] = f
    BY <1>2, <1>8
  <2> QED BY <2>1, <2>2, <1>6, <1>12 DEF OperandsAt
<1>15. \A k \in 1 .. n - 1 : CallAt(k)' = CallAt(k) /\ OperandsAt(k)' = OperandsAt(k)
  <2> TAKE k \in 1 .. n - 1
  <2>1. k \in 1 .. n /\ k # n /\ k # n + 1
    BY <1>2
  <2>2. CallAt(k) = ip_stack[k] /\ CallAt(k)' = ip_stack'[k]
    BY <2>1, <1>8 DEF CallAt
  <2> QED BY <2>1, <2>2, <1>8, <1>10, <1>12 DEF OperandsAt
<1>16. \A k \in 1 .. n + 1 : CallAt(k)' \in DOMAIN OperandsOf(curr_func[k])'
  <2> TAKE k \in 1 .. n + 1
  <2>1. CASE k = n + 1
    BY <2>1, <1>4, <1>8, <1>12, <1>13
  <2>2. CASE k = n
    <3>1. n \in 1 .. n /\ curr_func'[n] = f
      BY <1>2, <1>8
    <3> QED BY <3>1, <2>2, <1>6, <1>12, <1>14
  <2>3. CASE k \in 1 .. n - 1
    <3>1. k \in 1 .. n
      BY <2>3, <1>2
    <3> QED BY <3>1, <2>3, <1>2, <1>8, <1>12, <1>15 DEF OperandsPlaced
  <2> QED BY <2>1, <2>2, <2>3, <1>2
<1>17. \A k \in 1 .. n + 1 - 1 :
         heights'[k + 1] + Result(curr_func[k + 1])' = heights'[k] + OperandsAt(k)'
  <2> TAKE k \in 1 .. n + 1 - 1
  <2>1. CASE k = n
    <3>1. heights'[n] = h /\ heights'[n + 1] = height /\ Result(curr_func[n + 1])' = Result(g)
      <4>1. n \in 1 .. n
        BY <1>2
      <4> QED BY <4>1, <1>8, <1>9, <1>12 DEF h
    <3> QED BY <3>1, <2>1, <1>7, <1>14
  <2>2. CASE k \in 1 .. n - 1
    <3>1. k \in 1 .. n /\ k + 1 \in 1 .. n
      BY <2>2, <1>2
    <3>2. heights[k + 1] + Result(curr_func[k + 1]) = heights[k] + OperandsAt(k)
      BY <2>2, <1>2 DEF OperandsPlaced
    <3>3. heights'[k + 1] = heights[k + 1] /\ heights'[k] = heights[k] /\ OperandsAt(k)' = OperandsAt(k)
      BY <3>1, <2>2, <1>9, <1>15
    <3>4. Result(curr_func[k + 1])' = Result(curr_func[k + 1])
      BY <3>1, <1>8, <1>12
    <3> QED BY <3>2, <3>3, <3>4
  <2> QED BY <2>1, <2>2, <1>2
<1>18. Len(exec_stack') = heights'[n + 1] + OperandsAt(n + 1)'
  BY <1>1, <1>7, <1>9, <1>13
<1>19. OperandsPlaced'
  BY <1>8, <1>16, <1>17, <1>18 DEF OperandsPlaced
<1> QED BY <1>11, <1>19 DEF OperandsInv

\* A call returns with its result, and nothing else of its own.
LEMMA OperandsReturned == ASSUME ProgramsBalanced, OperandsInv, Ret PROVE OperandsInv'
<1> SUFFICES ASSUME NEW n, n = Len(curr_func) PROVE OperandsInv'
  OBVIOUS
<1>1. Running /\ Op.op = "RET" /\ UNCHANGED <<ir, exec_stack>>
  BY DEF Ret, Fetch, Running
<1>2. /\ n \in Nat /\ n >= 1 /\ OperandsPlaced /\ OperandsShape
      /\ Len(exec_stack) = heights[n] + Result(curr_func[n])
  BY <1>1, OperandsFetched
<1>3. CASE ip_stack = <<>>
  <2>1. status' = "done" /\ UNCHANGED <<ip_stack, curr_func, heights>>
    BY <1>3 DEF Ret
  <2>2. OperandsShape'
    BY <2>1, <1>1, <1>2 DEF OperandsShape, IsSequence, Defined
  <2> QED BY <2>1, <2>2 DEF OperandsInv
<1>4. CASE ip_stack # <<>>
  <2>1. /\ ip' = Peek(ip_stack) /\ ip_stack' = Pop(ip_stack) /\ curr_func' = Pop(curr_func)
        /\ heights' = Pop(heights)
    BY <1>4 DEF Ret
  <2>2. /\ n - 1 \in 1 .. n - 1 /\ IsSequence(ip_stack)' /\ Len(ip_stack') = n - 2
        /\ ip' = ip_stack[n - 1]
        /\ \A k \in 1 .. n - 2 : ip_stack'[k] = ip_stack[k]
    <3>1. PICK S : ip_stack \in Seq(S)
      BY <1>2 DEF OperandsShape, IsSequence
    <3>2. /\ Pop(ip_stack) \in Seq(S) /\ Len(ip_stack) > 0
          /\ Len(Pop(ip_stack)) = Len(ip_stack) - 1
          /\ Peek(ip_stack) = ip_stack[Len(ip_stack)] /\ Len(ip_stack) \in Nat
          /\ \A k \in 1 .. Len(ip_stack) - 1 : Pop(ip_stack)[k] = ip_stack[k]
      BY <3>1, <1>4, PoppedStack
    <3>3. Len(ip_stack) + 1 = n
      BY <1>2 DEF OperandsShape
    <3>4. Len(ip_stack) = n - 1 /\ n - 1 >= 1
      BY <3>2, <3>3
    <3>5. IsSequence(ip_stack)'
      BY <3>2, <2>1 DEF IsSequence
    <3> QED BY <3>2, <3>4, <3>5, <2>1, <1>2
  <2>3. /\ curr_func' \in Seq(Defined(ir)) /\ Len(curr_func') = n - 1 /\ curr_func' # <<>>
        /\ \A k \in 1 .. n - 1 : curr_func'[k] = curr_func[k]
    <3> DEFINE S == Defined(ir)
    <3>1. curr_func \in Seq(S) /\ curr_func # <<>>
      BY <1>2 DEF OperandsShape
    <3> HIDE DEF S
    <3>2. Pop(curr_func) \in Seq(S) /\ Len(Pop(curr_func)) = n - 1
          /\ \A k \in 1 .. n - 1 : Pop(curr_func)[k] = curr_func[k]
      BY <3>1, PoppedStack
    <3>3. Pop(curr_func) # <<>>
      BY <3>2, <2>2
    <3> QED BY <3>2, <3>3, <2>1 DEF S
  <2>4. /\ heights' \in Seq(Nat) /\ Len(heights') = n - 1
        /\ \A k \in 1 .. n - 1 : heights'[k] = heights[k]
    <3>1. heights \in Seq(Nat) /\ Len(heights) = n /\ heights # <<>>
      BY <1>2 DEF OperandsShape
    <3>2. Pop(heights) \in Seq(Nat) /\ Len(Pop(heights)) = n - 1
          /\ \A k \in 1 .. n - 1 : Pop(heights)[k] = heights[k]
      BY <3>1, PoppedStack
    <3> QED BY <3>2, <2>1
  <2>5. OperandsShape'
    <3>1. Defined(ir)' = Defined(ir)
      BY <1>1 DEF Defined
    <3>2. Len(ip_stack') + 1 = Len(curr_func')
      BY <2>2, <2>3, <1>2
    <3> QED BY <3>1, <3>2, <2>2, <2>3, <2>4, <1>1, <1>2 DEF OperandsShape, IsSequence
  <2>6. \A k : OperandsOf(k)' = OperandsOf(k) /\ Result(k)' = Result(k)
    BY <1>1 DEF OperandsOf, Result
  <2>7. \A k \in 1 .. n - 1 : CallAt(k)' = CallAt(k) /\ OperandsAt(k)' = OperandsAt(k)
    <3> TAKE k \in 1 .. n - 1
    <3>1. CallAt(k) = ip_stack[k]
      BY <1>2 DEF CallAt
    <3>2. CallAt(k)' = IF k = n - 1 THEN ip' ELSE ip_stack'[k]
      BY <2>3 DEF CallAt
    <3>3. CallAt(k)' = ip_stack[k]
      <4>1. k # n - 1 => k \in 1 .. n - 2
        BY <1>2
      <4> QED BY <3>2, <4>1, <2>2
    <3> QED BY <3>1, <3>3, <2>3, <2>6 DEF OperandsAt
  <2>8. \A k \in 1 .. n - 1 : CallAt(k)' \in DOMAIN OperandsOf(curr_func[k])'
    <3> TAKE k \in 1 .. n - 1
    <3>1. k \in 1 .. n
      BY <1>2
    <3> QED BY <3>1, <2>3, <2>6, <2>7, <1>2 DEF OperandsPlaced
  <2>9. \A k \in 1 .. n - 1 - 1 :
          heights'[k + 1] + Result(curr_func[k + 1])' = heights'[k] + OperandsAt(k)'
    <3> TAKE k \in 1 .. n - 1 - 1
    <3>1. k \in 1 .. n - 1 /\ k + 1 \in 1 .. n - 1
      BY <1>2
    <3>2. heights[k + 1] + Result(curr_func[k + 1]) = heights[k] + OperandsAt(k)
      BY <3>1, <1>2 DEF OperandsPlaced
    <3>3. Result(curr_func[k + 1])' = Result(curr_func[k + 1])
      BY <3>1, <2>3, <2>6
    <3> QED BY <3>1, <3>2, <3>3, <2>4, <2>7
  <2>10. Len(exec_stack') = heights'[n - 1] + OperandsAt(n - 1)'
    <3>1. heights[n - 1 + 1] + Result(curr_func[n - 1 + 1]) = heights[n - 1] + OperandsAt(n - 1)
      BY <2>2, <1>2 DEF OperandsPlaced
    <3>2. n - 1 + 1 = n
      BY <1>2
    <3>3. Len(exec_stack') = heights[n - 1] + OperandsAt(n - 1)
      BY <3>1, <3>2, <1>1, <1>2
    <3> QED BY <3>3, <2>2, <2>4, <2>7
  <2>11. OperandsPlaced'
    BY <2>3, <2>8, <2>9, <2>10 DEF OperandsPlaced
  <2> QED BY <2>5, <2>11 DEF OperandsInv
<1> QED BY <1>3, <1>4

--------------------------------------------------------------------------------
(* The theorem about the operands.                                              *)

LEMMA OperandsStay ==
  ASSUME ProgramsBalanced
  PROVE  OperandsInv /\ StoresNoGlobal /\ [Next]_vars => OperandsInv'
<1> SUFFICES ASSUME OperandsInv, StoresNoGlobal, [Next]_vars PROVE OperandsInv'
  OBVIOUS
<1>1. CASE Call
  BY <1>1, OperandsCalled
<1>2. CASE Ret
  BY <1>2, OperandsReturned
<1>3. CASE Execute /\ ~Call /\ ~Ret
  BY <1>3, OperandsChange
<1>4. CASE FreeBlock \/ UNCHANGED vars
  <2>1. UNCHANGED <<ir, ip, exec_stack, ip_stack, curr_func, heights>> /\ (status' = status)
    BY <1>4 DEF FreeBlock, vars, callVars
  <2>2. OperandsShape' = OperandsShape /\ OperandsPlaced' = OperandsPlaced
    BY <2>1, Zenon DEF OperandsShape, OperandsPlaced, OperandsAt, OperandsOf, CallAt, Result,
                      IsSequence
  <2> QED BY <2>1, <2>2 DEF OperandsInv
<1> QED BY <1>1, <1>2, <1>3, <1>4 DEF Next

\* Whatever programs run whose code balances the operands, and as long as none of them
\* stores to a global: no opcode takes operands of a caller, and a call leaves its
\* result behind or nothing (IR_CALL and IR_RET, which do not look at the operands).
THEOREM OperandsAreBalanced ==
  ASSUME ProgramsBalanced
  PROVE  Spec /\ []StoresNoGlobal => []OperandsBalance
<1>1. Init => OperandsInv
  BY OperandsStart
<1>2. OperandsInv /\ StoresNoGlobal /\ [Next]_vars => OperandsInv'
  BY OperandsStay
<1>3. ASSUME OperandsInv PROVE OperandsBalance
  <2> SUFFICES ASSUME Running
               PROVE  /\ Len(exec_stack) - Peek(heights) >= Takes(ir, Op)
                      /\ Op.op = "RET" => Len(exec_stack) = Peek(heights) + Result(Peek(curr_func))
    BY DEF OperandsBalance, Running, At, Result
  <2> DEFINE n == Len(curr_func)
             count == OperandsAt(n)
  <2>1. /\ Peek(heights) \in Nat /\ count \in Nat /\ count >= Takes(ir, Op)
        /\ Len(exec_stack) = Peek(heights) + count
        /\ Op.op = "RET" => count = Result(Peek(curr_func))
    BY <1>3, OperandsFetched
  <2> HIDE DEF count
  <2>2. Len(exec_stack) - Peek(heights) = count
    BY <2>1
  <2> QED BY <2>1, <2>2
<1> QED BY <1>1, <1>2, <1>3, PTL DEF Spec
================================================================================
