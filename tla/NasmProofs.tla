------------------------------- MODULE NasmProofs -------------------------------
(***************************************************************************)
(* The code of the backend does what the interpreter does, for every program *)
(* whose code balances the operands and says what is in the frames            *)
(* (ProgramsBalanced, ProgramsTidy), with constants that fit in an            *)
(* instruction (ProgramsNative), as long as it uses pointers as the language  *)
(* means them (PointersBehave).                                               *)
(*                                                                          *)
(* The statements about the two memories are made of the frames s, the words  *)
(* m of the data stack that are not being given back, and the contents.       *)
(***************************************************************************)
EXTENDS Lockstep, IrVariableProofs, FiniteSetTheorems

--------------------------------------------------------------------------------
(* Depths.                                                                      *)

\* The frames, but the first, that begin at a word or in front of it.
Below_(s, i) == {k \in 2 .. Len(s) : s[k] <= i}

DepthIn(s, i) == i + 1 + 2 * Cardinality(Below_(s, i))

Ascending(s) ==
  s \in Seq(Nat) /\ \A j, k \in 1 .. Len(s) : j < k => s[j] <= s[k]

LEMMA DepthsAreCounted == \A i : Depth(i) = DepthIn(fp, i)
BY DEF Depth, DepthIn, Below_

LEMMA CountBelow ==
  ASSUME NEW s \in Seq(Nat), NEW i \in Nat
  PROVE  /\ IsFiniteSet(Below_(s, i)) /\ Cardinality(Below_(s, i)) \in Nat
         /\ Len(s) >= 1 => Cardinality(Below_(s, i)) <= Len(s) - 1
         /\ DepthIn(s, i) \in Nat /\ DepthIn(s, i) >= 1
<1>1. /\ Len(s) \in Int /\ Below_(s, i) \in SUBSET (2 .. Len(s))
  BY DEF Below_
<1>2. /\ IsFiniteSet(2 .. Len(s))
      /\ Cardinality(2 .. Len(s)) = IF 2 > Len(s) THEN 0 ELSE Len(s) - 2 + 1
  <2>1. 2 \in Int
    OBVIOUS
  <2> QED BY <1>1, <2>1, FS_Interval, Zenon
<1>3. IsFiniteSet(Below_(s, i)) /\ Cardinality(Below_(s, i)) <= Cardinality(2 .. Len(s))
  BY <1>1, <1>2, FS_Subset
<1>4. Cardinality(Below_(s, i)) \in Nat
  BY <1>3, FS_CardinalityType
<1>5. DepthIn(s, i) \in Nat /\ DepthIn(s, i) >= 1
  BY <1>4 DEF DepthIn
<1> QED BY <1>1, <1>2, <1>3, <1>4, <1>5

\* Words that are apart have depths that are, in the same order.
LEMMA DepthsRise ==
  ASSUME NEW s \in Seq(Nat), NEW i \in Nat, NEW j \in Nat, i < j
  PROVE  DepthIn(s, i) < DepthIn(s, j)
<1>1. IsFiniteSet(Below_(s, j)) /\ Cardinality(Below_(s, j)) \in Nat /\ Cardinality(Below_(s, i)) \in Nat
  BY CountBelow
<1>2. Below_(s, i) \in SUBSET Below_(s, j)
  <2> SUFFICES ASSUME NEW k \in 2 .. Len(s), s[k] <= i PROVE s[k] <= j
    BY DEF Below_
  <2>1. s[k] \in Nat
    BY ElementOfSeq
  <2> QED BY <2>1
<1>3. Cardinality(Below_(s, i)) <= Cardinality(Below_(s, j))
  BY <1>1, <1>2, FS_Subset
<1> QED BY <1>1, <1>3 DEF DepthIn

LEMMA DepthsDiffer ==
  ASSUME NEW s \in Seq(Nat), NEW i \in Nat, NEW j \in Nat, DepthIn(s, i) = DepthIn(s, j)
  PROVE  i = j
<1>1. DepthIn(s, i) \in Nat /\ DepthIn(s, j) \in Nat
  BY CountBelow
<1>2. ~(i < j) /\ ~(j < i)
  BY <1>1, DepthsRise
<1> QED BY <1>2

\* The words of a frame are behind what its call saved, those of the frames in front
\* of it are in front of that.
LEMMA DepthsAroundFrame ==
  ASSUME NEW s, Ascending(s), NEW k \in 2 .. Len(s), NEW i \in Nat
  PROVE  /\ s[k] \in Nat
         /\ s[k] <= i => DepthIn(s, i) >= i + 1 + 2 * (k - 1)
         /\ s[k] > i => DepthIn(s, i) <= i + 1 + 2 * (k - 2)
<1>1. /\ s \in Seq(Nat) /\ Len(s) \in Nat /\ k \in Nat /\ k >= 2 /\ k <= Len(s)
      /\ \A j \in 1 .. Len(s) : s[j] \in Nat
  BY ElementOfSeq DEF Ascending
<1>2. IsFiniteSet(Below_(s, i)) /\ Cardinality(Below_(s, i)) \in Nat
  BY <1>1, CountBelow
<1>3. s[k] \in Nat
  BY <1>1
<1>4. ASSUME s[k] <= i PROVE DepthIn(s, i) >= i + 1 + 2 * (k - 1)
  <2>1. 2 .. k \in SUBSET Below_(s, i)
    <3> SUFFICES ASSUME NEW j \in 2 .. k PROVE j \in 2 .. Len(s) /\ s[j] <= i
      BY DEF Below_
    <3>1. j \in 1 .. Len(s) /\ k \in 1 .. Len(s) /\ j \in 2 .. Len(s) /\ (j = k \/ j < k)
      BY <1>1
    <3>2. s[j] <= s[k] /\ s[j] \in Nat
      <4>1. s[j] \in Nat /\ s[k] \in Nat
        BY <3>1, <1>1
      <4>2. CASE j = k
        BY <4>1, <4>2
      <4>3. CASE j < k
        BY <4>1, <4>3, <3>1 DEF Ascending
      <4> QED BY <4>2, <4>3, <3>1
    <3> QED BY <3>1, <3>2, <1>3, <1>4
  <2>2. Cardinality(2 .. k) = k - 1
    BY <1>1, FS_Interval
  <2>3. Cardinality(2 .. k) <= Cardinality(Below_(s, i))
    BY <1>2, <2>1, FS_Subset
  <2> QED BY <1>1, <1>2, <2>2, <2>3 DEF DepthIn
<1>5. ASSUME s[k] > i PROVE DepthIn(s, i) <= i + 1 + 2 * (k - 2)
  <2>1. Below_(s, i) \in SUBSET (2 .. k - 1)
    <3> SUFFICES ASSUME NEW j \in 2 .. Len(s), s[j] <= i PROVE j \in 2 .. k - 1
      BY DEF Below_
    <3>1. j \in 1 .. Len(s) /\ k \in 1 .. Len(s) /\ s[j] \in Nat
      BY <1>1
    <3>2. ~(k < j) /\ j # k
      BY <3>1, <1>3, <1>5 DEF Ascending
    <3> QED BY <3>2, <1>1
  <2>2. IsFiniteSet(2 .. k - 1) /\ Cardinality(2 .. k - 1) = k - 2
    <3> DEFINE last == k - 1
    <3>1. last \in Int /\ last >= 1 /\ 2 \in Int
      BY <1>1
    <3> HIDE DEF last
    <3>2. IsFiniteSet(2 .. last) /\ Cardinality(2 .. last) = IF 2 > last THEN 0 ELSE last - 2 + 1
      BY <3>1, FS_Interval, Zenon
    <3>3. Cardinality(2 .. last) = last - 1
      BY <3>1, <3>2
    <3> QED BY <1>1, <3>2, <3>3 DEF last
  <2>3. Cardinality(Below_(s, i)) <= k - 2
    BY <2>1, <2>2, FS_Subset
  <2> QED BY <1>1, <1>2, <2>3 DEF DepthIn
<1> QED BY <1>3, <1>4, <1>5

\* In the last frame.
LEMMA DepthOnTop ==
  ASSUME NEW s, Ascending(s), NEW i \in Nat, Len(s) >= 2, s[Len(s)] <= i
  PROVE  DepthIn(s, i) = i + 1 + 2 * (Len(s) - 1)
<1>1. s \in Seq(Nat) /\ Len(s) \in 2 .. Len(s) /\ Len(s) \in Nat
  BY DEF Ascending
<1>2. DepthIn(s, i) >= i + 1 + 2 * (Len(s) - 1)
  BY <1>1, DepthsAroundFrame
<1>3. Cardinality(Below_(s, i)) \in Nat /\ Cardinality(Below_(s, i)) <= Len(s) - 1
  <2>1. Len(s) >= 1
    BY <1>1
  <2>2. Cardinality(Below_(s, i)) \in Nat
    BY <1>1, CountBelow, Zenon
  <2>3. Len(s) >= 1 => Cardinality(Below_(s, i)) <= Len(s) - 1
    BY <1>1, CountBelow, Zenon
  <2> QED BY <2>1, <2>2, <2>3
<1> DEFINE l == Len(s)
           c == Cardinality(Below_(s, i))
           d == DepthIn(s, i)
<1>4. l \in Nat /\ c \in Nat /\ c <= l - 1 /\ d >= i + 1 + 2 * (l - 1) /\ d = i + 1 + 2 * c
  BY <1>1, <1>2, <1>3 DEF DepthIn
<1> HIDE DEF l, c, d
<1>5. d = i + 1 + 2 * (l - 1)
  BY <1>4
<1> QED BY <1>5 DEF d, l

\* Another frame at the end changes nothing below it.
LEMMA DepthLonger ==
  ASSUME NEW s \in Seq(Nat), NEW t \in Seq(Nat), Len(t) = Len(s) + 1,
         \A k \in 1 .. Len(s) : t[k] = s[k],
         NEW i \in Nat, i < t[Len(t)]
  PROVE  DepthIn(t, i) = DepthIn(s, i)
<1>1. Below_(t, i) = Below_(s, i)
  <2>1. Len(s) \in Nat /\ Len(t) \in Nat
    OBVIOUS
  <2>2. \A k : k \in 2 .. Len(t) /\ t[k] <= i <=> k \in 2 .. Len(s) /\ s[k] <= i
    <3> TAKE k
    <3>1. CASE k = Len(t)
      <4>1. Len(t) \in 1 .. Len(t)
        BY <2>1
      <4>2. t[Len(t)] \in Nat
        BY <4>1, ElementOfSeq
      <4> QED BY <2>1, <3>1, <4>2
    <3>2. CASE k # Len(t)
      <4>1. k \in 2 .. Len(t) <=> k \in 2 .. Len(s)
        BY <2>1, <3>2
      <4>2. k \in 2 .. Len(s) => t[k] = s[k]
        BY <2>1
      <4> QED BY <4>1, <4>2
    <3> QED BY <3>1, <3>2
  <2> QED BY <2>2 DEF Below_
<1> QED BY <1>1 DEF DepthIn

--------------------------------------------------------------------------------
(* Memory of the processor.                                                     *)

LEMMA LongerOfTwo ==
  ASSUME NEW a \in Nat, NEW b \in Nat
  PROVE  Max({a, b}) \in Nat /\ Max({a, b}) >= a /\ Max({a, b}) >= b
<1>1. \E x \in {a, b} : \A y \in {a, b} : x >= y
  <2>1. CASE a >= b
    BY <2>1
  <2>2. CASE b >= a
    BY <2>2
  <2> QED BY <2>1, <2>2
<1>2. Max({a, b}) \in {a, b} /\ \A y \in {a, b} : Max({a, b}) >= y
  BY <1>1, Zenon DEF Max
<1> QED BY <1>2

LEMMA WrittenWord ==
  ASSUME IsSequence(memory), NEW d \in Nat, d >= 1, NEW word, NEW after, after = Written(d, word)
  PROVE  /\ IsSequence(after) /\ Len(memory) \in Nat /\ Len(after) \in Nat
         /\ Len(after) >= Len(memory) /\ Len(after) >= d
         /\ after[d] = word
         /\ \A e \in 1 .. Len(memory) : e # d => after[e] = memory[e]
<1> DEFINE size == Max({Len(memory), d})
<1>1. Len(memory) \in Nat
  BY DEF IsSequence
<1>2. size \in Nat /\ size >= Len(memory) /\ size >= d
  BY <1>1, LongerOfTwo
<1>3. after = [e \in 1 .. size |-> IF e = d THEN word ELSE IF e <= Len(memory) THEN memory[e] ELSE Unknown]
  BY DEF Written
<1> HIDE DEF size
<1>4. after \in Seq({after[e] : e \in 1 .. size}) /\ Len(after) = size
  <2> DEFINE S == {after[e] : e \in 1 .. size}
  <2>1. after \in [1 .. size -> S]
    BY <1>3
  <2> HIDE DEF S
  <2>2. after \in Seq(S)
    BY <2>1, <1>2, SeqDef
  <2>3. Len(after) = size
    BY <2>1, <2>2, <1>2, LenProperties
  <2> QED BY <2>2, <2>3 DEF S
<1>5. IsSequence(after)
  BY <1>4 DEF IsSequence
<1>6. after[d] = word
  BY <1>2, <1>3
<1>7. \A e \in 1 .. Len(memory) : e # d => after[e] = memory[e]
  BY <1>1, <1>2, <1>3
<1> QED BY <1>1, <1>2, <1>4, <1>5, <1>6, <1>7

--------------------------------------------------------------------------------
(* Words and values.                                                            *)

\* A word that stands for a value for as long as what it may point to is there.
Firm(word, v, s, m) ==
  word = Int_(v) \/ (v \in 0 .. m - 1 /\ word = Address(DepthIn(s, v)))

Matches(a, b, s, m) ==
  /\ IsSequence(a) /\ IsSequence(b) /\ Len(a) = Len(b)
  /\ \A i \in 1 .. Len(a) : Firm(a[i], b[i], s, m)

LEMMA FirmWord ==
  ASSUME NEW word, NEW v, NEW s, NEW m, Firm(word, v, s, m)
  PROVE  /\ IsInt(word) => word = Int_(v) /\ Value(word) = v
         /\ IsAddress(word) => v \in 0 .. m - 1 /\ word = Address(DepthIn(s, v))
                                 /\ Value(word) = DepthIn(s, v)
         /\ Firm(Int_(v), v, s, m) /\ IsInt(Int_(v)) /\ ~IsAddress(Int_(v))
         /\ IsInt(word) \/ IsAddress(word)
BY DEF Firm, IsInt, IsAddress, Int_, Address, Value

\* The first n of the operands.
LEMMA MatchesFirst ==
  ASSUME NEW a, NEW b, NEW s, NEW m, Matches(a, b, s, m), NEW n \in 0 .. Len(a)
  PROVE  /\ Matches(SubSeq(a, 1, n), SubSeq(b, 1, n), s, m)
         /\ Len(SubSeq(a, 1, n)) = n
<1>1. PICK A : a \in Seq(A)
  BY DEF Matches, IsSequence
<1>2. PICK B : b \in Seq(B)
  BY DEF Matches, IsSequence
<1>3. /\ SubSeq(a, 1, n) \in Seq(A) /\ Len(SubSeq(a, 1, n)) = n
      /\ \A i \in 1 .. n : SubSeq(a, 1, n)[i] = a[i]
  <2>1. n \in Nat /\ \A i \in 1 .. n : a[i] \in A
    BY <1>1
  <2>2. /\ SubSeq(a, 1, n) \in Seq(A)
        /\ Len(SubSeq(a, 1, n)) = IF 1 <= n THEN n - 1 + 1 ELSE 0
        /\ \A i \in 1 .. n - 1 + 1 : SubSeq(a, 1, n)[i] = a[1 + i - 1]
    BY <2>1, SubSeqProperties
  <2> QED BY <2>1, <2>2
<1>4. /\ SubSeq(b, 1, n) \in Seq(B) /\ Len(SubSeq(b, 1, n)) = n
      /\ \A i \in 1 .. n : SubSeq(b, 1, n)[i] = b[i]
  <2>1. n \in Nat /\ \A i \in 1 .. n : b[i] \in B
    BY <1>2, <1>1 DEF Matches
  <2>2. /\ SubSeq(b, 1, n) \in Seq(B)
        /\ Len(SubSeq(b, 1, n)) = IF 1 <= n THEN n - 1 + 1 ELSE 0
        /\ \A i \in 1 .. n - 1 + 1 : SubSeq(b, 1, n)[i] = b[1 + i - 1]
    BY <2>1, SubSeqProperties
  <2> QED BY <2>1, <2>2
<1>5. \A i \in 1 .. n : Firm(a[i], b[i], s, m)
  BY <1>1 DEF Matches
<1>6. IsSequence(SubSeq(a, 1, n)) /\ IsSequence(SubSeq(b, 1, n))
  BY <1>3, <1>4 DEF IsSequence
<1>7. \A i \in 1 .. n : Firm(SubSeq(a, 1, n)[i], SubSeq(b, 1, n)[i], s, m)
  BY <1>3, <1>4, <1>5
<1> HIDE DEF Firm
<1> QED BY <1>3, <1>4, <1>6, <1>7 DEF Matches

LEMMA MatchesMore ==
  ASSUME NEW a, NEW b, NEW s, NEW m, Matches(a, b, s, m), NEW word, NEW v, Firm(word, v, s, m)
  PROVE  /\ Matches(Append(a, word), Push(b, v), s, m)
         /\ Len(Append(a, word)) = Len(a) + 1
<1>1. PICK A : a \in Seq(A)
  BY DEF Matches, IsSequence
<1>2. PICK B : b \in Seq(B)
  BY DEF Matches, IsSequence
<1> DEFINE AA == A \cup {word}
           BB == B \cup {v}
<1>3. a \in Seq(AA) /\ b \in Seq(BB) /\ word \in AA /\ v \in BB
  BY <1>1, <1>2, SeqMonotonic
<1> HIDE DEF AA, BB
<1>4. /\ Append(a, word) \in Seq(AA) /\ Len(Append(a, word)) = Len(a) + 1
      /\ Append(a, word)[Len(a) + 1] = word
      /\ \A i \in 1 .. Len(a) : Append(a, word)[i] = a[i]
  BY <1>3
<1>5. /\ Push(b, v) \in Seq(BB) /\ Len(Push(b, v)) = Len(b) + 1
      /\ Push(b, v)[Len(b) + 1] = v
      /\ \A i \in 1 .. Len(b) : Push(b, v)[i] = b[i]
  BY <1>3 DEF Push
<1>6. Len(a) = Len(b) /\ Len(a) \in Nat /\ \A i \in 1 .. Len(a) : Firm(a[i], b[i], s, m)
  BY <1>1 DEF Matches
<1>7. IsSequence(Append(a, word)) /\ IsSequence(Push(b, v))
  BY <1>4, <1>5 DEF IsSequence
<1>8. \A i \in 1 .. Len(a) + 1 : Firm(Append(a, word)[i], Push(b, v)[i], s, m)
  <2> TAKE i \in 1 .. Len(a) + 1
  <2>1. CASE i = Len(a) + 1
    BY <2>1, <1>4, <1>5, <1>6
  <2>2. CASE i # Len(a) + 1
    <3>1. i \in 1 .. Len(a)
      BY <2>2, <1>6
    <3> QED BY <3>1, <1>4, <1>5, <1>6
  <2> QED BY <2>1, <2>2
<1> QED BY <1>4, <1>5, <1>6, <1>7, <1>8 DEF Matches

\* The stacks of the interpreter, in the words of the processor's.
LEMMA MatchesTop ==
  ASSUME NEW a, NEW b, NEW s, NEW m, Matches(a, b, s, m)
  PROVE  /\ Len(a) \in Nat
         /\ Len(a) >= 1 => /\ Firm(a[Len(a)], Peek(b), s, m)
                           /\ Pop(b) = SubSeq(b, 1, Len(a) - 1)
         /\ Len(a) >= 2 => /\ Firm(a[Len(a) - 1], Below(b), s, m)
                           /\ Pop(Pop(b)) = SubSeq(b, 1, Len(a) - 2)
<1>1. /\ Len(a) \in Nat /\ Len(b) = Len(a) /\ IsSequence(b)
      /\ \A i \in 1 .. Len(a) : Firm(a[i], b[i], s, m)
  BY DEF Matches, IsSequence
<1>2. PICK B : b \in Seq(B)
  BY <1>1 DEF IsSequence
<1>3. ASSUME Len(a) >= 1
      PROVE  /\ b # <<>> /\ Peek(b) = b[Len(a)] /\ Len(a) \in 1 .. Len(a)
             /\ Pop(b) = SubSeq(b, 1, Len(a) - 1)
  <2>1. b # <<>>
    BY <1>1, <1>3
  <2> QED BY <2>1, <1>1, <1>3 DEF Peek, Pop
<1>4. ASSUME Len(a) >= 2
      PROVE  /\ Below(b) = b[Len(a) - 1] /\ Len(a) - 1 \in 1 .. Len(a)
             /\ Pop(Pop(b)) = SubSeq(b, 1, Len(a) - 2)
  <2>1. /\ Pop(b) = SubSeq(b, 1, Len(a) - 1) /\ b # <<>>
        /\ Pop(b) \in Seq(B) /\ Len(Pop(b)) = Len(a) - 1
        /\ \A i \in 1 .. Len(a) - 1 : Pop(b)[i] = b[i]
    BY <1>1, <1>2, <1>3, <1>4, PoppedStack
  <2>2. Pop(b) # <<>> /\ Len(a) - 1 \in 1 .. Len(a) - 1
    <3>1. Pop(b) = <<>> => Len(Pop(b)) = 0
      OBVIOUS
    <3>2. Len(Pop(b)) # 0 /\ Len(a) - 1 \in 1 .. Len(a) - 1
      BY <2>1, <1>1, <1>4
    <3> QED BY <3>1, <3>2
  <2>3. Below(b) = b[Len(a) - 1]
    BY <2>1, <2>2 DEF Below, Peek
  <2>4. Pop(Pop(b)) = SubSeq(Pop(b), 1, Len(a) - 1 - 1)
    BY <2>1, <2>2 DEF Pop
  <2>5. SubSeq(Pop(b), 1, Len(a) - 2) = SubSeq(b, 1, Len(a) - 2)
    <3> DEFINE k == Len(a) - 2
    <3>1. k \in Nat /\ k <= Len(Pop(b)) /\ k <= Len(b) /\ Len(a) - 1 - 1 = k
      BY <2>1, <1>1, <1>4
    <3>2. \A i \in 1 .. k : Pop(b)[i] = b[i]
      BY <2>1, <1>1
    <3>3. /\ SubSeq(Pop(b), 1, k) = [i \in 1 .. k |-> Pop(b)[i]]
          /\ SubSeq(b, 1, k) = [i \in 1 .. k |-> b[i]]
      BY <3>1, <2>1, <1>2
    <3> HIDE DEF k
    <3>4. SubSeq(Pop(b), 1, k) = SubSeq(b, 1, k)
      BY <3>2, <3>3
    <3> QED BY <3>4 DEF k
  <2>6. Len(a) - 1 - 1 = Len(a) - 2 /\ Len(a) - 1 \in 1 .. Len(a)
    BY <1>1, <1>4
  <2> QED BY <2>3, <2>4, <2>5, <2>6
<1> QED BY <1>1, <1>3, <1>4

\* More of the interpreter's memory: a word that was firm stays so.
LEMMA FirmInMore ==
  ASSUME NEW word, NEW v, NEW s, NEW t, NEW m \in Nat, NEW n \in Nat, m <= n,
         Firm(word, v, s, m), \A i \in 0 .. m - 1 : DepthIn(t, i) = DepthIn(s, i)
  PROVE  Firm(word, v, t, n)
<1>1. CASE word = Int_(v)
  BY <1>1 DEF Firm
<1>2. CASE v \in 0 .. m - 1 /\ word = Address(DepthIn(s, v))
  <2>1. v \in 0 .. n - 1
    BY <1>2
  <2> QED BY <1>2, <2>1 DEF Firm
<1> QED BY <1>1, <1>2 DEF Firm

\* Less of it: a word stays firm if it does not point to what went.
LEMMA FirmInLess ==
  ASSUME NEW word, NEW v, NEW s \in Seq(Nat), NEW t, NEW m \in Nat, NEW n \in Nat, n <= m,
         Firm(word, v, s, m), \A i \in 0 .. n - 1 : DepthIn(t, i) = DepthIn(s, i),
         IsAddress(word) => \E i \in 0 .. n - 1 : word = Address(DepthIn(t, i))
  PROVE  Firm(word, v, t, n)
<1>1. CASE word = Int_(v)
  BY <1>1 DEF Firm
<1>2. CASE v \in 0 .. m - 1 /\ word = Address(DepthIn(s, v))
  <2>1. PICK i \in 0 .. n - 1 : word = Address(DepthIn(t, i))
    BY <1>2 DEF IsAddress, Address
  <2>2. DepthIn(s, v) = DepthIn(s, i) /\ v \in Nat /\ i \in Nat
    BY <1>2, <2>1 DEF Address
  <2>3. v = i
    BY <2>2, DepthsDiffer
  <2> QED BY <2>1, <2>3 DEF Firm
<1> QED BY <1>1, <1>2 DEF Firm

LEMMA MatchesInMore ==
  ASSUME NEW a, NEW b, NEW s, NEW t, NEW m \in Nat, NEW n \in Nat, m <= n,
         Matches(a, b, s, m), \A i \in 0 .. m - 1 : DepthIn(t, i) = DepthIn(s, i)
  PROVE  Matches(a, b, t, n)
BY FirmInMore DEF Matches

LEMMA MatchesInLess ==
  ASSUME NEW a, NEW b, NEW s \in Seq(Nat), NEW t, NEW m \in Nat, NEW n \in Nat, n <= m,
         Matches(a, b, s, m), \A i \in 0 .. n - 1 : DepthIn(t, i) = DepthIn(s, i),
         \A k \in 1 .. Len(a) : IsAddress(a[k]) =>
            \E i \in 0 .. n - 1 : a[k] = Address(DepthIn(t, i))
  PROVE  Matches(a, b, t, n)
<1>1. \A k \in 1 .. Len(a) : Firm(a[k], b[k], t, n)
  <2> TAKE k \in 1 .. Len(a)
  <2>1. /\ Firm(a[k], b[k], s, m)
        /\ IsAddress(a[k]) => \E i \in 0 .. n - 1 : a[k] = Address(DepthIn(t, i))
    BY DEF Matches
  <2> HIDE DEF Firm, DepthIn
  <2> QED BY <2>1, FirmInLess
<1> QED BY <1>1 DEF Matches

--------------------------------------------------------------------------------
(* What the frames of the processor are.                                        *)

\* Where the k-th call keeps the rbp of its caller, and the address it returns to.
Base(s, k) == s[k] + 2 * (k - 1)
ReturnAt(s, m, k) == (IF k <= Len(s) THEN s[k] ELSE m) + 2 * (k - 2) + 1

SavedBase(s, k) == Address(IF k = 2 THEN 0 ELSE Base(s, k - 1))
SavedReturn(calls, returns, k) ==
  IF k = 2 THEN <<"return">> \o Outside ELSE <<"return", calls[k - 1], returns[k - 1]>>

FramesSaved(mem, s, m, calls, returns) ==
  /\ \A k \in 2 .. Len(s) : mem[Base(s, k)] = SavedBase(s, k)
  /\ \A k \in 2 .. Len(calls) : mem[ReturnAt(s, m, k)] = SavedReturn(calls, returns, k)

RspOf(s, m, calls) == m + (Len(s) - 1) + (Len(calls) - 1)
RbpOf(s) == IF Len(s) >= 2 THEN Base(s, Len(s)) ELSE 0

VariablesMatch(mem, a, d, s, m) ==
  \A b \in 1 .. Len(a) : a[b].start < m /\ a[b].size = 1 =>
    Firm(mem[DepthIn(s, a[b].start)], d[a[b].start + 1], s, m)

\* The frames and the words of the interpreter's memory: those of calls, or one less.
Nested(s, m, calls) ==
  /\ Ascending(s) /\ m \in Nat /\ Len(calls) \in Nat /\ Len(calls) >= 2
  /\ Len(s) \in {Len(calls) - 1, Len(calls)}
  /\ \A k \in 1 .. Len(s) : s[k] \in Nat /\ s[k] <= m

\* Everything has a place of its own, below rsp.
LEMMA PlacesApart ==
  ASSUME NEW s, NEW m, NEW calls, Nested(s, m, calls)
  PROVE  /\ RspOf(s, m, calls) \in Nat /\ RspOf(s, m, calls) >= 1
         /\ \A i \in 0 .. m - 1 :
              DepthIn(s, i) \in Nat /\ DepthIn(s, i) >= 1 /\ DepthIn(s, i) <= RspOf(s, m, calls)
         /\ \A k \in 2 .. Len(s) :
              /\ Base(s, k) \in Nat /\ Base(s, k) >= 1 /\ Base(s, k) <= RspOf(s, m, calls)
              /\ \A i \in 0 .. m - 1 : Base(s, k) # DepthIn(s, i)
         /\ \A k \in 2 .. Len(calls) :
              /\ ReturnAt(s, m, k) \in Nat /\ ReturnAt(s, m, k) >= 1
              /\ ReturnAt(s, m, k) <= RspOf(s, m, calls)
              /\ \A i \in 0 .. m - 1 : ReturnAt(s, m, k) # DepthIn(s, i)
<1> DEFINE n == Len(calls)
           top == RspOf(s, m, calls)
           l == Len(s)
<1>1. /\ m \in Nat /\ n \in Nat /\ n >= 2 /\ l \in {n - 1, n} /\ l \in Nat /\ l >= 1
      /\ Ascending(s) /\ s \in Seq(Nat)
      /\ \A k \in 1 .. l : s[k] \in Nat /\ s[k] <= m
  BY DEF Nested, Ascending
<1>2. top = m + (l - 1) + (n - 1)
  BY DEF RspOf
<1> HIDE DEF n, top
<1>3. top \in Nat /\ top >= 1 /\ top >= m + 2 * (l - 1)
  <2>1. CASE l = n
    BY <1>1, <1>2, <2>1
  <2>2. CASE l = n - 1
    BY <1>1, <1>2, <2>2
  <2> QED BY <1>1, <2>1, <2>2
<1>4. ASSUME NEW i \in 0 .. m - 1
      PROVE  /\ DepthIn(s, i) \in Nat /\ DepthIn(s, i) >= 1
             /\ DepthIn(s, i) <= i + 1 + 2 * (l - 1) /\ DepthIn(s, i) <= top
  <2>1. i \in Nat /\ i <= m - 1
    BY <1>1
  <2>2. /\ Cardinality(Below_(s, i)) \in Nat /\ DepthIn(s, i) \in Nat /\ DepthIn(s, i) >= 1
        /\ Cardinality(Below_(s, i)) <= l - 1
    BY <1>1, <2>1, CountBelow, Zenon
  <2>3. DepthIn(s, i) <= i + 1 + 2 * (l - 1)
    BY <1>1, <2>1, <2>2 DEF DepthIn
  <2> HIDE DEF l
  <2> QED BY <1>1, <1>3, <2>1, <2>2, <2>3
<1>5. ASSUME NEW k \in 2 .. l
      PROVE  /\ k \in Nat /\ k >= 2 /\ k <= l /\ s[k] \in Nat /\ s[k] <= m
             /\ \A i \in 0 .. m - 1 :
                  /\ s[k] <= i => DepthIn(s, i) >= i + 1 + 2 * (k - 1)
                  /\ s[k] > i => DepthIn(s, i) <= i + 1 + 2 * (k - 2)
  <2>1. k \in Nat /\ k >= 2 /\ k <= l /\ k \in 1 .. l
    BY <1>1
  <2>2. s[k] \in Nat /\ s[k] <= m
    BY <2>1, <1>1
  <2>3. ASSUME NEW i \in 0 .. m - 1
        PROVE  /\ s[k] <= i => DepthIn(s, i) >= i + 1 + 2 * (k - 1)
               /\ s[k] > i => DepthIn(s, i) <= i + 1 + 2 * (k - 2)
    <3>1. i \in Nat
      BY <1>1
    <3> QED BY <1>1, <3>1, DepthsAroundFrame
  <2> QED BY <2>1, <2>2, <2>3
<1> HIDE DEF l
<1>6. ASSUME NEW k \in 2 .. l
      PROVE  /\ Base(s, k) \in Nat /\ Base(s, k) >= 1 /\ Base(s, k) <= top
             /\ \A i \in 0 .. m - 1 : Base(s, k) # DepthIn(s, i)
  <2>1. /\ k \in Nat /\ k >= 2 /\ k <= l /\ s[k] \in Nat /\ s[k] <= m
        /\ Base(s, k) = s[k] + 2 * (k - 1)
    BY <1>5 DEF Base
  <2>2. ASSUME NEW i \in 0 .. m - 1 PROVE Base(s, k) # DepthIn(s, i)
    <3>1. /\ i \in Nat /\ DepthIn(s, i) \in Nat
          /\ s[k] <= i => DepthIn(s, i) >= i + 1 + 2 * (k - 1)
          /\ s[k] > i => DepthIn(s, i) <= i + 1 + 2 * (k - 2)
      BY <1>1, <1>4, <1>5
    <3> QED BY <2>1, <3>1
  <2> QED BY <1>1, <1>3, <2>1, <2>2
<1>7. ASSUME NEW k \in 2 .. n
      PROVE  /\ ReturnAt(s, m, k) \in Nat /\ ReturnAt(s, m, k) >= 1 /\ ReturnAt(s, m, k) <= top
             /\ \A i \in 0 .. m - 1 : ReturnAt(s, m, k) # DepthIn(s, i)
  <2>1. CASE k \in 2 .. l
    <3>1. /\ k \in Nat /\ k >= 2 /\ k <= l /\ s[k] \in Nat /\ s[k] <= m
          /\ ReturnAt(s, m, k) = s[k] + 2 * (k - 2) + 1
      BY <2>1, <1>5 DEF ReturnAt, l
    <3>2. ASSUME NEW i \in 0 .. m - 1 PROVE ReturnAt(s, m, k) # DepthIn(s, i)
      <4>1. /\ i \in Nat /\ DepthIn(s, i) \in Nat
            /\ s[k] <= i => DepthIn(s, i) >= i + 1 + 2 * (k - 1)
            /\ s[k] > i => DepthIn(s, i) <= i + 1 + 2 * (k - 2)
        BY <1>1, <1>4, <1>5, <2>1
      <4> QED BY <3>1, <4>1
    <3> QED BY <1>1, <1>3, <3>1, <3>2
  <2>2. CASE k \notin 2 .. l
    <3>1. k = n /\ l = n - 1
      BY <1>1, <2>2
    <3>2. ReturnAt(s, m, k) = m + 2 * (n - 2) + 1
      BY <1>1, <3>1 DEF ReturnAt, l
    <3>3. ReturnAt(s, m, k) = top /\ ReturnAt(s, m, k) = m + 2 * l - 1
      BY <1>1, <1>2, <3>1, <3>2
    <3>4. ASSUME NEW i \in 0 .. m - 1 PROVE ReturnAt(s, m, k) # DepthIn(s, i)
      <4>1. i \in Nat /\ i <= m - 1 /\ DepthIn(s, i) \in Nat /\ DepthIn(s, i) <= i + 1 + 2 * (l - 1)
        BY <1>1, <1>4
      <4> QED BY <1>1, <3>3, <4>1
    <3> QED BY <1>1, <1>3, <3>3, <3>4
  <2> QED BY <2>1, <2>2
<1> QED BY <1>3, <1>4, <1>6, <1>7 DEF n, top, l

--------------------------------------------------------------------------------
(* The opcode that runs, in both.                                               *)

\* What is assumed of the programs, with ProgramsTidy and ProgramsBalanced.
ProgramsNative == \A p \in Programs : Native_(p)

\* The processor is where the interpreter is, and has in its memory what the
\* interpreter has.
Linked ==
  /\ Len(curr_func) >= 2
  /\ rip = <<Peek(curr_func), ip>>
  /\ IsSequence(memory) /\ rsp <= Len(memory)
  /\ rsp = RspOf(fp, Words, curr_func) /\ rbp = RbpOf(fp)
  /\ FramesSaved(memory, fp, Words, curr_func, ip_stack)
  /\ Matches(operands, exec_stack, fp, Words)
  /\ VariablesMatch(memory, allocations, data_stack, fp, Words)

LEMMA OperandsOfTwo ==
  ASSUME NEW op \in STRING, NEW p, NEW o, o.op = op
  PROVE  /\ op \in BinaryOps \cup {"STORE"} => Takes(p, o) = 2
         /\ op \in UnaryOps \cup {"POP", "CLONE", "LOAD", "JUMP_IF", "JUMP_IF_NOT"} => Takes(p, o) = 1
BY DEF Takes, BinaryOps, UnaryOps

\* Both are at the same opcode, with the operands it takes.
LEMMA LinkedFetched ==
  ASSUME ProgramsTidy, ProgramsBalanced, VariablesInv, OperandsInv, Running, Linked,
         NEW n, n = Len(curr_func), NEW m, m = Len(data_stack)
  PROVE  /\ n \in Nat /\ n >= 2 /\ m \in Nat /\ Words = m /\ Nested(fp, m, curr_func)
         /\ NasmOp = Op /\ rip[1] = curr_func[n] /\ rip[2] = ip /\ ip \in Nat
         /\ Peek(curr_func) = curr_func[n] /\ curr_func[n] \in Defined(ir)
         /\ Matches(operands, exec_stack, fp, m) /\ Len(operands) \in Nat
         /\ Op.op \in BinaryOps \cup {"STORE"} => Len(operands) >= 2
         /\ Op.op \in UnaryOps \cup {"POP", "CLONE", "LOAD", "JUMP_IF", "JUMP_IF_NOT"} =>
              Len(operands) >= 1
         /\ freeing = 0 /\ status = "running"
<1>1. /\ n \in Nat /\ n >= 2 /\ m \in Nat /\ Words = m /\ Peek(curr_func) = curr_func[n] /\ ip \in Nat
      /\ freeing = 0 /\ status = "running" /\ MemoryInv
      /\ fp \in Seq(Nat) /\ Len(fp) \in {n - 1, n}
      /\ \A k \in 1 .. Len(fp) : fp[k] \in Nat /\ fp[k] <= m
  <2>1. n >= 2
    BY DEF Linked
  <2> DEFINE frame == FrameAt(n)
  <2> HIDE DEF frame
  <2>2. frame = FrameAt(n) => 
        /\ n \in Nat /\ m \in Nat /\ Words = m /\ Peek(curr_func) = curr_func[n] /\ ip \in Nat
        /\ freeing = 0 /\ status = "running" /\ MemoryInv
        /\ fp \in Seq(Nat) /\ Len(fp) \in {n - 1, n}
        /\ \A k \in 1 .. Len(fp) : fp[k] \in Nat /\ fp[k] <= m
    BY FrameFetched
  <2> QED BY <2>1, <2>2 DEF frame
<1>2. Nested(fp, m, curr_func)
  <2>1. \A j, k \in 1 .. Len(fp) : j < k => fp[j] <= fp[k]
    BY <1>1 DEF MemoryInv, MemoryShape
  <2> QED BY <1>1, <2>1 DEF Nested, Ascending
<1>3. rip[1] = curr_func[n] /\ rip[2] = ip
  BY <1>1 DEF Linked
<1>4. NasmOp = Op
  BY <1>1, <1>3 DEF NasmOp, NasmCode, Op, Code
<1>5. /\ heights[n] \in Nat /\ OperandsAt(n) \in Nat /\ OperandsAt(n) >= Takes(ir, Op)
      /\ Len(exec_stack) = heights[n] + OperandsAt(n)
      /\ curr_func[n] \in Defined(ir)
  BY OperandsFetched
<1>6. Matches(operands, exec_stack, fp, m) /\ Len(operands) \in Nat /\ Len(operands) = Len(exec_stack)
  BY <1>1 DEF Linked, Matches, IsSequence
<1>7. Op.op \in STRING
  BY <1>1, FrameFetched DEF Opcodes
<1>8. /\ Op.op \in BinaryOps \cup {"STORE"} => Takes(ir, Op) = 2
      /\ Op.op \in UnaryOps \cup {"POP", "CLONE", "LOAD", "JUMP_IF", "JUMP_IF_NOT"} => Takes(ir, Op) = 1
  BY <1>7, OperandsOfTwo
<1>9. /\ Op.op \in BinaryOps \cup {"STORE"} => Len(operands) >= 2
      /\ Op.op \in UnaryOps \cup {"POP", "CLONE", "LOAD", "JUMP_IF", "JUMP_IF_NOT"} => Len(operands) >= 1
  BY <1>5, <1>6, <1>8
<1> QED BY <1>1, <1>2, <1>3, <1>4, <1>5, <1>6, <1>9

\* The opcode says what the processor does.
LEMMA NasmStepOf ==
  ASSUME NasmNext
  PROVE  /\ NasmOp.op = "NOP" => NasmNop
         /\ NasmOp.op \in {"PUSH_SIGN", "PUSH_UNSIGN"} => NasmPushConstant
         /\ NasmOp.op \in {"PUSH_STACK", "PUSH_SEA"} => NasmPushVariable
         /\ NasmOp.op = "POP" => NasmDiscard
         /\ NasmOp.op = "CLONE" => NasmClone
         /\ NasmOp.op \in BinaryOps => NasmBinary \/ NasmDivideError
         /\ NasmOp.op \in UnaryOps => NasmUnary
         /\ NasmOp.op = "STACK_FRAME_PUSH" => NasmFramePush
         /\ NasmOp.op = "STACK_FRAME_POP" => NasmFramePop
         /\ NasmOp.op = "ALLOC" => NasmAlloc
         /\ NasmOp.op = "FREE" => NasmFree
         /\ NasmOp.op = "STORE" => NasmStore
         /\ NasmOp.op = "LOAD" => NasmLoad
         /\ NasmOp.op = "JUMP" => NasmJump
         /\ NasmOp.op \in {"JUMP_IF", "JUMP_IF_NOT"} => NasmJumpIf
         /\ NasmOp.op = "CALL" => NasmCall \/ NasmGetchar \/ NasmPutchar
         /\ NasmOp.op = "RET" => NasmRet
         /\ NasmOp.op \notin {"SETUP_GLOBAL", "PUSH_GLOBAL", "PUSH_GEA", "INVALID"}
<1> USE DEF NasmNext, Runs_, BinaryOps, UnaryOps
<1>1. /\ NasmNop => NasmOp.op = "NOP"
      /\ NasmPushConstant => NasmOp.op \in {"PUSH_SIGN", "PUSH_UNSIGN"}
      /\ NasmPushVariable => NasmOp.op \in {"PUSH_STACK", "PUSH_SEA"}
      /\ NasmDiscard => NasmOp.op = "POP"
      /\ NasmClone => NasmOp.op = "CLONE"
      /\ NasmBinary \/ NasmDivideError => NasmOp.op \in BinaryOps
      /\ NasmUnary => NasmOp.op \in UnaryOps
  BY DEF NasmNop, NasmPushConstant, NasmPushVariable, NasmDiscard, NasmClone, NasmBinary,
         NasmDivideError, NasmUnary
<1>2. /\ NasmFramePush => NasmOp.op = "STACK_FRAME_PUSH"
      /\ NasmFramePop => NasmOp.op = "STACK_FRAME_POP"
      /\ NasmAlloc => NasmOp.op = "ALLOC"
      /\ NasmFree => NasmOp.op = "FREE"
      /\ NasmStore => NasmOp.op = "STORE"
      /\ NasmLoad => NasmOp.op = "LOAD"
      /\ NasmJump => NasmOp.op = "JUMP"
      /\ NasmJumpIf => NasmOp.op \in {"JUMP_IF", "JUMP_IF_NOT"}
      /\ NasmCall \/ NasmGetchar \/ NasmPutchar => NasmOp.op = "CALL"
      /\ NasmRet => NasmOp.op = "RET"
  BY DEF NasmFramePush, NasmFramePop, NasmAlloc, NasmFree, NasmStore, NasmLoad, NasmJump,
         NasmJumpIf, NasmCall, NasmGetchar, NasmPutchar, NasmRet
<1> QED BY <1>1, <1>2

\* A step that leaves the frames, the variables and the calls as they are.
LEMMA PlainLink ==
  ASSUME Linked, UNCHANGED <<fp, data_stack, allocations, freeing, curr_func, ip_stack>>,
         UNCHANGED <<memory, rsp, rbp>>,
         rip' = <<Peek(curr_func), ip'>>, Matches(operands', exec_stack', fp, Words)
  PROVE  Linked'
<1>1. Words' = Words /\ Peek(curr_func)' = Peek(curr_func)
  BY DEF Words, Peek
<1> QED BY <1>1 DEF Linked

--------------------------------------------------------------------------------
(* The operands.                                                                *)

LEMMA OperandsMatch ==
  ASSUME NEW s, NEW m, Matches(operands, exec_stack, s, m)
  PROVE  /\ Matches(Without(0), exec_stack, s, m)
         /\ Len(operands) >= 1 => /\ Firm(Top, Peek(exec_stack), s, m)
                                  /\ Matches(Without(1), Pop(exec_stack), s, m)
         /\ Len(operands) >= 2 => /\ Firm(Second, Below(exec_stack), s, m)
                                  /\ Matches(Without(2), Pop(Pop(exec_stack)), s, m)
<1>1. PICK A : operands \in Seq(A)
  BY DEF Matches, IsSequence
<1>2. PICK B : exec_stack \in Seq(B)
  BY DEF Matches, IsSequence
<1> DEFINE l == Len(operands)
<1>3. l \in Nat /\ Len(exec_stack) = l
  BY <1>1 DEF Matches
<1>4. /\ l >= 1 => /\ Firm(Top, Peek(exec_stack), s, m)
                   /\ Pop(exec_stack) = SubSeq(exec_stack, 1, l - 1)
      /\ l >= 2 => /\ Firm(Second, Below(exec_stack), s, m)
                   /\ Pop(Pop(exec_stack)) = SubSeq(exec_stack, 1, l - 2)
  BY MatchesTop DEF Top, Second
<1>5. /\ Without(1) = SubSeq(operands, 1, l - 1) /\ Without(2) = SubSeq(operands, 1, l - 2)
      /\ Without(0) = operands
  <2>1. Without(1) = SubSeq(operands, 1, l - 1) /\ Without(2) = SubSeq(operands, 1, l - 2)
        /\ Without(0) = SubSeq(operands, 1, l - 0)
    BY DEF Without
  <2>2. l - 0 = l
    BY <1>3
  <2>3. SubSeq(operands, 1, l) = operands
    BY <1>1, <1>3
  <2> QED BY <2>1, <2>2, <2>3
<1>6. ASSUME NEW k \in 0 .. l
      PROVE  Matches(SubSeq(operands, 1, k), SubSeq(exec_stack, 1, k), s, m)
  BY <1>6, MatchesFirst
<1>7. /\ l >= 1 => l - 1 \in 0 .. l
      /\ l >= 2 => l - 2 \in 0 .. l
  BY <1>3
<1> HIDE DEF l
<1>8. ASSUME l >= 1 PROVE Matches(Without(1), Pop(exec_stack), s, m)
  BY <1>4, <1>5, <1>6, <1>7, <1>8
<1>9. ASSUME l >= 2 PROVE Matches(Without(2), Pop(Pop(exec_stack)), s, m)
  BY <1>4, <1>5, <1>6, <1>7, <1>9
<1> QED BY <1>4, <1>5, <1>8, <1>9 DEF l

\* What a step of the two starts from.
Together ==
  /\ VariablesInv /\ OperandsInv /\ Running /\ Linked
  /\ PointersBehave /\ rip # Outside /\ fault = "none"

\* The words and values of the opcodes that compute.
LEMMA ComputesWithInts ==
  ASSUME ProgramsTidy, ProgramsBalanced, Together
  PROVE  /\ Op.op \in BinaryOps =>
              /\ Value(Top) = Peek(exec_stack) /\ Value(Second) = Below(exec_stack)
         /\ Op.op \in UnaryOps \cup {"JUMP_IF", "JUMP_IF_NOT"} => Value(Top) = Peek(exec_stack)
<1> DEFINE n == Len(curr_func)
           m == Len(data_stack)
<1>1. /\ Matches(operands, exec_stack, fp, m)
      /\ Op.op \in BinaryOps \cup {"STORE"} => Len(operands) >= 2
      /\ Op.op \in UnaryOps \cup {"POP", "CLONE", "LOAD", "JUMP_IF", "JUMP_IF_NOT"} => Len(operands) >= 1
      /\ Len(operands) \in Nat
  BY LinkedFetched DEF Together
<1>2. /\ Op.op \in BinaryOps => IsInt(Top) /\ IsInt(Second)
      /\ Op.op \in UnaryOps \cup {"JUMP_IF", "JUMP_IF_NOT"} => IsInt(Top)
  BY DEF Together, PointersBehave, At, Running
<1>3. /\ Len(operands) >= 1 => Firm(Top, Peek(exec_stack), fp, m)
      /\ Len(operands) >= 2 => Firm(Second, Below(exec_stack), fp, m)
  BY <1>1, OperandsMatch
<1>4. \A word, v : Firm(word, v, fp, m) /\ IsInt(word) => Value(word) = v
  BY FirmWord
<1> HIDE DEF m, Firm, IsInt
<1>5. ASSUME Op.op \in BinaryOps
      PROVE  Value(Top) = Peek(exec_stack) /\ Value(Second) = Below(exec_stack)
  <2>1. Len(operands) >= 2 /\ Len(operands) >= 1
    BY <1>1, <1>5
  <2> QED BY <1>2, <1>3, <1>4, <1>5, <2>1
<1>6. ASSUME Op.op \in UnaryOps \cup {"JUMP_IF", "JUMP_IF_NOT"}
      PROVE  Value(Top) = Peek(exec_stack)
  <2>1. Len(operands) >= 1
    BY <1>1, <1>6
  <2> QED BY <1>2, <1>3, <1>4, <1>6, <2>1
<1> QED BY <1>5, <1>6

\* An opcode that only works on the operands leaves them the same in both.
LEMMA PlainOperands ==
  ASSUME ProgramsTidy, ProgramsBalanced, Together, OnlyOperands, Advance,
         UNCHANGED <<fp, data_stack, allocations, freeing, curr_func, ip_stack>>,
         Matches(operands', exec_stack', fp, Len(data_stack))
  PROVE  Linked' /\ fault' = "none"
<1> DEFINE n == Len(curr_func)
           m == Len(data_stack)
<1>1. /\ rip[1] = curr_func[n] /\ Peek(curr_func) = curr_func[n] /\ rip[2] = ip /\ Words = m
  BY LinkedFetched DEF Together
<1>2. rip' = <<Peek(curr_func), ip'>> /\ fault' = "none" /\ UNCHANGED <<memory, rsp, rbp>>
  BY <1>1 DEF OnlyOperands, FallsThrough, Advance, Together
<1> QED BY <1>1, <1>2, PlainLink DEF Together

LEMMA PushesTogether ==
  ASSUME ProgramsTidy, ProgramsBalanced, ProgramsNative, Together, NasmNext,
         Nop \/ PushConstant \/ Discard \/ Clone
  PROVE  Linked' /\ fault' = "none"
<1> DEFINE n == Len(curr_func)
           m == Len(data_stack)
<1>1. /\ NasmOp = Op /\ curr_func[n] \in Defined(ir) /\ ip \in Nat
      /\ Peek(curr_func) = curr_func[n]
      /\ Matches(operands, exec_stack, fp, m) /\ Len(operands) \in Nat
      /\ Op.op \in {"POP", "CLONE"} => Len(operands) >= 1
  BY LinkedFetched DEF Together
<1>2. /\ Matches(Without(0), exec_stack, fp, m)
      /\ Len(operands) >= 1 => /\ Firm(Top, Peek(exec_stack), fp, m)
                               /\ Matches(Without(1), Pop(exec_stack), fp, m)
  BY <1>1, OperandsMatch
<1>3. \A a, b, word, v : Matches(a, b, fp, m) /\ Firm(word, v, fp, m) =>
        Matches(Append(a, word), Push(b, v), fp, m)
  BY MatchesMore
<1>4. Advance /\ UNCHANGED <<fp, data_stack, allocations, freeing, curr_func, ip_stack>>
  BY DEF Nop, PushConstant, Discard, Clone, OperandsOnly, frameVars, callVars
<1> HIDE DEF m
<1>5. OnlyOperands /\ Matches(operands', exec_stack', fp, m)
  <2>1. CASE Nop
    <3>1. Op.op = "NOP"
      BY <2>1 DEF Nop, Fetch
    <3>2. OnlyOperands /\ operands' = operands /\ exec_stack' = exec_stack
      BY <1>1, <2>1, <3>1, NasmStepOf DEF Nop, NasmNop
    <3> QED BY <1>1, <3>2
  <2>2. CASE PushConstant
    <3>1. Op.op \in {"PUSH_SIGN", "PUSH_UNSIGN"} /\ NasmPushConstant
      <4>1. Op.op \in {"PUSH_SIGN", "PUSH_UNSIGN", "PUSH_GLOBAL", "PUSH_GEA"}
        BY <2>2 DEF PushConstant, Fetch
      <4> QED BY <1>1, <4>1, NasmStepOf
    <3>2. Immediate(Op.arg) = Op.arg
      <4>1. /\ ir \in Programs /\ Code = ir.functions[curr_func[n]].code /\ Op = Code[ip + 1]
            /\ ip + 1 \in 1 .. Len(Code)
        <5>1. ir \in Programs /\ ip < Len(Code)
          BY DEF Together, Running, VariablesInv, MemoryInv, MemoryShape
        <5>2. Code \in Seq(Opcodes)
          BY <5>1, <1>1 DEF ProgramsTidy, Scoped, WellFormed, Code
        <5> QED BY <5>1, <5>2, <1>1 DEF Code, Op
      <4> QED BY <3>1, <4>1, <1>1 DEF ProgramsNative, Native_
    <3>3. /\ OnlyOperands /\ operands' = Append(Without(0), Int_(Op.arg))
          /\ exec_stack' = Push(exec_stack, Op.arg)
      BY <1>1, <2>2, <3>1, <3>2 DEF NasmPushConstant, PushConstant, Stores
    <3>4. Firm(Int_(Op.arg), Op.arg, fp, m)
      BY DEF Firm
    <3> QED BY <1>2, <1>3, <3>3, <3>4
  <2>3. CASE Discard
    <3>1. Op.op = "POP"
      BY <2>3 DEF Discard, Fetch
    <3>2. OnlyOperands /\ operands' = Without(1) /\ exec_stack' = Pop(exec_stack)
      BY <1>1, <2>3, <3>1, NasmStepOf DEF Discard, NasmDiscard
    <3> QED BY <1>1, <1>2, <3>1, <3>2
  <2>4. CASE Clone
    <3>1. Op.op = "CLONE"
      BY <2>4 DEF Clone, Fetch
    <3>2. /\ OnlyOperands /\ operands' = Append(Without(0), Top)
          /\ exec_stack' = Push(Push(Pop(exec_stack), Peek(exec_stack)), Peek(exec_stack))
      BY <1>1, <2>4, <3>1, NasmStepOf DEF Clone, NasmClone, Stores
    <3>3. Without(0) = Append(Without(1), Top)
      <4>1. Len(operands) >= 1 /\ IsSequence(operands) /\ Len(operands) - 0 = Len(operands)
        BY <1>1, <3>1 DEF Matches
      <4>2. PICK A : operands \in Seq(A)
        BY <4>1 DEF IsSequence
      <4>3. operands = Append(SubSeq(operands, 1, Len(operands) - 1), operands[Len(operands)])
        BY <4>1, <4>2
      <4>4. SubSeq(operands, 1, Len(operands)) = operands
        BY <4>2
      <4> QED BY <4>1, <4>3, <4>4 DEF Without, Top
    <3>4. Matches(Append(Without(1), Top), Push(Pop(exec_stack), Peek(exec_stack)), fp, m)
      BY <1>1, <1>2, <1>3, <3>1
    <3> QED BY <1>1, <1>2, <1>3, <3>1, <3>2, <3>3, <3>4
  <2> QED BY <2>1, <2>2, <2>3, <2>4
<1> QED BY <1>4, <1>5, PlainOperands DEF m

\* A division by zero stops the processor, and the one quotient that does not fit
\* stops both.
LEMMA ComputesTogether ==
  ASSUME ProgramsTidy, ProgramsBalanced, Together, NasmNext, Binary \/ Unary
  PROVE  \/ Linked' /\ fault' = "none" /\ status' = "running"
         \/ /\ fault' # "none" /\ rip' = rip /\ operands' = operands /\ Op.op \in {"DIV", "MOD"}
            /\ Value(Second) = 0 \/ status' = "trap"
<1> DEFINE n == Len(curr_func)
           m == Len(data_stack)
<1>1. /\ NasmOp = Op /\ status = "running"
      /\ Matches(operands, exec_stack, fp, m)
      /\ Op.op \in BinaryOps \cup {"STORE"} => Len(operands) >= 2
      /\ Op.op \in UnaryOps \cup {"POP", "CLONE", "LOAD", "JUMP_IF", "JUMP_IF_NOT"} => Len(operands) >= 1
      /\ Len(operands) \in Nat
  BY LinkedFetched DEF Together
<1>2. /\ Len(operands) >= 1 => Matches(Without(1), Pop(exec_stack), fp, m)
      /\ Len(operands) >= 2 => Matches(Without(2), Pop(Pop(exec_stack)), fp, m)
  BY <1>1, OperandsMatch
<1>3. \A a, b, v : Matches(a, b, fp, m) => Matches(Append(a, Int_(v)), Push(b, v), fp, m)
  <2>1. \A v : Firm(Int_(v), v, fp, m)
    BY DEF Firm
  <2> QED BY <2>1, MatchesMore
<1>4. Advance /\ UNCHANGED <<fp, data_stack, allocations, freeing, curr_func, ip_stack>>
  BY DEF Binary, Unary, OperandsOnly, frameVars, callVars
<1>5. /\ Op.op \in BinaryOps => Value(Top) = Peek(exec_stack) /\ Value(Second) = Below(exec_stack)
      /\ Op.op \in UnaryOps => Value(Top) = Peek(exec_stack)
  BY ComputesWithInts
<1> HIDE DEF m
<1>6. ASSUME OnlyOperands, Matches(operands', exec_stack', fp, m) PROVE Linked' /\ fault' = "none"
  BY <1>4, <1>6, PlainOperands DEF m
<1>7. CASE Unary
  <2>1. Op.op \in UnaryOps
    BY <1>7 DEF Unary, Fetch
  <2>2. NasmUnary
    BY <1>1, <2>1, NasmStepOf
  <2>3. /\ OnlyOperands /\ operands' = Append(Without(1), Int_(UnaryValue(Op.op, Peek(exec_stack))))
        /\ exec_stack' = Push(Pop(exec_stack), UnaryValue(Op.op, Peek(exec_stack)))
        /\ status' = "running"
    BY <1>1, <1>5, <1>7, <2>1, <2>2 DEF Unary, NasmUnary, Stores, OperandsOnly
  <2>4. Matches(operands', exec_stack', fp, m)
    BY <1>1, <1>2, <1>3, <2>1, <2>3
  <2> QED BY <1>6, <2>3, <2>4
<1>8. CASE Binary
  <2>1. Op.op \in BinaryOps
    BY <1>8 DEF Binary, Fetch
  <2>2. NasmBinary \/ NasmDivideError
    BY <1>1, <2>1, NasmStepOf
  <2> DEFINE a == Peek(exec_stack)
             b == Below(exec_stack)
  <2>3. Value(Top) = a /\ Value(Second) = b
    BY <1>5, <2>1
  <2>4. CASE NasmDivideError
    <3>1. /\ fault' = "divide error" /\ rip' = rip /\ operands' = operands
          /\ Op.op \in {"DIV", "MOD"} /\ (b = 0 \/ Traps(Op.op, a, b))
      BY <1>1, <2>3, <2>4 DEF NasmDivideError, Stops
    <3>2. Traps(Op.op, a, b) => status' = "trap"
      BY <1>8 DEF Binary
    <3> QED BY <2>3, <3>1, <3>2
  <2>5. CASE NasmBinary
    <3>1. ~Traps(Op.op, a, b)
      BY <1>1, <2>3, <2>5 DEF NasmBinary, Stops, Traps
    <3>2. /\ OnlyOperands /\ operands' = Append(Without(2), Int_(BinaryValue(Op.op, a, b)))
      BY <1>1, <2>3, <2>5 DEF NasmBinary, Stores
    <3>3. /\ exec_stack' = Push(Pop(Pop(exec_stack)), BinaryValue(Op.op, a, b))
          /\ status' = "running"
      BY <1>1, <1>8, <3>1 DEF Binary
    <3>4. Matches(operands', exec_stack', fp, m)
      BY <1>1, <1>2, <1>3, <2>1, <3>2, <3>3
    <3> QED BY <1>6, <3>2, <3>3, <3>4
  <2> QED BY <2>2, <2>4, <2>5
<1> QED BY <1>7, <1>8

--------------------------------------------------------------------------------
(* The variables.                                                               *)

\* The blocks, all of which are variables when nothing is given back.
LEMMA BlocksTogether ==
  ASSUME ProgramsTidy, Together, NEW m, m = Len(data_stack)
  PROVE  /\ m \in Nat /\ Words = m /\ Len(allocations) \in Nat
         /\ DOMAIN allocations = 1 .. Len(allocations) /\ Variables \subseteq 1 .. Len(allocations)
         /\ \A j \in 1 .. Len(allocations) :
              /\ allocations[j].start \in Nat /\ allocations[j].size \in Nat
              /\ allocations[j].size > 0 /\ allocations[j].start + allocations[j].size <= m
              /\ \A i \in 1 .. Len(allocations) :
                   allocations[i].start = allocations[j].start => i = j
         /\ Tiles(allocations, m) /\ allocations \in Seq(Blocks)
<1> DEFINE n == Len(curr_func)
           frame == FrameAt(n)
<1>1. /\ m \in Nat /\ Words = m /\ Tiles(allocations, m) /\ allocations \in Seq(Blocks)
      /\ \A j \in 1 .. Len(allocations) :
           /\ allocations[j] \in Blocks
           /\ allocations[j].start \in Nat /\ allocations[j].size \in Nat
           /\ allocations[j].size > 0
           /\ allocations[j].start + allocations[j].size <= m
  <2>1. ProgramsTidy /\ VariablesInv /\ Running
    BY DEF Together
  <2> HIDE DEF n, frame
  <2>2. n = Len(curr_func) /\ frame = FrameAt(n)
    BY DEF n, frame
  <2> QED BY <2>1, <2>2, FrameFetched
<1>2. ASSUME NEW i \in 1 .. Len(allocations), NEW j \in 1 .. Len(allocations),
             allocations[i].start = allocations[j].start
      PROVE  i = j
  <2>1. /\ i < j => allocations[i].start + allocations[i].size <= allocations[j].start
        /\ j < i => allocations[j].start + allocations[j].size <= allocations[i].start
    BY <1>1 DEF Tiles
  <2> QED BY <1>1, <1>2, <2>1
<1>3. DOMAIN allocations = 1 .. Len(allocations) /\ Len(allocations) \in Nat
  BY <1>1
<1> QED BY <1>1, <1>2, <1>3 DEF Variables

LEMMA LoadsTogether ==
  ASSUME ProgramsTidy, ProgramsBalanced, Together, NasmNext, Load
  PROVE  Linked' /\ fault' = "none"
<1> DEFINE n == Len(curr_func)
           m == Len(data_stack)
           v == Peek(exec_stack)
<1>1. /\ NasmOp = Op /\ m \in Nat /\ Words = m /\ Nested(fp, m, curr_func)
      /\ Matches(operands, exec_stack, fp, m) /\ Len(operands) \in Nat
      /\ Op.op = "LOAD" => Len(operands) >= 1
  BY LinkedFetched DEF Together
<1>2. Op.op = "LOAD"
  BY DEF Load, Fetch
<1>3. Firm(Top, v, fp, m) /\ Matches(Without(1), Pop(exec_stack), fp, m)
  BY <1>1, <1>2, OperandsMatch
<1>4. /\ m <= GLOBALS_OFFSET /\ GLOBALS_OFFSET \in Nat
      /\ \E b \in Variables : allocations[b].size = 1 /\ Top = Address(Depth(allocations[b].start))
  BY <1>2, BoundsAssumption DEF Together, PointersBehave, At, Running, PointsToOne
<1>5. PICK b \in Variables : allocations[b].size = 1 /\ Top = Address(Depth(allocations[b].start))
  BY <1>4
<1>6. /\ b \in 1 .. Len(allocations) /\ allocations[b].start \in Nat /\ allocations[b].start < m
  BY <1>1, <1>5, BlocksTogether
<1> DEFINE start == allocations[b].start
<1>7. /\ v \in 0 .. m - 1 /\ Value(Top) = DepthIn(fp, v) /\ v = start
  <2>1. IsAddress(Top) /\ Top = Address(DepthIn(fp, start))
    BY <1>5, DepthsAreCounted DEF IsAddress, Address
  <2>2. v \in 0 .. m - 1 /\ Top = Address(DepthIn(fp, v)) /\ Value(Top) = DepthIn(fp, v)
    BY <1>3, <2>1, FirmWord
  <2>3. DepthIn(fp, v) = DepthIn(fp, start)
    BY <2>1, <2>2 DEF Address
  <2>4. v \in Nat /\ start \in Nat /\ fp \in Seq(Nat)
    BY <1>1, <1>6, <2>2 DEF Nested, Ascending
  <2> QED BY <2>2, <2>3, <2>4, DepthsDiffer
<1>8. Firm(memory[Value(Top)], data_stack[v + 1], fp, m)
  BY <1>1, <1>5, <1>6, <1>7 DEF Together, Linked, VariablesMatch
<1>9. exec_stack' = Push(Pop(exec_stack), data_stack[v + 1])
  <2>1. v \in Nat /\ v < m /\ v < GLOBALS_OFFSET
    BY <1>1, <1>4, <1>7
  <2>2. ~ValidGlobal(v) /\ ValidData(v)
    BY <2>1, <1>4 DEF ValidGlobal, ValidData
  <2> QED BY <2>2 DEF Load
<1>10. OnlyOperands /\ operands' = Append(Without(1), memory[Value(Top)])
  BY <1>1, <1>2, NasmStepOf DEF NasmLoad, Stores
<1>11. Advance /\ UNCHANGED <<fp, data_stack, allocations, freeing, curr_func, ip_stack>>
  BY DEF Load, frameVars, callVars
<1> HIDE DEF m, v
<1>12. Matches(operands', exec_stack', fp, m)
  BY <1>3, <1>8, <1>9, <1>10, MatchesMore
<1> QED BY <1>10, <1>11, <1>12, PlainOperands DEF m

\* The variable of an opcode, and where it is relative to rbp.
LEMMA VariablePlace ==
  ASSUME ProgramsTidy, ProgramsBalanced, Together, Op.op \in {"PUSH_STACK", "PUSH_SEA"},
         NEW start, start = VariableAddress(Op.arg - 1)
  PROVE  /\ start \in 0 .. Len(data_stack) - 1 /\ rbp + Op.arg = DepthIn(fp, start)
         /\ \E b \in 1 .. Len(allocations) : allocations[b].size = 1 /\ allocations[b].start = start
<1> DEFINE n == Len(curr_func)
           m == Len(data_stack)
           frame == FrameAt(n)
           blocks == frame.blocks
           base == Peek(fp)
           place == Op.arg - 1
           a == allocations
<1>1. /\ n \in Nat /\ n >= 2 /\ m \in Nat /\ Nested(fp, m, curr_func)
  BY LinkedFetched DEF Together
<1>2. /\ Tiles(a, m) /\ a \in Seq(Blocks) /\ Len(a) \in Nat
      /\ \A j \in 1 .. Len(a) :
           /\ a[j].start \in Nat /\ a[j].size \in Nat
           /\ a[j].size > 0 /\ a[j].start + a[j].size <= m
           /\ \A i \in 1 .. Len(a) : a[i].start = a[j].start => i = j
      /\ Variables \subseteq 1 .. Len(a)
  BY BlocksTogether
<1>3. /\ FrameAllows(Op, frame) /\ (frame.framed <=> Len(fp) = n)
      /\ fp \in Seq(Nat)
      /\ \A k \in 1 .. Len(fp) :
           /\ fp[k] \in Nat /\ Ceiling(k) = IF k = Len(fp) THEN m ELSE fp[k + 1]
           /\ Holds(FrameAt(k).blocks, fp[k], Ceiling(k), a)
  BY FrameFetched DEF Together
<1>4. /\ frame.framed /\ Op.arg \in Nat
      /\ \E q \in 1 .. Len(blocks) : Contains(blocks[q], place)
  BY <1>3 DEF FrameAllows
<1> HIDE DEF n, m
<1>5. base \in Nat /\ base = fp[n] /\ Len(fp) = n /\ Holds(blocks, base, m, a)
  <2>1. Len(fp) = n /\ n \in 1 .. Len(fp) /\ fp # <<>>
    BY <1>1, <1>3, <1>4
  <2>2. base = fp[n]
    BY <2>1 DEF Peek
  <2>3. fp[n] \in Nat /\ Ceiling(n) = m /\ Holds(FrameAt(n).blocks, fp[n], Ceiling(n), a)
    BY <2>1, <1>3
  <2> QED BY <2>1, <2>2, <2>3
<1> HIDE DEF frame, base
<1>6. PICK q \in 1 .. Len(blocks) : Contains(blocks[q], place)
  BY <1>4
<1> HIDE DEF blocks
<1>7. place \in Int
  BY <1>4
<1>8. FoundFor(a, base, blocks, q, place)
  <2> HIDE DEF place
  <2>1. m = SizeOfAll(a)
    BY <1>2 DEF SizeOfAll, Tiles
  <2>2. Solid(a)
    BY <2>1, <1>2 DEF Solid
  <2>3. Holds(blocks, base, SizeOfAll(a), a) /\ Inside(blocks, q, place)
    BY <1>5, <1>6, <1>7, <2>1 DEF Inside
  <2> HIDE DEF a
  <2> QED BY <1>5, <2>2, <2>3, PlaceInFrame
<1>9. PICK j \in 1 .. Len(a) : a[j].start >= base /\ Hits(a, base + place) = {j}
  BY <1>8 DEF FoundFor
<1>10. start = a[j].start /\ Contains(a[j], base + place)
  <2>1. {i \in 1 .. Len(a) : Contains(a[i], base + place)} = {j}
    BY <1>9 DEF Hits
  <2>2. VariableAddress(Op.arg - 1) = a[CHOOSE i \in {j} : \A k \in {j} : i <= k].start
    BY <2>1 DEF VariableAddress, base
  <2>3. (CHOOSE i \in {j} : \A k \in {j} : i <= k) = j
    <3>1. \E i \in {j} : \A k \in {j} : i <= k
      OBVIOUS
    <3> QED BY <3>1
  <2>4. Contains(a[j], base + place)
    BY <2>1
  <2> QED BY <2>2, <2>3, <2>4
<1>11. PICK b \in Variables : a[b].size = 1 /\ a[b].start = VariableAddress(Op.arg - 1)
  BY DEF Together, PointersBehave, At, Running
<1>12. b = j /\ b \in 1 .. Len(a) /\ a[j].size = 1
  BY <1>2, <1>9, <1>10, <1>11
<1>13. start = base + place /\ start \in Nat /\ start < m /\ start >= base
  <2>1. /\ a[j].start \in Nat /\ a[j].size = 1 /\ a[j].start + a[j].size <= m /\ start = a[j].start
        /\ base + place \in Int
    BY <1>2, <1>5, <1>7, <1>10, <1>12
  <2>2. base + place >= a[j].start /\ base + place <= a[j].start + a[j].size - 1
    BY <1>10 DEF Contains
  <2> HIDE DEF place
  <2>3. start = base + place
    BY <2>1, <2>2
  <2> QED BY <1>1, <1>9, <2>1, <2>3
<1>14. rbp + Op.arg = DepthIn(fp, start)
  <2>1. DepthIn(fp, start) = start + 1 + 2 * (Len(fp) - 1)
    BY <1>1, <1>5, <1>13, DepthOnTop DEF Nested
  <2>2. rbp = fp[n] + 2 * (n - 1)
    BY <1>1, <1>5 DEF Together, Linked, RbpOf, Base
  <2>3. base + place = fp[n] + Op.arg - 1 /\ fp[n] \in Nat /\ Op.arg \in Nat /\ Len(fp) = n
    BY <1>4, <1>5
  <2>4. /\ DepthIn(fp, start) = (fp[n] + Op.arg - 1) + 1 + 2 * (n - 1)
        /\ rbp + Op.arg = fp[n] + 2 * (n - 1) + Op.arg
    BY <1>13, <2>1, <2>2, <2>3
  <2> HIDE DEF place
  <2> QED BY <1>1, <2>3, <2>4
<1>15. start \in 0 .. m - 1
  <2> HIDE DEF place
  <2> QED BY <1>1, <1>13
<1>16. a[j].size = 1 /\ a[j].start = start /\ j \in 1 .. Len(a)
  BY <1>10, <1>12
<1> QED BY <1>14, <1>15, <1>16 DEF m

LEMMA VariablesTogether ==
  ASSUME ProgramsTidy, ProgramsBalanced, Together, NasmNext, PushVariable
  PROVE  Linked' /\ fault' = "none"
<1> DEFINE m == Len(data_stack)
           v == VariableAddress(Op.arg - 1)
           n == Len(curr_func)
<1>1. NasmOp = Op /\ Matches(operands, exec_stack, fp, m) /\ m \in Nat /\ Words = m
  BY LinkedFetched DEF Together
<1>2. Op.op \in {"PUSH_STACK", "PUSH_SEA"}
  BY DEF PushVariable, Fetch
<1>3. /\ v \in 0 .. m - 1 /\ rbp + Op.arg = DepthIn(fp, v)
      /\ \E b \in 1 .. Len(allocations) : allocations[b].size = 1 /\ allocations[b].start = v
  BY <1>2, VariablePlace
<1> HIDE DEF v
<1>4. Firm(memory[rbp + Op.arg], data_stack[v + 1], fp, m)
  <2>1. v < m
    BY <1>1, <1>3
  <2> HIDE DEF m
  <2> QED BY <1>1, <1>3, <2>1 DEF Together, Linked, VariablesMatch
<1>5. Firm(Address(rbp + Op.arg), v, fp, m)
  BY <1>3 DEF Firm
<1>6. exec_stack' = Push(exec_stack, IF Op.op = "PUSH_SEA" THEN v ELSE data_stack[v + 1])
  <2>1. v # -1
    BY <1>1, <1>3
  <2> QED BY <2>1 DEF PushVariable, v
<1>7. /\ OnlyOperands
      /\ operands' = Append(Without(0), IF Op.op = "PUSH_SEA" THEN Address(rbp + Op.arg)
                                                            ELSE memory[rbp + Op.arg])
  BY <1>1, <1>2, NasmStepOf DEF NasmPushVariable, Stores
<1>8. Advance /\ UNCHANGED <<fp, data_stack, allocations, freeing, curr_func, ip_stack>>
  BY DEF PushVariable, frameVars, callVars
<1> HIDE DEF m
<1>9. Matches(Without(0), exec_stack, fp, m)
  BY <1>1, OperandsMatch
<1>10. Matches(operands', exec_stack', fp, m)
  <2>1. CASE Op.op = "PUSH_SEA"
    BY <1>5, <1>6, <1>7, <1>9, <2>1, MatchesMore
  <2>2. CASE Op.op # "PUSH_SEA"
    BY <1>4, <1>6, <1>7, <1>9, <2>2, MatchesMore
  <2> QED BY <2>1, <2>2
<1> QED BY <1>7, <1>8, <1>10, PlainOperands DEF m

\* The address of any word of a variable is one of the interpreter's.
LEMMA StorePlace ==
  ASSUME ProgramsTidy, ProgramsBalanced, Together, Op.op = "STORE"
  PROVE  /\ Peek(exec_stack) \in 0 .. Len(data_stack) - 1
         /\ Top = Address(DepthIn(fp, Peek(exec_stack)))
         /\ ValidData(Peek(exec_stack)) /\ ~ValidGlobal(Peek(exec_stack))
<1> DEFINE n == Len(curr_func)
           m == Len(data_stack)
           v == Peek(exec_stack)
<1>1. /\ m \in Nat /\ Matches(operands, exec_stack, fp, m) /\ Len(operands) \in Nat
      /\ Op.op \in BinaryOps \cup {"STORE"} => Len(operands) >= 2
  BY LinkedFetched DEF Together
<1>2. Len(operands) >= 1
  BY <1>1
<1>3. Firm(Top, v, fp, m)
  BY <1>1, <1>2, OperandsMatch
<1>4. IsAddress(Top) /\ m <= GLOBALS_OFFSET /\ GLOBALS_OFFSET \in Nat
  BY BoundsAssumption DEF Together, PointersBehave, At, Running
<1>5. v \in 0 .. m - 1 /\ Top = Address(DepthIn(fp, v))
  BY <1>3, <1>4, FirmWord
<1>6. v \in Nat /\ v < m /\ v < GLOBALS_OFFSET
  BY <1>1, <1>4, <1>5
<1>7. ~ValidGlobal(v) /\ ValidData(v)
  BY <1>4, <1>6 DEF ValidGlobal, ValidData
<1> QED BY <1>5, <1>7

LEMMA StoresTogether ==
  ASSUME ProgramsTidy, ProgramsBalanced, Together, NasmNext, Store
  PROVE  Linked' /\ fault' = "none"
<1> DEFINE n == Len(curr_func)
           m == Len(data_stack)
           v == Peek(exec_stack)
           d == DepthIn(fp, v)
<1>1. /\ NasmOp = Op /\ m \in Nat /\ Words = m /\ Nested(fp, m, curr_func)
      /\ Matches(operands, exec_stack, fp, m) /\ Len(operands) \in Nat
      /\ Op.op \in BinaryOps \cup {"STORE"} => Len(operands) >= 2
      /\ rip[1] = curr_func[n] /\ Peek(curr_func) = curr_func[n] /\ rip[2] = ip
  BY LinkedFetched DEF Together
<1>2. Op.op = "STORE" /\ Len(operands) >= 2
  BY <1>1 DEF Store, Fetch
<1>3. v \in 0 .. m - 1 /\ Top = Address(d) /\ ValidData(v) /\ ~ValidGlobal(v)
  BY <1>2, StorePlace
<1>4. Firm(Second, Below(exec_stack), fp, m) /\ Matches(Without(2), Pop(Pop(exec_stack)), fp, m)
  BY <1>1, <1>2, OperandsMatch
<1>5. /\ exec_stack' = Pop(Pop(exec_stack))
      /\ data_stack' = [data_stack EXCEPT ![v + 1] = Below(exec_stack)]
      /\ ip' = ip + 1 /\ UNCHANGED <<fp, allocations, freeing, curr_func, ip_stack>>
  BY <1>3 DEF Store, Advance, callVars
<1>6. /\ memory' = Written(d, Second) /\ operands' = Without(2) /\ UNCHANGED <<rsp, rbp, fault>>
      /\ rip' = <<rip[1], rip[2] + 1>>
  <2>1. NasmStore
    BY <1>1, <1>2, NasmStepOf
  <2> QED BY <1>3, <2>1 DEF NasmStore, FallsThrough, Value, Address
<1>7. IsSequence(data_stack) /\ Len(data_stack') = m /\ DOMAIN data_stack = 1 .. m
  <2>1. IsSequence(data_stack)
    BY DEF Together, VariablesInv, MemoryInv, MemoryShape
  <2>2. PICK D : data_stack \in Seq(D)
    BY <2>1 DEF IsSequence
  <2>3. DOMAIN data_stack = 1 .. m
    BY <2>2
  <2>4. data_stack \in [1 .. m -> D]
    BY <2>2, <2>3
  <2>5. Len(data_stack') = m
    <3> DEFINE w == Below(exec_stack)
               E == D \cup {w}
    <3>1. data_stack' = [i \in 1 .. m |-> IF i = v + 1 THEN w ELSE data_stack[i]]
      BY <1>5, <2>3
    <3> HIDE DEF w
    <3>2. data_stack' \in [1 .. m -> E]
      BY <2>4, <3>1
    <3>3. DOMAIN data_stack' = 1 .. m /\ data_stack' \in Seq(E)
      BY <1>1, <3>2
    <3> QED BY <1>1, <3>3
  <2> QED BY <2>1, <2>3, <2>5
<1>8. Words' = m /\ Peek(curr_func)' = Peek(curr_func)
  <2>1. Words' = Len(data_stack') - freeing' /\ Words = Len(data_stack) - freeing
    BY DEF Words
  <2> QED BY <1>1, <1>5, <1>7, <2>1 DEF Peek
<1> HIDE DEF m, v
<1>9. /\ rsp = RspOf(fp, m, curr_func) /\ rsp <= Len(memory) /\ IsSequence(memory)
      /\ FramesSaved(memory, fp, m, curr_func, ip_stack)
      /\ VariablesMatch(memory, allocations, data_stack, fp, m)
      /\ Len(curr_func) >= 2 /\ rbp = RbpOf(fp) /\ fault = "none"
  BY <1>1 DEF Together, Linked
<1>10. /\ \A i \in 0 .. m - 1 : DepthIn(fp, i) \in Nat /\ DepthIn(fp, i) >= 1 /\ DepthIn(fp, i) <= rsp
       /\ \A k \in 2 .. Len(fp) :
            /\ Base(fp, k) \in Nat /\ Base(fp, k) >= 1 /\ Base(fp, k) <= rsp
            /\ \A i \in 0 .. m - 1 : Base(fp, k) # DepthIn(fp, i)
       /\ \A k \in 2 .. Len(curr_func) :
            /\ ReturnAt(fp, m, k) \in Nat /\ ReturnAt(fp, m, k) >= 1 /\ ReturnAt(fp, m, k) <= rsp
            /\ \A i \in 0 .. m - 1 : ReturnAt(fp, m, k) # DepthIn(fp, i)
       /\ rsp \in Nat
  BY <1>1, <1>9, PlacesApart
<1>11. d \in Nat /\ d >= 1
  BY <1>3, <1>10
<1>12. /\ IsSequence(memory') /\ Len(memory) \in Nat /\ Len(memory') \in Nat
       /\ Len(memory') >= Len(memory) /\ memory'[d] = Second
       /\ \A e \in 1 .. Len(memory) : e # d => memory'[e] = memory[e]
  BY <1>6, <1>9, <1>11, WrittenWord
<1>13. FramesSaved(memory', fp, m, curr_func, ip_stack)
  <2>1. ASSUME NEW k \in 2 .. Len(fp) PROVE memory'[Base(fp, k)] = SavedBase(fp, k)
    <3>1. Base(fp, k) \in 1 .. Len(memory) /\ Base(fp, k) # d
      BY <1>3, <1>9, <1>10, <1>12
    <3>2. memory[Base(fp, k)] = SavedBase(fp, k)
      BY <1>9 DEF FramesSaved
    <3> QED BY <1>12, <3>1, <3>2
  <2>2. ASSUME NEW k \in 2 .. Len(curr_func)
        PROVE  memory'[ReturnAt(fp, m, k)] = SavedReturn(curr_func, ip_stack, k)
    <3>1. ReturnAt(fp, m, k) \in 1 .. Len(memory) /\ ReturnAt(fp, m, k) # d
      BY <1>3, <1>9, <1>10, <1>12
    <3>2. memory[ReturnAt(fp, m, k)] = SavedReturn(curr_func, ip_stack, k)
      BY <1>9 DEF FramesSaved
    <3> QED BY <1>12, <3>1, <3>2
  <2> QED BY <2>1, <2>2 DEF FramesSaved
<1>14. VariablesMatch(memory', allocations, data_stack', fp, m)
  <2> SUFFICES ASSUME NEW b \in 1 .. Len(allocations), allocations[b].start < m, allocations[b].size = 1
               PROVE  Firm(memory'[DepthIn(fp, allocations[b].start)],
                           data_stack'[allocations[b].start + 1], fp, m)
    BY DEF VariablesMatch
  <2> DEFINE start == allocations[b].start
  <2>1. start \in Nat /\ start < m /\ start \in 0 .. m - 1 /\ start + 1 \in 1 .. m
    <3>1. start \in Nat
      BY BlocksTogether
    <3> QED BY <1>1, <3>1
  <2>2. Firm(memory[DepthIn(fp, start)], data_stack[start + 1], fp, m)
    BY <1>9 DEF VariablesMatch
  <2>3. CASE start = v
    <3>1. data_stack'[start + 1] = Below(exec_stack) /\ memory'[DepthIn(fp, start)] = Second
      BY <1>5, <1>7, <1>12, <2>1, <2>3
    <3> QED BY <1>4, <3>1
  <2>4. CASE start # v
    <3>1. v \in Nat /\ fp \in Seq(Nat)
      BY <1>1, <1>3 DEF Nested, Ascending
    <3>2. DepthIn(fp, start) # d
      BY <2>1, <2>4, <3>1, DepthsDiffer
    <3>3. DepthIn(fp, start) \in 1 .. Len(memory)
      BY <1>9, <1>10, <1>12, <2>1
    <3>4. memory'[DepthIn(fp, start)] = memory[DepthIn(fp, start)]
      BY <1>12, <3>2, <3>3
    <3>5. start + 1 # v + 1
      BY <2>1, <2>4, <3>1
    <3>6. data_stack'[start + 1] = data_stack[start + 1]
      BY <1>5, <1>7, <2>1, <3>5
    <3> QED BY <2>2, <3>4, <3>6
  <2> QED BY <2>3, <2>4
<1>15. /\ Matches(operands', exec_stack', fp, m) /\ rsp' <= Len(memory') /\ fault' = "none"
       /\ rip' = <<Peek(curr_func), ip'>>
  BY <1>1, <1>4, <1>5, <1>6, <1>9, <1>10, <1>12
<1> QED BY <1>5, <1>6, <1>8, <1>9, <1>12, <1>13, <1>14, <1>15 DEF Linked

--------------------------------------------------------------------------------
(* Jumps and calls.                                                             *)

LEMMA JumpsTogether ==
  ASSUME ProgramsTidy, ProgramsBalanced, Together, NasmNext, Jump \/ JumpIf
  PROVE  Linked' /\ fault' = "none"
<1> DEFINE n == Len(curr_func)
           m == Len(data_stack)
<1>1. /\ NasmOp = Op /\ Words = m /\ Matches(operands, exec_stack, fp, m) /\ Len(operands) \in Nat
      /\ Op.op \in UnaryOps \cup {"POP", "CLONE", "LOAD", "JUMP_IF", "JUMP_IF_NOT"} => Len(operands) >= 1
      /\ rip[1] = curr_func[n] /\ Peek(curr_func) = curr_func[n] /\ rip[2] = ip
  BY LinkedFetched DEF Together
<1>2. UNCHANGED <<fp, data_stack, allocations, freeing, curr_func, ip_stack>>
  BY DEF Jump, JumpIf, OperandsOnly, frameVars, callVars
<1>3. CASE Jump
  <2>1. Op.op = "JUMP"
    BY <1>3 DEF Jump, Fetch
  <2>2. NasmJump
    BY <1>1, <2>1, NasmStepOf
  <2>3. /\ ip' = ip + 1 + Op.arg /\ exec_stack' = exec_stack
        /\ rip' = <<rip[1], rip[2] + 1 + Op.arg>> /\ UNCHANGED <<memory, rsp, rbp, operands, fault>>
    BY <1>1, <1>3, <2>2 DEF Jump, NasmJump
  <2>4. rip' = <<Peek(curr_func), ip'>> /\ Matches(operands', exec_stack', fp, Words) /\ fault' = "none"
    BY <1>1, <2>3 DEF Together
  <2> QED BY <1>2, <2>3, <2>4, PlainLink DEF Together
<1>4. CASE JumpIf
  <2>1. Op.op \in {"JUMP_IF", "JUMP_IF_NOT"}
    BY <1>4 DEF JumpIf, Fetch
  <2>2. NasmJumpIf /\ Value(Top) = Peek(exec_stack)
    BY <1>1, <2>1, NasmStepOf, ComputesWithInts
  <2> DEFINE go == IF (Peek(exec_stack) # 0) = (Op.op = "JUMP_IF") THEN Op.arg ELSE 0
  <2>3. /\ ip' = ip + 1 + go /\ exec_stack' = Pop(exec_stack)
        /\ rip' = <<rip[1], rip[2] + 1 + go>> /\ operands' = Without(1)
        /\ UNCHANGED <<memory, rsp, rbp, fault>>
    BY <1>1, <1>4, <2>2 DEF JumpIf, NasmJumpIf
  <2> HIDE DEF go
  <2>4. Matches(Without(1), Pop(exec_stack), fp, m)
    <3>1. Len(operands) >= 1
      BY <1>1, <2>1
    <3> QED BY <1>1, <3>1, OperandsMatch
  <2>5. rip' = <<Peek(curr_func), ip'>> /\ Matches(operands', exec_stack', fp, Words) /\ fault' = "none"
    BY <1>1, <2>3, <2>4 DEF Together
  <2> QED BY <1>2, <2>3, <2>5, PlainLink DEF Together
<1> QED BY <1>3, <1>4

\* The routines of the runtime.
LEMMA RoutinesTogether ==
  ASSUME ProgramsTidy, ProgramsBalanced, Together, NasmNext, SameInput, CallExternal
  PROVE  Linked' /\ fault' = "none"
<1> DEFINE n == Len(curr_func)
           m == Len(data_stack)
<1>1. NasmOp = Op /\ Words = m /\ Matches(operands, exec_stack, fp, m) /\ Len(operands) \in Nat
  BY LinkedFetched DEF Together
<1>2. Op.op = "CALL" /\ ir.functions[Op.name].external
  BY DEF CallExternal, Fetch
<1>3. NasmGetchar \/ NasmPutchar
  <2>1. ~NasmCall
    BY <1>1, <1>2 DEF NasmCall
  <2> QED BY <1>1, <1>2, <2>1, NasmStepOf
<1>4. Advance /\ UNCHANGED <<fp, data_stack, allocations, freeing, curr_func, ip_stack>>
  BY DEF CallExternal, frameVars
<1>5. /\ Matches(Without(0), exec_stack, fp, m)
      /\ Len(operands) >= 1 => Matches(Without(1), Pop(exec_stack), fp, m)
  BY <1>1, OperandsMatch
<1> HIDE DEF m
<1>6. CASE NasmGetchar
  <2>1. Op.name = "getchar"
    BY <1>1, <1>6 DEF NasmGetchar
  <2>2. PICK c : exec_stack' = Push(exec_stack, c)
    BY <2>1 DEF CallExternal
  <2>3. PICK k : operands' = Append(Without(0), Int_(k)) /\ OnlyOperands
    BY <1>6 DEF NasmGetchar, Stores
  <2>4. operands'[Len(operands')] = Int_(Peek(exec_stack'))
    BY <1>1, <1>2, <2>1 DEF SameInput
  <2>5. operands'[Len(operands')] = Int_(k)
    <3>1. PICK A : Without(0) \in Seq(A)
      BY <1>5 DEF Matches, IsSequence
    <3> DEFINE B == A \cup {Int_(k)}
    <3>2. Without(0) \in Seq(B) /\ Int_(k) \in B
      BY <3>1, SeqMonotonic
    <3> HIDE DEF B
    <3>3. Len(Append(Without(0), Int_(k))) = Len(Without(0)) + 1
          /\ Append(Without(0), Int_(k))[Len(Without(0)) + 1] = Int_(k)
      BY <3>2
    <3> QED BY <2>3, <3>3
  <2>6. Peek(exec_stack') = c
    <3>1. PICK A : exec_stack \in Seq(A)
      BY <1>1 DEF Matches, IsSequence
    <3> DEFINE B == A \cup {c}
    <3>2. exec_stack \in Seq(B) /\ c \in B
      BY <3>1, SeqMonotonic
    <3> HIDE DEF B
    <3> QED BY <2>2, <3>2, PushedStack
  <2>7. k = c
    BY <2>4, <2>5, <2>6 DEF Int_
  <2>8. Matches(operands', exec_stack', fp, m)
    <3>1. Firm(Int_(k), c, fp, m)
      BY <2>7 DEF Firm
    <3> QED BY <1>5, <2>2, <2>3, <3>1, MatchesMore
  <2> QED BY <1>4, <2>3, <2>8, PlainOperands DEF m
<1>7. CASE NasmPutchar
  <2>1. Op.name = "putchar"
    BY <1>1, <1>7 DEF NasmPutchar
  <2>2. exec_stack' = Pop(exec_stack)
    BY <2>1 DEF CallExternal
  <2>3. operands' = Without(1) /\ OnlyOperands
    BY <1>7 DEF NasmPutchar
  <2>4. Len(operands) >= 1
    <3>1. /\ OperandsAt(n) \in Nat /\ heights[n] \in Nat /\ Len(exec_stack) = heights[n] + OperandsAt(n)
          /\ ip \in Nat
          /\ \A j \in Follows(Code, ip) :
               /\ OperandsOf(curr_func[n])[j] \in Nat
               /\ OperandsOf(curr_func[n])[j] = OperandsAfter(ir, Op, OperandsAt(n))
      BY OperandsFetched DEF Together
    <3>2. ip + 1 \in Follows(Code, ip)
      BY <1>2 DEF Follows, Op
    <3>3. OperandsAfter(ir, Op, OperandsAt(n)) = OperandsAt(n) - 1
      BY <1>2, <2>1 DEF OperandsAfter
    <3>4. OperandsAt(n) - 1 \in Nat
      BY <3>1, <3>2, <3>3
    <3>5. Len(exec_stack) = Len(operands)
      BY <1>1 DEF Matches
    <3> QED BY <3>1, <3>4, <3>5
  <2>5. Matches(operands', exec_stack', fp, m)
    BY <1>5, <2>2, <2>3, <2>4
  <2> QED BY <1>4, <2>3, <2>5, PlainOperands DEF m
<1> QED BY <1>3, <1>6, <1>7

LEMMA PushedAny ==
  ASSUME NEW s, IsSequence(s), NEW x
  PROVE  /\ IsSequence(Push(s, x)) /\ Len(Push(s, x)) = Len(s) + 1 /\ Peek(Push(s, x)) = x
         /\ Push(s, x)[Len(s) + 1] = x
         /\ \A k \in 1 .. Len(s) : Push(s, x)[k] = s[k]
<1>1. PICK S : s \in Seq(S)
  BY DEF IsSequence
<1> DEFINE T == S \cup {x}
<1>2. s \in Seq(T) /\ x \in T
  BY <1>1, SeqMonotonic
<1> HIDE DEF T
<1>3. /\ Push(s, x) \in Seq(T) /\ Len(Push(s, x)) = Len(s) + 1 /\ Peek(Push(s, x)) = x
      /\ Push(s, x)[Len(s) + 1] = x
      /\ \A k \in 1 .. Len(s) : Push(s, x)[k] = s[k]
  BY <1>2, PushedStack
<1> QED BY <1>3 DEF IsSequence

LEMMA PushedLonger ==
  ASSUME NEW s, IsSequence(s), NEW x
  PROVE  Len(Push(s, x)) = Len(s) + 1 /\ Peek(Push(s, x)) = x
BY PushedAny

\* The calls, and the addresses they return to.
LEMMA CallsTogether ==
  ASSUME ProgramsTidy, VariablesInv, NEW n, n = Len(curr_func)
  PROVE  /\ curr_func \in Seq(Defined(ir)) /\ ip_stack \in Seq(Nat) /\ n \in Nat
         /\ Len(ip_stack) + 1 = n /\ IsSequence(curr_func) /\ IsSequence(ip_stack)
BY DEF VariablesInv, MemoryInv, MemoryShape, FramesNest, IsSequence

LEMMA CallTogether ==
  ASSUME ProgramsTidy, ProgramsBalanced, Together, NasmNext, Call
  PROVE  Linked' /\ fault' = "none"
<1> DEFINE n == Len(curr_func)
           m == Len(data_stack)
           frame == FrameAt(n)
           top == rsp + 1
           back == <<"return", rip[1], rip[2] + 1>>
<1>1. /\ NasmOp = Op /\ m \in Nat /\ Words = m /\ Nested(fp, m, curr_func) /\ n \in Nat /\ n >= 2
      /\ Matches(operands, exec_stack, fp, m)
      /\ rip[1] = curr_func[n] /\ Peek(curr_func) = curr_func[n] /\ rip[2] = ip /\ ip \in Nat
  BY LinkedFetched DEF Together
<1>2. Op.op = "CALL" /\ ~ir.functions[Op.name].external
  BY DEF Call, Fetch
<1>3. /\ curr_func' = Push(curr_func, Op.name) /\ ip_stack' = Push(ip_stack, ip + 1) /\ ip' = 0
      /\ UNCHANGED <<fp, data_stack, allocations, freeing, exec_stack>>
  BY DEF Call, frameVars
<1>4. /\ memory' = Written(top, back) /\ rsp' = top /\ rip' = <<Op.name, 0>>
      /\ UNCHANGED <<rbp, operands, fault>>
  <2>1. ~NasmGetchar /\ ~NasmPutchar
    BY <1>1, <1>2 DEF NasmGetchar, NasmPutchar
  <2>2. NasmCall
    BY <1>1, <1>2, <2>1, NasmStepOf
  <2> QED BY <1>1, <2>2 DEF NasmCall
<1>5. Len(fp) = n
  <2>1. ProgramsTidy /\ VariablesInv /\ Running
    BY DEF Together
  <2> HIDE DEF n, m, frame
  <2>2. n = Len(curr_func) /\ frame = FrameAt(n) /\ m = Len(data_stack)
    BY DEF n, frame, m
  <2>3. FrameAllows(Op, frame) /\ (frame.framed <=> Len(fp) = n)
    BY <2>1, <2>2, FrameFetched
  <2> QED BY <1>2, <2>3 DEF FrameAllows
<1>6. /\ Len(curr_func') = n + 1 /\ Peek(curr_func') = Op.name
      /\ \A k \in 1 .. n : curr_func'[k] = curr_func[k]
      /\ Len(ip_stack) = n - 1
      /\ ip_stack'[n] = ip + 1 /\ \A k \in 1 .. n - 1 : ip_stack'[k] = ip_stack[k]
  <2>1. /\ curr_func \in Seq(Defined(ir)) /\ ip_stack \in Seq(Nat) /\ Len(ip_stack) + 1 = n
        /\ IsSequence(curr_func) /\ IsSequence(ip_stack)
    BY CallsTogether DEF Together
  <2>2. Len(ip_stack) = n - 1
    BY <1>1, <2>1
  <2>3. /\ Len(Push(ip_stack, ip + 1)) = Len(ip_stack) + 1
        /\ Push(ip_stack, ip + 1)[Len(ip_stack) + 1] = ip + 1
        /\ \A k \in 1 .. Len(ip_stack) : Push(ip_stack, ip + 1)[k] = ip_stack[k]
    BY <2>1, PushedAny
  <2>5. /\ Len(Push(curr_func, Op.name)) = Len(curr_func) + 1 /\ Peek(Push(curr_func, Op.name)) = Op.name
        /\ \A k \in 1 .. Len(curr_func) : Push(curr_func, Op.name)[k] = curr_func[k]
    BY <2>1, PushedAny
  <2> QED BY <1>1, <1>3, <2>1, <2>2, <2>3, <2>5
<1>7. Words' = m
  BY <1>1, <1>3 DEF Words
<1> HIDE DEF m, frame
<1>8. /\ rsp = RspOf(fp, m, curr_func) /\ rsp <= Len(memory) /\ IsSequence(memory)
      /\ FramesSaved(memory, fp, m, curr_func, ip_stack)
      /\ VariablesMatch(memory, allocations, data_stack, fp, m)
      /\ rbp = RbpOf(fp) /\ fault = "none"
  BY <1>1 DEF Together, Linked
<1>9. /\ \A i \in 0 .. m - 1 : DepthIn(fp, i) \in Nat /\ DepthIn(fp, i) >= 1 /\ DepthIn(fp, i) <= rsp
      /\ \A k \in 2 .. Len(fp) : Base(fp, k) \in Nat /\ Base(fp, k) >= 1 /\ Base(fp, k) <= rsp
      /\ \A k \in 2 .. n :
           ReturnAt(fp, m, k) \in Nat /\ ReturnAt(fp, m, k) >= 1 /\ ReturnAt(fp, m, k) <= rsp
      /\ rsp \in Nat
  BY <1>1, <1>8, PlacesApart
<1>10. /\ IsSequence(memory') /\ Len(memory) \in Nat /\ Len(memory') \in Nat
       /\ Len(memory') >= Len(memory) /\ Len(memory') >= top /\ memory'[top] = back
       /\ \A e \in 1 .. Len(memory) : e # top => memory'[e] = memory[e]
  <2>1. top \in Nat /\ top >= 1
    BY <1>9
  <2> HIDE DEF top, back
  <2> QED BY <1>4, <1>8, <2>1, WrittenWord
<1>11. ASSUME NEW e \in Nat, e >= 1, e <= rsp PROVE memory'[e] = memory[e]
  <2>1. e \in 1 .. Len(memory) /\ e # top
    BY <1>8, <1>9, <1>10, <1>11
  <2> QED BY <1>10, <2>1
<1>12. FramesSaved(memory', fp, m, curr_func', ip_stack')
  <2>1. ASSUME NEW k \in 2 .. Len(fp) PROVE memory'[Base(fp, k)] = SavedBase(fp, k)
    BY <1>8, <1>9, <1>11 DEF FramesSaved
  <2>2. ASSUME NEW k \in 2 .. Len(curr_func')
        PROVE  memory'[ReturnAt(fp, m, k)] = SavedReturn(curr_func', ip_stack', k)
    <3>1. k \in Nat /\ k >= 2 /\ k <= n + 1
      BY <1>1, <1>6
    <3>2. CASE k <= n
      <4>1. k \in 2 .. n /\ k - 1 \in 1 .. n /\ k - 1 \in 1 .. n - 1
        BY <1>1, <3>1, <3>2
      <4>2. memory[ReturnAt(fp, m, k)] = SavedReturn(curr_func, ip_stack, k)
        BY <1>8, <4>1 DEF FramesSaved
      <4>3. memory'[ReturnAt(fp, m, k)] = memory[ReturnAt(fp, m, k)]
        BY <1>9, <1>11, <4>1
      <4>4. SavedReturn(curr_func', ip_stack', k) = SavedReturn(curr_func, ip_stack, k)
        BY <1>6, <4>1 DEF SavedReturn
      <4> QED BY <4>2, <4>3, <4>4
    <3>3. CASE k = n + 1
      <4>1. ReturnAt(fp, m, k) = top
        <5>1. ~(k <= Len(fp)) /\ k - 2 = n - 1
          BY <1>1, <1>5, <3>1, <3>3
        <5>2. ReturnAt(fp, m, k) = m + 2 * (n - 1) + 1
          BY <5>1 DEF ReturnAt
        <5>3. rsp = m + (n - 1) + (n - 1)
          BY <1>5, <1>8 DEF RspOf
        <5> QED BY <1>1, <5>2, <5>3
      <4>2. k - 1 = n /\ k # 2 /\ n \in 1 .. n
        BY <1>1, <3>3
      <4>3. SavedReturn(curr_func', ip_stack', k) = <<"return", curr_func[n], ip + 1>>
        BY <1>6, <4>2 DEF SavedReturn
      <4> QED BY <1>1, <1>10, <4>1, <4>3
    <3> QED BY <1>1, <3>1, <3>2, <3>3
  <2> QED BY <2>1, <2>2 DEF FramesSaved
<1>13. VariablesMatch(memory', allocations, data_stack, fp, m)
  <2> SUFFICES ASSUME NEW b \in 1 .. Len(allocations), allocations[b].start < m, allocations[b].size = 1
               PROVE  Firm(memory'[DepthIn(fp, allocations[b].start)],
                           data_stack[allocations[b].start + 1], fp, m)
    BY DEF VariablesMatch
  <2> DEFINE start == allocations[b].start
  <2>1. start \in 0 .. m - 1
    <3>1. start \in Nat
      BY BlocksTogether
    <3> QED BY <1>1, <3>1
  <2>2. memory'[DepthIn(fp, start)] = memory[DepthIn(fp, start)]
    BY <1>9, <1>11, <2>1
  <2> QED BY <1>8, <2>2 DEF VariablesMatch
<1>14. rsp' = RspOf(fp, m, curr_func')
  BY <1>1, <1>4, <1>5, <1>6, <1>8, <1>9 DEF RspOf
<1> QED BY <1>1, <1>3, <1>4, <1>6, <1>7, <1>8, <1>10, <1>12, <1>13, <1>14 DEF Linked

\* mainCRTStartup calls a function when the function that computes the globals does.
LEMMA StartTogether ==
  ASSUME ProgramsTidy, ProgramsBalanced, VariablesInv, OperandsInv, Running,
         Len(curr_func) = 1, Words = 0, Call, fault = "none",
         NasmStart(Op.name, exec_stack)
  PROVE  Linked' /\ fault' = "none"
<1> DEFINE n == Len(curr_func)
           m == Len(data_stack)
           frame == FrameAt(n)
           back == <<"return">> \o Outside
<1>1. Op.op = "CALL"
  BY DEF Call, Fetch
<1>2. /\ FrameAllows(Op, frame) /\ (frame.framed <=> Len(fp) = n)
      /\ \A j \in 1 .. Len(allocations) : allocations[j].start \in Nat
  <2> HIDE DEF n, m, frame
  <2>1. n = Len(curr_func) /\ frame = FrameAt(n) /\ m = Len(data_stack)
    BY DEF n, frame, m
  <2> QED BY <2>1, FrameFetched
<1>3. Len(fp) = 1
  BY <1>1, <1>2 DEF FrameAllows
<1>4. /\ curr_func' = Push(curr_func, Op.name) /\ ip_stack' = Push(ip_stack, ip + 1) /\ ip' = 0
      /\ UNCHANGED <<fp, data_stack, allocations, freeing, exec_stack>>
  BY DEF Call, frameVars
<1>5. /\ memory' = <<back>> /\ rsp' = 1 /\ rbp' = 0
      /\ operands' = [i \in DOMAIN exec_stack |-> Int_(exec_stack[i])]
      /\ rip' = <<Op.name, 0>> /\ fault' = "none"
  BY DEF NasmStart
<1>6. Len(curr_func') = 2 /\ Peek(curr_func') = Op.name
  <2>1. IsSequence(curr_func)
    BY CallsTogether
  <2>2. Len(Push(curr_func, Op.name)) = Len(curr_func) + 1
    BY <2>1, PushedLonger
  <2>3. Peek(Push(curr_func, Op.name)) = Op.name
    BY <2>1, PushedLonger
  <2> QED BY <1>4, <2>2, <2>3
<1>7. Words' = 0
  BY <1>4 DEF Words
<1>8. IsSequence(memory') /\ Len(memory') = 1 /\ memory'[1] = back
  <2> HIDE DEF back
  <2>1. <<back>> \in Seq({back})
    OBVIOUS
  <2> QED BY <1>5, <2>1 DEF IsSequence
<1>9. FramesSaved(memory', fp, 0, curr_func', ip_stack')
  <2>1. ASSUME NEW k \in 2 .. Len(fp) PROVE FALSE
    BY <1>3
  <2>2. ASSUME NEW k \in 2 .. Len(curr_func')
        PROVE  memory'[ReturnAt(fp, 0, k)] = SavedReturn(curr_func', ip_stack', k)
    <3>1. k = 2
      BY <1>6
    <3>2. ReturnAt(fp, 0, k) = 1
      BY <1>3, <3>1 DEF ReturnAt
    <3> QED BY <1>8, <3>1, <3>2 DEF SavedReturn
  <2> QED BY <2>1, <2>2 DEF FramesSaved
<1>10. Matches(operands', exec_stack', fp, 0)
  <2>1. PICK A : exec_stack \in Seq(A)
    BY DEF OperandsInv, OperandsShape, IsSequence
  <2> DEFINE B == {Int_(exec_stack[i]) : i \in 1 .. Len(exec_stack)}
  <2>2. DOMAIN exec_stack = 1 .. Len(exec_stack) /\ Len(exec_stack) \in Nat
    BY <2>1
  <2>3. operands' = [i \in 1 .. Len(exec_stack) |-> Int_(exec_stack[i])]
    BY <1>5, <2>2
  <2>4. operands' \in [1 .. Len(exec_stack) -> B]
    BY <2>3
  <2> HIDE DEF B
  <2>5. operands' \in Seq(B) /\ Len(operands') = Len(exec_stack)
    <3>1. operands' \in Seq(B)
      BY <2>2, <2>4, SeqDef
    <3> QED BY <2>2, <2>4, <3>1, LenProperties
  <2>6. IsSequence(operands') /\ IsSequence(exec_stack')
    BY <1>4, <2>1, <2>5 DEF IsSequence
  <2>7. \A i \in 1 .. Len(operands') : Firm(operands'[i], exec_stack'[i], fp, 0)
    BY <1>4, <2>3, <2>5 DEF Firm
  <2> QED BY <1>4, <2>5, <2>6, <2>7 DEF Matches
<1>11. VariablesMatch(memory', allocations, data_stack, fp, 0)
  <2>1. \A b \in 1 .. Len(allocations) : ~(allocations[b].start < 0)
    BY <1>2
  <2> QED BY <2>1 DEF VariablesMatch
<1>12. RspOf(fp, 0, curr_func') = 1 /\ RbpOf(fp) = 0
  BY <1>3, <1>6 DEF RspOf, RbpOf
<1> QED BY <1>4, <1>5, <1>6, <1>7, <1>8, <1>9, <1>10, <1>11, <1>12 DEF Linked

LEMMA PoppedAny ==
  ASSUME NEW s, IsSequence(s), s # <<>>
  PROVE  /\ IsSequence(Pop(s)) /\ Len(s) \in Nat /\ Len(s) > 0 /\ Len(Pop(s)) = Len(s) - 1
         /\ Peek(s) = s[Len(s)]
         /\ \A k \in 1 .. Len(s) - 1 : Pop(s)[k] = s[k]
<1>1. PICK S : s \in Seq(S)
  BY DEF IsSequence
<1> QED BY <1>1, PoppedStack, Zenon DEF IsSequence

LEMMA ReturnWord ==
  LET word == <<"return">> \o Outside
  IN  word[2] = "mainCRTStartup" /\ word[3] = 0
<1> DEFINE S == {"return", "mainCRTStartup", 0}
           a == <<"return">>
           b == <<"mainCRTStartup", 0>>
<1>1. a \in Seq(S) /\ b \in Seq(S) /\ Len(a) = 1 /\ Len(b) = 2
      /\ b[1] = "mainCRTStartup" /\ b[2] = 0
  OBVIOUS
<1> HIDE DEF S, a, b
<1>2. \A i \in 1 .. Len(a) + Len(b) : (a \o b)[i] = IF i <= Len(a) THEN a[i] ELSE b[i - Len(a)]
  BY <1>1, ConcatProperties
<1>3. (a \o b)[2] = b[1] /\ (a \o b)[3] = b[2]
  <2>1. 2 \in 1 .. Len(a) + Len(b) /\ 3 \in 1 .. Len(a) + Len(b)
        /\ ~(2 <= Len(a)) /\ ~(3 <= Len(a)) /\ 2 - Len(a) = 1 /\ 3 - Len(a) = 2
    BY <1>1
  <2> QED BY <1>2, <2>1
<1>4. <<"return">> \o Outside = a \o b
  BY DEF Outside, a, b
<1> QED BY <1>1, <1>3, <1>4

\* The last call returns to the startup code, and any other to its caller.
LEMMA ReturnTogether ==
  ASSUME ProgramsTidy, ProgramsBalanced, Together, NasmNext, Ret
  PROVE  /\ fault' = "none"
         /\ Len(curr_func) = 2 => rip' = Outside /\ Len(curr_func') = 1
         /\ Len(curr_func) # 2 => Linked'
<1> DEFINE n == Len(curr_func)
           m == Len(data_stack)
           frame == FrameAt(n)
<1>1. /\ NasmOp = Op /\ m \in Nat /\ Words = m /\ Nested(fp, m, curr_func) /\ n \in Nat /\ n >= 2
      /\ Matches(operands, exec_stack, fp, m)
  BY LinkedFetched DEF Together
<1>2. Op.op = "RET"
  BY DEF Ret, Fetch
<1>3. /\ IsSequence(curr_func) /\ IsSequence(ip_stack) /\ Len(ip_stack) = n - 1
      /\ curr_func # <<>> /\ ip_stack # <<>>
  <2>1. IsSequence(curr_func) /\ IsSequence(ip_stack) /\ Len(ip_stack) + 1 = n
    BY CallsTogether DEF Together
  <2>2. ip_stack = <<>> => Len(ip_stack) = 0
    OBVIOUS
  <2>3. curr_func = <<>> => n = 0
    OBVIOUS
  <2>4. Len(ip_stack) \in Nat
    BY <2>1 DEF IsSequence
  <2> HIDE DEF n
  <2> QED BY <1>1, <2>1, <2>2, <2>3, <2>4
<1>4. /\ curr_func' = Pop(curr_func) /\ ip_stack' = Pop(ip_stack) /\ ip' = Peek(ip_stack)
      /\ UNCHANGED <<fp, data_stack, allocations, freeing, exec_stack>>
  BY <1>3 DEF Ret, frameVars
<1>5. /\ rip' = <<memory[rsp][2], memory[rsp][3]>> /\ rsp' = rsp - 1
      /\ UNCHANGED <<memory, rbp, operands, fault>>
  BY <1>1, <1>2, NasmStepOf DEF NasmRet
<1>6. Len(fp) = n - 1
  <2>1. ProgramsTidy /\ VariablesInv /\ Running
    BY DEF Together
  <2> HIDE DEF n, m, frame
  <2>2. n = Len(curr_func) /\ frame = FrameAt(n) /\ m = Len(data_stack)
    BY DEF n, frame, m
  <2>3. FrameAllows(Op, frame) /\ (frame.framed <=> Len(fp) = n) /\ Len(fp) \in {n - 1, n}
    BY <2>1, <2>2, FrameFetched
  <2>4. ~frame.framed
    BY <1>2, <2>3 DEF FrameAllows
  <2> QED BY <2>3, <2>4
<1>7. /\ Len(curr_func') = n - 1
      /\ \A k \in 1 .. n - 1 : curr_func'[k] = curr_func[k]
      /\ \A k \in 1 .. n - 2 : ip_stack'[k] = ip_stack[k]
      /\ ip' = ip_stack[n - 1] /\ Len(ip_stack') = n - 2
  <2>1. /\ Len(Pop(curr_func)) = Len(curr_func) - 1
        /\ \A k \in 1 .. Len(curr_func) - 1 : Pop(curr_func)[k] = curr_func[k]
    BY <1>3, PoppedAny
  <2>2. /\ Len(Pop(ip_stack)) = Len(ip_stack) - 1 /\ Peek(ip_stack) = ip_stack[Len(ip_stack)]
        /\ \A k \in 1 .. Len(ip_stack) - 1 : Pop(ip_stack)[k] = ip_stack[k]
    BY <1>3, PoppedAny
  <2>3. Len(ip_stack) - 1 = n - 2
    BY <1>1, <1>3
  <2> QED BY <1>3, <1>4, <2>1, <2>2, <2>3
<1>8. Words' = m
  BY <1>1, <1>4 DEF Words
<1> HIDE DEF m, frame
<1>9. /\ rsp = RspOf(fp, m, curr_func) /\ rsp <= Len(memory) /\ IsSequence(memory)
      /\ FramesSaved(memory, fp, m, curr_func, ip_stack)
      /\ VariablesMatch(memory, allocations, data_stack, fp, m)
      /\ rbp = RbpOf(fp) /\ fault = "none"
  BY <1>1 DEF Together, Linked
<1>10. memory[rsp] = SavedReturn(curr_func, ip_stack, n)
  <2>1. ReturnAt(fp, m, n) = m + 2 * (n - 2) + 1
    <3>1. ~(n <= Len(fp))
      BY <1>1, <1>6
    <3> QED BY <3>1 DEF ReturnAt
  <2>2. rsp = m + (n - 1 - 1) + (n - 1)
    BY <1>6, <1>9 DEF RspOf
  <2>3. ReturnAt(fp, m, n) = rsp /\ n \in 2 .. n
    BY <1>1, <2>1, <2>2
  <2> QED BY <1>9, <2>3 DEF FramesSaved
<1>11. CASE n = 2
  <2>1. memory[rsp] = <<"return">> \o Outside
    BY <1>10, <1>11 DEF SavedReturn
  <2>2. memory[rsp][2] = "mainCRTStartup" /\ memory[rsp][3] = 0
    BY <2>1, ReturnWord
  <2>3. rip' = Outside
    BY <1>5, <2>2 DEF Outside
  <2> QED BY <1>5, <1>7, <1>9, <1>11, <2>3
<1>12. CASE n # 2
  <2>1. n >= 3 /\ n - 1 >= 2 /\ n - 1 \in 1 .. n - 1 /\ n - 1 \in Nat
    <3> HIDE DEF n
    <3>1. n >= 3
      BY <1>1, <1>12
    <3> QED BY <1>1, <3>1
  <2>2. rip' = <<curr_func[n - 1], ip_stack[n - 1]>>
    <3>1. memory[rsp] = <<"return", curr_func[n - 1], ip_stack[n - 1]>>
      BY <1>10, <1>12 DEF SavedReturn
    <3> QED BY <1>5, <3>1
  <2>3. Peek(curr_func') = curr_func[n - 1]
    <3>1. curr_func' # <<>>
      <4>1. curr_func' = <<>> => Len(curr_func') = 0
        OBVIOUS
      <4> QED BY <1>7, <2>1, <4>1
    <3> QED BY <1>7, <2>1, <3>1 DEF Peek
  <2>4. FramesSaved(memory, fp, m, curr_func', ip_stack')
    <3>1. ASSUME NEW k \in 2 .. Len(curr_func')
          PROVE  memory[ReturnAt(fp, m, k)] = SavedReturn(curr_func', ip_stack', k)
      <4>1. k \in 2 .. n /\ k - 1 \in 1 .. n - 1 /\ k - 1 \in 1 .. n - 2
        BY <1>1, <1>7, <2>1
      <4>2. memory[ReturnAt(fp, m, k)] = SavedReturn(curr_func, ip_stack, k)
        BY <1>9, <4>1 DEF FramesSaved
      <4>3. SavedReturn(curr_func', ip_stack', k) = SavedReturn(curr_func, ip_stack, k)
        BY <1>7, <4>1 DEF SavedReturn
      <4> QED BY <4>2, <4>3
    <3> QED BY <1>9, <3>1 DEF FramesSaved
  <2>5. rsp' = RspOf(fp, m, curr_func')
    BY <1>1, <1>5, <1>6, <1>7, <1>9 DEF RspOf
  <2>6. rsp' <= Len(memory')
    <3>1. rsp = m + (n - 1 - 1) + (n - 1)
      BY <1>6, <1>9 DEF RspOf
    <3>2. Len(memory) \in Nat
      BY <1>9 DEF IsSequence
    <3> QED BY <1>1, <1>5, <1>9, <3>1, <3>2
  <2> QED BY <1>1, <1>4, <1>5, <1>7, <1>8, <1>9, <1>12, <2>1, <2>2, <2>3, <2>4, <2>5, <2>6 DEF Linked
<1> QED BY <1>5, <1>9, <1>11, <1>12

--------------------------------------------------------------------------------
(* Frames, and making room in them.                                             *)

\* The last call has a frame, or has none, as its opcode says.
LEMMA FrameTogether ==
  ASSUME ProgramsTidy, Together
  PROVE  /\ Op.op \in {"STACK_FRAME_POP", "CALL", "ALLOC", "FREE"} => Len(fp) = Len(curr_func)
         /\ Op.op \in {"STACK_FRAME_PUSH", "RET"} => Len(fp) = Len(curr_func) - 1
         /\ Op.op = "ALLOC" => Op.arg \in Nat \ {0}
         /\ Op.op = "FREE" => Op.arg \in Nat
         /\ Len(fp) \in Nat
<1> DEFINE n == Len(curr_func)
           frame == FrameAt(n)
           m == Len(data_stack)
<1>1. ProgramsTidy /\ VariablesInv /\ Running
  BY DEF Together
<1>0. Len(fp) \in Nat
  BY <1>1 DEF VariablesInv, MemoryInv, MemoryShape
<1> HIDE DEF n, frame, m
<1>2. n = Len(curr_func) /\ frame = FrameAt(n) /\ m = Len(data_stack)
  BY DEF n, frame, m
<1>3. FrameAllows(Op, frame) /\ (frame.framed <=> Len(fp) = n) /\ Len(fp) \in {n - 1, n}
  BY <1>1, <1>2, FrameFetched
<1> QED BY <1>0, <1>2, <1>3 DEF FrameAllows

LEMMA FramePushTogether ==
  ASSUME ProgramsTidy, ProgramsBalanced, Together, NasmNext, FramePush
  PROVE  Linked' /\ fault' = "none"
<1> DEFINE n == Len(curr_func)
           m == Len(data_stack)
           top == rsp + 1
           after == Push(fp, m)
<1>1. /\ NasmOp = Op /\ m \in Nat /\ Words = m /\ Nested(fp, m, curr_func) /\ n \in Nat /\ n >= 2
      /\ Matches(operands, exec_stack, fp, m)
      /\ rip[1] = curr_func[n] /\ Peek(curr_func) = curr_func[n] /\ rip[2] = ip /\ ip \in Nat
  BY LinkedFetched DEF Together
<1>2. Op.op = "STACK_FRAME_PUSH"
  BY DEF FramePush, Fetch
<1>3. /\ fp' = after /\ ip' = ip + 1
      /\ UNCHANGED <<data_stack, allocations, freeing, exec_stack, curr_func, ip_stack>>
  BY DEF FramePush, Advance, callVars
<1>4. /\ memory' = Written(top, Address(rbp)) /\ rsp' = top /\ rbp' = top
      /\ rip' = <<rip[1], rip[2] + 1>> /\ UNCHANGED <<operands, fault>>
  BY <1>1, <1>2, NasmStepOf DEF NasmFramePush, FallsThrough
<1>5. Len(fp) = n - 1 /\ Len(fp) \in Nat
  BY <1>1, <1>2, FrameTogether
<1>6. Words' = m
  BY <1>1, <1>3 DEF Words
<1>7. Len(curr_func) \in Nat /\ Peek(curr_func)' = Peek(curr_func)
  BY <1>1, <1>3 DEF Peek
<1>8. /\ after \in Seq(Nat) /\ Len(after) = n /\ after[n] = m
      /\ \A k \in 1 .. n - 1 : after[k] = fp[k]
  <2>1. fp \in Seq(Nat)
    BY <1>1 DEF Nested, Ascending
  <2>2. /\ Push(fp, m) \in Seq(Nat) /\ Len(Push(fp, m)) = Len(fp) + 1
        /\ Push(fp, m)[Len(fp) + 1] = m
        /\ \A k \in 1 .. Len(fp) : Push(fp, m)[k] = fp[k]
    BY <1>1, <2>1 DEF Push
  <2>3. Len(fp) + 1 = n
    BY <1>1, <1>5
  <2> HIDE DEF m, n
  <2> QED BY <1>5, <2>2, <2>3
<1> HIDE DEF m, after
<1>9. \A i \in 0 .. m - 1 : DepthIn(after, i) = DepthIn(fp, i)
  <2> TAKE i \in 0 .. m - 1
  <2>1. i \in Nat /\ i < after[Len(after)] /\ Len(after) = Len(fp) + 1 /\ fp \in Seq(Nat)
    BY <1>1, <1>5, <1>8 DEF Nested, Ascending
  <2>2. \A k \in 1 .. Len(fp) : after[k] = fp[k]
    BY <1>5, <1>8
  <2> QED BY <1>8, <2>1, <2>2, DepthLonger
<1>10. /\ rsp = RspOf(fp, m, curr_func) /\ rsp <= Len(memory) /\ IsSequence(memory)
       /\ FramesSaved(memory, fp, m, curr_func, ip_stack)
       /\ VariablesMatch(memory, allocations, data_stack, fp, m)
       /\ rbp = RbpOf(fp) /\ fault = "none"
  BY <1>1 DEF Together, Linked
<1>11. /\ \A i \in 0 .. m - 1 : DepthIn(fp, i) \in Nat /\ DepthIn(fp, i) >= 1 /\ DepthIn(fp, i) <= rsp
       /\ \A k \in 2 .. Len(fp) : Base(fp, k) \in Nat /\ Base(fp, k) >= 1 /\ Base(fp, k) <= rsp
       /\ \A k \in 2 .. n :
            ReturnAt(fp, m, k) \in Nat /\ ReturnAt(fp, m, k) >= 1 /\ ReturnAt(fp, m, k) <= rsp
       /\ rsp \in Nat
  BY <1>1, <1>10, PlacesApart
<1>12. /\ IsSequence(memory') /\ Len(memory) \in Nat /\ Len(memory') \in Nat
       /\ Len(memory') >= Len(memory) /\ Len(memory') >= top /\ memory'[top] = Address(rbp)
       /\ \A e \in 1 .. Len(memory) : e # top => memory'[e] = memory[e]
  <2>1. top \in Nat /\ top >= 1
    BY <1>11
  <2> HIDE DEF top
  <2> QED BY <1>4, <1>10, <2>1, WrittenWord
<1>13. ASSUME NEW e \in Nat, e >= 1, e <= rsp PROVE memory'[e] = memory[e]
  <2>1. e \in 1 .. Len(memory) /\ e # top
    BY <1>10, <1>11, <1>12, <1>13
  <2> QED BY <1>12, <2>1
<1>14. Base(after, n) = top
  <2>1. rsp = m + (n - 1 - 1) + (n - 1)
    BY <1>5, <1>10 DEF RspOf
  <2>2. Base(after, n) = m + 2 * (n - 1)
    BY <1>8 DEF Base
  <2> HIDE DEF n
  <2> QED BY <1>1, <2>1, <2>2
<1>15. FramesSaved(memory', after, m, curr_func, ip_stack)
  <2>1. ASSUME NEW k \in 2 .. Len(after) PROVE memory'[Base(after, k)] = SavedBase(after, k)
    <3>1. CASE k = n
      <4>1. SavedBase(after, n) = Address(rbp)
        <5>1. CASE n = 2
          <6>1. ~(Len(fp) >= 2)
            BY <1>5, <5>1
          <6> QED BY <1>10, <5>1, <6>1 DEF SavedBase, RbpOf
        <5>2. CASE n # 2
          <6>1. Len(fp) >= 2 /\ n - 1 \in 1 .. n - 1
            BY <1>1, <1>5, <5>2
          <6>2. Base(after, n - 1) = Base(fp, n - 1)
            BY <1>8, <6>1 DEF Base
          <6> QED BY <1>5, <1>10, <5>2, <6>1, <6>2 DEF SavedBase, RbpOf
        <5> QED BY <5>1, <5>2
      <4> QED BY <1>12, <1>14, <3>1, <4>1
    <3>2. CASE k # n
      <4>1. k \in 2 .. Len(fp) /\ k \in 1 .. n - 1
        BY <1>1, <1>5, <1>8, <3>2
      <4>2. Base(after, k) = Base(fp, k) /\ SavedBase(after, k) = SavedBase(fp, k)
        <5>1. k # 2 => k - 1 \in 1 .. n - 1
          BY <4>1
        <5> QED BY <1>8, <4>1, <5>1 DEF Base, SavedBase
      <4>3. memory[Base(fp, k)] = SavedBase(fp, k)
        BY <1>10, <4>1 DEF FramesSaved
      <4>4. memory'[Base(fp, k)] = memory[Base(fp, k)]
        BY <1>11, <1>13, <4>1
      <4> QED BY <4>2, <4>3, <4>4
    <3> QED BY <3>1, <3>2
  <2>2. ASSUME NEW k \in 2 .. Len(curr_func)
        PROVE  memory'[ReturnAt(after, m, k)] = SavedReturn(curr_func, ip_stack, k)
    <3>1. ReturnAt(after, m, k) = ReturnAt(fp, m, k)
      <4>1. k <= Len(after) /\ (k = n \/ k \in 1 .. n - 1)
        BY <1>1, <1>8
      <4>2. CASE k = n
        <5>1. ~(k <= Len(fp))
          BY <1>1, <1>5, <4>2
        <5> QED BY <1>8, <4>1, <4>2, <5>1 DEF ReturnAt
      <4>3. CASE k \in 1 .. n - 1
        <5>1. k <= Len(fp)
          BY <1>1, <1>5, <4>3
        <5> QED BY <1>8, <4>1, <4>3, <5>1 DEF ReturnAt
      <4> QED BY <4>1, <4>2, <4>3
    <3>2. memory[ReturnAt(fp, m, k)] = SavedReturn(curr_func, ip_stack, k)
      BY <1>10 DEF FramesSaved
    <3>3. memory'[ReturnAt(fp, m, k)] = memory[ReturnAt(fp, m, k)]
      BY <1>11, <1>13
    <3> QED BY <3>1, <3>2, <3>3
  <2> QED BY <2>1, <2>2 DEF FramesSaved
<1>16. VariablesMatch(memory', allocations, data_stack, after, m)
  <2> SUFFICES ASSUME NEW b \in 1 .. Len(allocations), allocations[b].start < m, allocations[b].size = 1
               PROVE  Firm(memory'[DepthIn(after, allocations[b].start)],
                           data_stack[allocations[b].start + 1], after, m)
    BY DEF VariablesMatch
  <2> DEFINE start == allocations[b].start
  <2>1. start \in 0 .. m - 1
    <3>1. start \in Nat
      BY BlocksTogether
    <3> QED BY <1>1, <3>1
  <2>2. memory'[DepthIn(after, start)] = memory[DepthIn(fp, start)]
    BY <1>9, <1>11, <1>13, <2>1
  <2>3. Firm(memory[DepthIn(fp, start)], data_stack[start + 1], fp, m)
    BY <1>10 DEF VariablesMatch
  <2>4. m <= m
    BY <1>1
  <2> QED BY <1>1, <1>9, <2>2, <2>3, <2>4, FirmInMore
<1>17. Matches(operands, exec_stack, after, m)
  <2>1. m <= m
    BY <1>1
  <2> QED BY <1>1, <1>9, <2>1, MatchesInMore
<1>18. rsp' = RspOf(after, m, curr_func) /\ rbp' = RbpOf(after)
  <2>1. rsp = m + (n - 1 - 1) + (n - 1)
    BY <1>5, <1>10 DEF RspOf
  <2>2. RspOf(after, m, curr_func) = m + (n - 1) + (n - 1)
    BY <1>8 DEF RspOf
  <2>3. rbp' = RbpOf(after)
    BY <1>1, <1>4, <1>8, <1>14 DEF RbpOf
  <2> HIDE DEF n
  <2> QED BY <1>1, <1>4, <2>1, <2>2, <2>3
<1> QED BY <1>1, <1>3, <1>4, <1>6, <1>7, <1>10, <1>12, <1>15, <1>16, <1>17, <1>18 DEF Linked

\* allocate_memory: the words behind the old ones are zero.
LEMMA ZeroedWords ==
  ASSUME NEW d, IsSequence(d), NEW size \in Nat, NEW more, more = d \o [i \in 1 .. size |-> 0]
  PROVE  /\ IsSequence(more) /\ Len(d) \in Nat /\ Len(more) = Len(d) + size
         /\ \A i \in 1 .. Len(d) : more[i] = d[i]
         /\ \A i \in Len(d) + 1 .. Len(d) + size : more[i] = 0
<1> DEFINE zeros == [i \in 1 .. size |-> 0]
<1>1. PICK D : d \in Seq(D)
  BY DEF IsSequence
<1> DEFINE E == D \cup {0}
<1>2. d \in Seq(E) /\ 0 \in E
  BY <1>1, SeqMonotonic
<1> HIDE DEF E
<1>3. zeros \in Seq(E) /\ Len(zeros) = size
  <2>1. zeros \in [1 .. size -> E]
    BY <1>2
  <2>2. zeros \in Seq(E)
    BY <2>1, SeqDef
  <2> QED BY <2>1, <2>2, LenProperties
<1>4. \A i \in 1 .. size : zeros[i] = 0
  OBVIOUS
<1>5. more = d \o zeros
  OBVIOUS
<1> HIDE DEF zeros
<1>6. /\ d \o zeros \in Seq(E) /\ Len(d \o zeros) = Len(d) + Len(zeros)
      /\ \A i \in 1 .. Len(d) + Len(zeros) :
           (d \o zeros)[i] = IF i <= Len(d) THEN d[i] ELSE zeros[i - Len(d)]
  BY <1>2, <1>3, ConcatProperties
<1>7. Len(d) \in Nat
  BY <1>2
<1>8. ASSUME NEW i \in 1 .. Len(d) PROVE more[i] = d[i]
  <2>1. i \in 1 .. Len(d) + Len(zeros) /\ i <= Len(d)
    BY <1>3, <1>7
  <2> QED BY <1>5, <1>6, <2>1
<1>9. ASSUME NEW i \in Len(d) + 1 .. Len(d) + size PROVE more[i] = 0
  <2>1. i \in 1 .. Len(d) + Len(zeros) /\ ~(i <= Len(d)) /\ i - Len(d) \in 1 .. size
    BY <1>3, <1>7
  <2> QED BY <1>4, <1>5, <1>6, <2>1
<1> QED BY <1>3, <1>5, <1>6, <1>7, <1>8, <1>9 DEF IsSequence

LEMMA AllocTogether ==
  ASSUME ProgramsTidy, ProgramsBalanced, Together, NasmNext, Alloc
  PROVE  Linked' /\ fault' = "none"
<1> DEFINE n == Len(curr_func)
           m == Len(data_stack)
           size == Op.arg
           top == rsp + size
           block == [start |-> m, size |-> size, name |-> Op.name]
<1>1. /\ NasmOp = Op /\ m \in Nat /\ Words = m /\ Nested(fp, m, curr_func) /\ n \in Nat /\ n >= 2
      /\ Matches(operands, exec_stack, fp, m)
      /\ rip[1] = curr_func[n] /\ Peek(curr_func) = curr_func[n] /\ rip[2] = ip /\ ip \in Nat
  BY LinkedFetched DEF Together
<1>2. Op.op = "ALLOC"
  BY DEF Alloc, Fetch
<1>3. /\ data_stack' = data_stack \o [i \in 1 .. size |-> 0]
      /\ allocations' = Push(allocations, block)
      /\ exec_stack' = Push(exec_stack, m + size - 1)
      /\ ip' = ip + 1 /\ UNCHANGED <<fp, freeing, curr_func, ip_stack>>
  BY DEF Alloc, Advance, callVars
<1>4. /\ memory' = Written(top, Int_(0)) /\ rsp' = top
      /\ operands' = Append(Without(0), Address(top))
      /\ rip' = <<rip[1], rip[2] + 1>> /\ UNCHANGED <<rbp, fault>>
  <2>1. NasmAlloc
    BY <1>1, <1>2, NasmStepOf
  <2> QED BY <1>1, <2>1 DEF NasmAlloc, FallsThrough, Stores
<1>5. Len(fp) = n /\ size \in Nat /\ size >= 1
  BY <1>1, <1>2, FrameTogether
<1>6. /\ Len(data_stack') = m + size
      /\ \A i \in 1 .. m : data_stack'[i] = data_stack[i]
      /\ \A i \in m + 1 .. m + size : data_stack'[i] = 0
  <2>1. IsSequence(data_stack)
    BY DEF Together, VariablesInv, MemoryInv, MemoryShape
  <2> HIDE DEF size
  <2> QED BY <1>3, <1>5, <2>1, ZeroedWords
<1>7. /\ Len(allocations') = Len(allocations) + 1 /\ Len(allocations) \in Nat
      /\ allocations'[Len(allocations) + 1] = block
      /\ \A b \in 1 .. Len(allocations) : allocations'[b] = allocations[b]
  <2>1. allocations \in Seq(Blocks) /\ Len(allocations) \in Nat
    BY BlocksTogether
  <2>2. IsSequence(allocations)
    BY <2>1 DEF IsSequence
  <2> HIDE DEF block
  <2> QED BY <1>3, <2>1, <2>2, PushedAny
<1>8. Words' = m + size /\ Peek(curr_func)' = Peek(curr_func)
  <2>1. Words' = Len(data_stack') - freeing' /\ Words = Len(data_stack) - freeing /\ freeing = 0
    BY DEF Words, Together, Running
  <2> HIDE DEF m, size
  <2> QED BY <1>1, <1>3, <1>5, <1>6, <2>1 DEF Peek
<1> DEFINE more == m + size
<1>9. more \in Nat /\ m <= more /\ more = m + size
  BY <1>1, <1>5
<1> HIDE DEF m, size, more
<1>10. /\ rsp = RspOf(fp, m, curr_func) /\ rsp <= Len(memory) /\ IsSequence(memory)
       /\ FramesSaved(memory, fp, m, curr_func, ip_stack)
       /\ VariablesMatch(memory, allocations, data_stack, fp, m)
       /\ rbp = RbpOf(fp) /\ fault = "none" /\ Len(curr_func) >= 2
  BY <1>1 DEF Together, Linked
<1>11. /\ \A i \in 0 .. m - 1 : DepthIn(fp, i) \in Nat /\ DepthIn(fp, i) >= 1 /\ DepthIn(fp, i) <= rsp
       /\ \A k \in 2 .. Len(fp) : Base(fp, k) \in Nat /\ Base(fp, k) >= 1 /\ Base(fp, k) <= rsp
       /\ \A k \in 2 .. n :
            ReturnAt(fp, m, k) \in Nat /\ ReturnAt(fp, m, k) >= 1 /\ ReturnAt(fp, m, k) <= rsp
       /\ rsp \in Nat
  BY <1>1, <1>10, PlacesApart
<1>12. /\ IsSequence(memory') /\ Len(memory) \in Nat /\ Len(memory') \in Nat
       /\ Len(memory') >= Len(memory) /\ Len(memory') >= top /\ memory'[top] = Int_(0)
       /\ \A e \in 1 .. Len(memory) : e # top => memory'[e] = memory[e]
  <2>1. top \in Nat /\ top >= 1
    BY <1>5, <1>11
  <2> HIDE DEF top
  <2> QED BY <1>4, <1>10, <2>1, WrittenWord
<1>13. ASSUME NEW e \in Nat, e >= 1, e <= rsp PROVE memory'[e] = memory[e]
  <2>1. e \in 1 .. Len(memory) /\ e # top
    BY <1>5, <1>10, <1>11, <1>12, <1>13
  <2> QED BY <1>12, <2>1
<1>14. top = DepthIn(fp, more - 1) /\ more - 1 \in 0 .. more - 1
  <2>1. more - 1 \in Nat /\ fp[n] <= more - 1 /\ more = m + size
    <3>1. fp[n] \in Nat /\ fp[n] <= m
      <4>1. n \in 1 .. Len(fp)
        BY <1>1, <1>5
      <4> QED BY <1>1, <4>1 DEF Nested
    <3> QED BY <1>1, <1>5, <3>1 DEF more
  <2>2. DepthIn(fp, more - 1) = (more - 1) + 1 + 2 * (n - 1)
    <3> DEFINE last == more - 1
    <3>1. last \in Nat /\ Len(fp) >= 2 /\ fp[Len(fp)] <= last /\ Ascending(fp)
      BY <1>1, <1>5, <2>1 DEF Nested
    <3> HIDE DEF last
    <3>2. DepthIn(fp, last) = last + 1 + 2 * (Len(fp) - 1)
      BY <3>1, DepthOnTop
    <3> QED BY <1>5, <3>2 DEF last
  <2>3. rsp = m + (n - 1) + (n - 1)
    BY <1>5, <1>10 DEF RspOf
  <2>4. more - 1 \in 0 .. more - 1
    BY <1>9, <2>1
  <2> HIDE DEF n
  <2> QED BY <1>1, <1>5, <2>1, <2>2, <2>3, <2>4
<1>15. \A w, v : Firm(w, v, fp, m) => Firm(w, v, fp, more)
  BY <1>1, <1>9, FirmInMore
<1>16. FramesSaved(memory', fp, more, curr_func, ip_stack)
  <2>1. ASSUME NEW k \in 2 .. Len(fp) PROVE memory'[Base(fp, k)] = SavedBase(fp, k)
    BY <1>10, <1>11, <1>13 DEF FramesSaved
  <2>2. ASSUME NEW k \in 2 .. Len(curr_func)
        PROVE  memory'[ReturnAt(fp, more, k)] = SavedReturn(curr_func, ip_stack, k)
    <3>1. ReturnAt(fp, more, k) = ReturnAt(fp, m, k)
      <4>1. k <= Len(fp)
        BY <1>1, <1>5
      <4> QED BY <4>1 DEF ReturnAt
    <3>2. memory[ReturnAt(fp, m, k)] = SavedReturn(curr_func, ip_stack, k)
      BY <1>10 DEF FramesSaved
    <3>3. memory'[ReturnAt(fp, m, k)] = memory[ReturnAt(fp, m, k)]
      BY <1>11, <1>13
    <3> QED BY <3>1, <3>2, <3>3
  <2> QED BY <2>1, <2>2 DEF FramesSaved
<1>17. VariablesMatch(memory', allocations', data_stack', fp, more)
  <2> SUFFICES ASSUME NEW b \in 1 .. Len(allocations'),
                      allocations'[b].start < more, allocations'[b].size = 1
               PROVE  Firm(memory'[DepthIn(fp, allocations'[b].start)],
                           data_stack'[allocations'[b].start + 1], fp, more)
    BY DEF VariablesMatch
  <2> DEFINE start == allocations'[b].start
  <2>1. CASE b = Len(allocations) + 1
    <3>1. start = m /\ size = 1
      BY <1>7, <2>1
    <3>2. more - 1 = m /\ m + 1 \in m + 1 .. m + size
      BY <1>1, <3>1 DEF more
    <3>3. memory'[DepthIn(fp, start)] = Int_(0) /\ data_stack'[start + 1] = 0
      BY <1>6, <1>12, <1>14, <3>1, <3>2
    <3> QED BY <3>3 DEF Firm
  <2>2. CASE b # Len(allocations) + 1
    <3>1. b \in 1 .. Len(allocations)
      BY <1>7, <2>2
    <3>2. allocations'[b] = allocations[b] /\ start = allocations[b].start /\ allocations[b].size = 1
      BY <1>7, <3>1
    <3>3. start \in Nat /\ start < m /\ start \in 0 .. m - 1 /\ start + 1 \in 1 .. m
      <4>1. /\ allocations[b].start \in Nat /\ allocations[b].size \in Nat
            /\ allocations[b].start + allocations[b].size <= m
        <5>1. m = Len(data_stack)
          BY DEF m
        <5> HIDE DEF m
        <5> QED BY <3>1, <5>1, BlocksTogether, Zenon
      <4>2. m \in Nat
        BY <1>1
      <4>3. allocations[b].start \in Nat /\ allocations[b].start < m
        <5> HIDE DEF m
        <5> QED BY <3>2, <4>1, <4>2
      <4> HIDE DEF m
      <4> QED BY <3>2, <4>2, <4>3
    <3>4. memory'[DepthIn(fp, start)] = memory[DepthIn(fp, start)]
      BY <1>11, <1>13, <3>3
    <3>5. data_stack'[start + 1] = data_stack[start + 1]
      BY <1>6, <3>3
    <3>6. Firm(memory[DepthIn(fp, start)], data_stack[start + 1], fp, m)
      BY <1>10, <3>1, <3>2, <3>3 DEF VariablesMatch
    <3> QED BY <1>15, <3>4, <3>5, <3>6
  <2> QED BY <2>1, <2>2
<1>18. Matches(operands', exec_stack', fp, more)
  <2>1. Matches(Without(0), exec_stack, fp, m)
    BY <1>1, OperandsMatch
  <2>2. Matches(Without(0), exec_stack, fp, more)
    BY <1>1, <1>9, <2>1, MatchesInMore
  <2>3. Firm(Address(top), more - 1, fp, more)
    BY <1>14 DEF Firm
  <2>4. m + size - 1 = more - 1
    BY <1>1, <1>5, <1>9
  <2> QED BY <1>3, <1>4, <2>2, <2>3, <2>4, MatchesMore
<1>19. rsp' = RspOf(fp, more, curr_func)
  <2>1. rsp = m + (n - 1) + (n - 1)
    BY <1>5, <1>10 DEF RspOf
  <2>2. RspOf(fp, more, curr_func) = m + size + (n - 1) + (n - 1)
    BY <1>5 DEF RspOf, more
  <2> HIDE DEF n
  <2> QED BY <1>1, <1>4, <1>5, <2>1, <2>2
<1>20. Words' = more
  BY <1>8 DEF more
<1> QED BY <1>1, <1>3, <1>4, <1>8, <1>10, <1>12, <1>16, <1>17, <1>18, <1>19, <1>20 DEF Linked

--------------------------------------------------------------------------------
(* Giving memory back.                                                          *)

\* What the operands and the variables point to is still there.
HeldFirm ==
  rip # Outside /\ fault = "none" /\ status = "running" =>
    /\ \A k \in DOMAIN operands : IsAddress(operands[k]) =>
         \E i \in 0 .. Words - 1 : operands[k] = Address(DepthIn(fp, i))
    /\ \A b \in 1 .. Len(allocations) :
         LET word == memory[DepthIn(fp, allocations[b].start)]
         IN  allocations[b].start < Words /\ allocations[b].size = 1 /\ IsAddress(word) =>
               \E i \in 0 .. Words - 1 : word = Address(DepthIn(fp, i))

\* The blocks that are not given back end where what is given back begins.
LEMMA WholeBlocks ==
  ASSUME NEW a, NEW n \in Nat, NEW t \in Nat, t <= n, a \in Seq(Blocks), Tiles(a, n), Boundary(a, n, t),
         NEW b \in 1 .. Len(a), a[b].start < t
  PROVE  a[b].start \in Nat /\ a[b].size \in Nat /\ a[b].start + a[b].size <= t
<1>1. /\ Len(a) \in Nat /\ Len(a) \in 1 .. Len(a) /\ a # <<>>
      /\ \A i \in 1 .. Len(a) : a[i].start \in Nat /\ a[i].size \in Nat
  <2>1. Len(a) \in Nat /\ Len(a) >= 1
    OBVIOUS
  <2>2. ASSUME NEW i \in 1 .. Len(a) PROVE a[i].start \in Nat /\ a[i].size \in Nat
    <3>1. a[i] \in Blocks
      BY ElementOfSeq
    <3> QED BY <3>1 DEF Blocks
  <2>3. a = <<>> => Len(a) = 0
    OBVIOUS
  <2>4. Len(a) \in 1 .. Len(a)
    BY <2>1
  <2> QED BY <2>1, <2>2, <2>3, <2>4
<1>2. a[Len(a)].start + a[Len(a)].size = n
  BY <1>1 DEF Tiles
<1>3. \A i, j \in 1 .. Len(a) : i < j => a[i].start + a[i].size <= a[j].start
  BY DEF Tiles
<1>4. a[b].start + a[b].size <= n
  <2>1. CASE b = Len(a)
    BY <1>1, <1>2, <2>1
  <2>2. CASE b # Len(a)
    <3>1. b < Len(a)
      BY <1>1, <2>2
    <3>2. a[b].start + a[b].size <= a[Len(a)].start
      BY <1>1, <1>3, <3>1
    <3>3. a[b].start + a[b].size \in Nat /\ a[Len(a)].start \in Nat /\ a[Len(a)].size \in Nat
      BY <1>1
    <3> QED BY <1>2, <3>2, <3>3
  <2> QED BY <2>1, <2>2
<1>5. CASE t = n
  BY <1>1, <1>4, <1>5
<1>6. CASE \E j \in 1 .. Len(a) : a[j].start = t
  <2>1. PICK j \in 1 .. Len(a) : a[j].start = t
    BY <1>6
  <2>2. b < j
    <3>1. ~(j < b) /\ j # b
      <4>1. /\ a[j].start \in Nat /\ a[j].size \in Nat /\ a[b].start \in Nat
            /\ j < b => a[j].start + a[j].size <= a[b].start
        BY <1>1, <1>3
      <4> QED BY <2>1, <4>1
    <3> QED BY <3>1
  <2>3. a[b].start + a[b].size <= a[j].start
    BY <1>3, <2>2
  <2> QED BY <1>1, <2>1, <2>3
<1> QED BY <1>5, <1>6 DEF Boundary

LEMMA HeldIsFirm == ASSUME ProgramsTidy PROVE VariablesInv /\ PointersBehave => HeldFirm
<1> SUFFICES ASSUME VariablesInv, PointersBehave, rip # Outside, fault = "none", status = "running"
             PROVE  HeldFirm
  BY DEF HeldFirm
<1> DEFINE a == allocations
<1>1. /\ a \in Seq(Blocks) /\ Tiles(a, Len(data_stack)) /\ Boundary(a, Len(data_stack), Words)
      /\ Len(data_stack) \in Nat /\ Words \in Nat /\ Words <= Len(data_stack)
      /\ DOMAIN a = 1 .. Len(a)
  <2>1. /\ a \in Seq(Blocks) /\ Tiles(a, Len(data_stack)) /\ Boundary(a, Len(data_stack), Words)
        /\ IsSequence(data_stack) /\ freeing \in Nat /\ freeing <= Len(data_stack)
    BY DEF VariablesInv, BlocksPlaced, MemoryInv, MemoryShape
  <2>2. Len(data_stack) \in Nat
    BY <2>1 DEF IsSequence
  <2> QED BY <2>1, <2>2 DEF Words
<1>2. ASSUME NEW word \in Held, IsAddress(word)
      PROVE  \E i \in 0 .. Words - 1 : word = Address(DepthIn(fp, i))
  <2>1. PICK b \in Variables : \E i \in Words_(b) : word = Address(Depth(i))
    BY <1>2 DEF PointersBehave
  <2>2. PICK i \in Words_(b) : word = Address(Depth(i))
    BY <2>1
  <2>3. b \in 1 .. Len(a) /\ a[b].start < Words
    BY <1>1 DEF Variables, Words
  <2>4. a[b].start \in Nat /\ a[b].size \in Nat /\ a[b].start + a[b].size <= Words
    BY <1>1, <2>3, WholeBlocks
  <2>5. i \in 0 .. Words - 1
    BY <1>1, <2>4 DEF Words_
  <2> QED BY <2>2, <2>5, DepthsAreCounted
<1>3. ASSUME NEW k \in DOMAIN operands PROVE operands[k] \in Held
  BY DEF Held
<1>4. ASSUME NEW b \in 1 .. Len(a), a[b].start < Words, a[b].size = 1
      PROVE  memory[DepthIn(fp, a[b].start)] \in Held
  <2>1. b \in Variables
    BY <1>1, <1>4 DEF Variables, Words
  <2>2. memory[Depth(a[b].start)] \in Held
    BY <1>4, <2>1 DEF Held
  <2> QED BY <2>2, DepthsAreCounted
<1> HIDE DEF a
<1>5. \A b \in 1 .. Len(a) :
        LET word == memory[DepthIn(fp, a[b].start)]
        IN  a[b].start < Words /\ a[b].size = 1 /\ IsAddress(word) =>
              \E i \in 0 .. Words - 1 : word = Address(DepthIn(fp, i))
  BY <1>2, <1>4
<1> QED BY <1>2, <1>3, <1>5 DEF HeldFirm, a

\* A step that takes words from the end, and leaves the rest alone.
LEMMA ShrinkLink ==
  ASSUME Linked, UNCHANGED <<data_stack, allocations, exec_stack, memory, operands>>,
         HeldFirm', rip' # Outside, fault' = "none", status' = "running",
         NEW m, m = Words, m \in Nat, NEW t, t = Words', t \in Nat, t <= m,
         NEW s, s = fp', fp \in Seq(Nat),
         \A i \in 0 .. t - 1 : DepthIn(s, i) = DepthIn(fp, i),
         \A b \in 1 .. Len(allocations) : allocations[b].start \in Nat
  PROVE  /\ Matches(operands, exec_stack, s, t)
         /\ VariablesMatch(memory, allocations, data_stack, s, t)
<1>1. /\ Matches(operands, exec_stack, fp, m)
      /\ VariablesMatch(memory, allocations, data_stack, fp, m)
  BY DEF Linked
<1>2. /\ \A k \in DOMAIN operands : IsAddress(operands[k]) =>
           \E i \in 0 .. t - 1 : operands[k] = Address(DepthIn(s, i))
      /\ \A b \in 1 .. Len(allocations) :
           LET word == memory[DepthIn(s, allocations[b].start)]
           IN  allocations[b].start < t /\ allocations[b].size = 1 /\ IsAddress(word) =>
                 \E i \in 0 .. t - 1 : word = Address(DepthIn(s, i))
  BY DEF HeldFirm
<1>3. Matches(operands, exec_stack, s, t)
  <2>1. DOMAIN operands = 1 .. Len(operands)
    BY <1>1 DEF Matches, IsSequence
  <2>2. \A k \in 1 .. Len(operands) : IsAddress(operands[k]) =>
          \E i \in 0 .. t - 1 : operands[k] = Address(DepthIn(s, i))
    BY <1>2, <2>1
  <2> QED BY <1>1, <2>2, MatchesInLess
<1>4. VariablesMatch(memory, allocations, data_stack, s, t)
  <2> SUFFICES ASSUME NEW b \in 1 .. Len(allocations), allocations[b].start < t, allocations[b].size = 1
               PROVE  Firm(memory[DepthIn(s, allocations[b].start)],
                           data_stack[allocations[b].start + 1], s, t)
    BY DEF VariablesMatch
  <2> DEFINE start == allocations[b].start
             word == memory[DepthIn(fp, start)]
  <2>1. start \in Nat /\ start < m /\ start \in 0 .. t - 1
    OBVIOUS
  <2>2. DepthIn(s, start) = DepthIn(fp, start)
    BY <2>1
  <2>3. Firm(word, data_stack[start + 1], fp, m)
    BY <1>1, <2>1 DEF VariablesMatch
  <2>4. IsAddress(word) => \E i \in 0 .. t - 1 : word = Address(DepthIn(s, i))
    BY <1>2, <2>2
  <2> HIDE DEF word
  <2>5. Firm(word, data_stack[start + 1], s, t)
    BY <2>3, <2>4, FirmInLess
  <2> QED BY <2>2, <2>5 DEF word
<1> QED BY <1>3, <1>4

LEMMA FreesTogether ==
  ASSUME ProgramsTidy, ProgramsBalanced, Together, NasmNext, Free,
         VariablesInv', HeldFirm', rip' # Outside
  PROVE  Linked' /\ fault' = "none"
<1> DEFINE n == Len(curr_func)
           m == Len(data_stack)
           less == Words'
<1>1. /\ NasmOp = Op /\ m \in Nat /\ Words = m /\ Nested(fp, m, curr_func) /\ n \in Nat /\ n >= 2
      /\ rip[1] = curr_func[n] /\ Peek(curr_func) = curr_func[n] /\ rip[2] = ip
      /\ freeing = 0 /\ status = "running"
  BY LinkedFetched DEF Together
<1>2. Op.op = "FREE"
  BY DEF Free, Fetch
<1>3. /\ freeing' = Op.arg /\ ip' = ip + 1 /\ status' = status
      /\ UNCHANGED <<fp, data_stack, allocations, exec_stack, curr_func, ip_stack>>
  BY DEF Free, Advance, callVars
<1>4. /\ rsp' = rsp - Op.arg /\ rip' = <<rip[1], rip[2] + 1>>
      /\ UNCHANGED <<memory, rbp, operands, fault>>
  BY <1>1, <1>2, NasmStepOf DEF NasmFree, FallsThrough
<1>5. Len(fp) = n /\ Op.arg \in Nat
  BY <1>2, FrameTogether
<1>6. less = m - Op.arg /\ less \in Nat /\ less <= m
  <2>1. freeing' <= Len(data_stack')
    BY DEF VariablesInv, MemoryInv, MemoryShape
  <2>2. less = Len(data_stack') - freeing'
    BY DEF Words
  <2> HIDE DEF less, m
  <2>3. Len(data_stack') = m
    BY <1>3 DEF m
  <2> QED BY <1>1, <1>3, <1>5, <2>1, <2>2, <2>3
<1>7. /\ rsp = RspOf(fp, m, curr_func) /\ rsp <= Len(memory) /\ IsSequence(memory)
      /\ FramesSaved(memory, fp, m, curr_func, ip_stack)
      /\ rbp = RbpOf(fp) /\ fault = "none" /\ Len(curr_func) >= 2
  BY <1>1 DEF Together, Linked
<1> HIDE DEF m, less
<1>8. Matches(operands, exec_stack, fp, less) /\ VariablesMatch(memory, allocations, data_stack, fp, less)
  <2>1. fp \in Seq(Nat) /\ \A b \in 1 .. Len(allocations) : allocations[b].start \in Nat
    BY <1>1, BlocksTogether DEF Nested, Ascending
  <2>2. less = Words' /\ fp' = fp /\ fault' = "none" /\ status' = "running"
    BY <1>1, <1>3, <1>4, <1>7 DEF less
  <2> QED BY <1>1, <1>3, <1>4, <1>6, <2>1, <2>2, ShrinkLink DEF Together
<1>9. FramesSaved(memory, fp, less, curr_func, ip_stack)
  <2>1. ASSUME NEW k \in 2 .. Len(curr_func)
        PROVE  memory[ReturnAt(fp, less, k)] = SavedReturn(curr_func, ip_stack, k)
    <3>1. k <= Len(fp)
      BY <1>1, <1>5
    <3>2. ReturnAt(fp, less, k) = ReturnAt(fp, m, k)
      BY <3>1 DEF ReturnAt
    <3> QED BY <1>7, <3>2 DEF FramesSaved
  <2> QED BY <1>7, <2>1 DEF FramesSaved
<1>10. rsp' = RspOf(fp, less, curr_func) /\ rsp' <= Len(memory)
  <2>1. rsp = m + (n - 1) + (n - 1)
    BY <1>5, <1>7 DEF RspOf
  <2>2. RspOf(fp, less, curr_func) = less + (n - 1) + (n - 1)
    BY <1>5 DEF RspOf
  <2>3. Len(memory) \in Nat
    BY <1>7 DEF IsSequence
  <2> DEFINE saved == (n - 1) + (n - 1)
  <2>4. /\ saved \in Nat /\ rsp = m + saved /\ RspOf(fp, less, curr_func) = less + saved
        /\ rsp' = rsp - Op.arg
    <3> HIDE DEF n
    <3> QED BY <1>1, <1>4, <1>6, <2>1, <2>2
  <2> HIDE DEF n, saved
  <2>5. rsp' = RspOf(fp, less, curr_func) /\ rsp' <= rsp /\ rsp \in Int /\ rsp' \in Int
    BY <1>1, <1>5, <1>6, <2>4
  <2> QED BY <1>7, <2>3, <2>5
<1>11. Words' = less /\ Peek(curr_func)' = Peek(curr_func)
  BY <1>3 DEF less, Peek
<1> QED BY <1>1, <1>3, <1>4, <1>7, <1>8, <1>9, <1>10, <1>11 DEF Linked

LEMMA FramePopTogether ==
  ASSUME ProgramsTidy, ProgramsBalanced, Together, NasmNext, FramePop,
         VariablesInv', HeldFirm', rip' # Outside
  PROVE  Linked' /\ fault' = "none"
<1> DEFINE n == Len(curr_func)
           m == Len(data_stack)
           less == fp[n]
           after == Pop(fp)
<1>1. /\ NasmOp = Op /\ m \in Nat /\ Words = m /\ Nested(fp, m, curr_func) /\ n \in Nat /\ n >= 2
      /\ rip[1] = curr_func[n] /\ Peek(curr_func) = curr_func[n] /\ rip[2] = ip
      /\ freeing = 0 /\ status = "running"
  BY LinkedFetched DEF Together
<1>2. Op.op = "STACK_FRAME_POP"
  BY DEF FramePop, Fetch
<1>3. /\ fp' = after /\ freeing' = m - Peek(fp) /\ ip' = ip + 1 /\ status' = status
      /\ UNCHANGED <<data_stack, allocations, exec_stack, curr_func, ip_stack>>
  BY DEF FramePop, Advance, callVars
<1>4. /\ rbp' = Value(memory[rbp]) /\ rsp' = rbp - 1 /\ rip' = <<rip[1], rip[2] + 1>>
      /\ UNCHANGED <<memory, operands, fault>>
  BY <1>1, <1>2, NasmStepOf DEF NasmFramePop, FallsThrough
<1>5. Len(fp) = n /\ n \in 1 .. n
  BY <1>1, <1>2, FrameTogether
<1>6. /\ fp \in Seq(Nat) /\ less \in Nat /\ less <= m /\ Peek(fp) = less
      /\ after \in Seq(Nat) /\ Len(after) = n - 1
      /\ \A k \in 1 .. n - 1 : after[k] = fp[k]
  <2>1. fp \in Seq(Nat) /\ less \in Nat /\ less <= m
    BY <1>1, <1>5 DEF Nested, Ascending
  <2>2. fp # <<>>
    <3>1. fp = <<>> => Len(fp) = 0
      OBVIOUS
    <3> QED BY <1>1, <1>5, <3>1
  <2>3. Pop(fp) \in Seq(Nat) /\ Len(Pop(fp)) = Len(fp) - 1 /\ Peek(fp) = fp[Len(fp)]
        /\ \A k \in 1 .. Len(fp) - 1 : Pop(fp)[k] = fp[k]
    BY <2>1, <2>2, PoppedStack
  <2> QED BY <1>5, <2>1, <2>3
<1>7. Words' = less
  <2>1. Words' = Len(data_stack') - freeing'
    BY DEF Words
  <2>2. Len(data_stack') = m
    BY <1>3
  <2> HIDE DEF less, m
  <2> QED BY <1>1, <1>3, <1>6, <2>1, <2>2
<1>8. /\ rsp = RspOf(fp, m, curr_func) /\ rsp <= Len(memory) /\ IsSequence(memory)
      /\ FramesSaved(memory, fp, m, curr_func, ip_stack)
      /\ rbp = RbpOf(fp) /\ fault = "none" /\ Len(curr_func) >= 2
  BY <1>1 DEF Together, Linked
<1> HIDE DEF m, after
<1>9. \A i \in 0 .. less - 1 : DepthIn(after, i) = DepthIn(fp, i)
  <2> TAKE i \in 0 .. less - 1
  <2>1. i \in Nat /\ i < fp[Len(fp)] /\ Len(fp) = Len(after) + 1
    BY <1>1, <1>5, <1>6
  <2>2. \A k \in 1 .. Len(after) : fp[k] = after[k]
    BY <1>6
  <2> QED BY <1>6, <2>1, <2>2, DepthLonger
<1>10. Matches(operands, exec_stack, after, less) /\ VariablesMatch(memory, allocations, data_stack, after, less)
  <2>1. \A b \in 1 .. Len(allocations) : allocations[b].start \in Nat
    BY BlocksTogether
  <2>2. fault' = "none" /\ status' = "running"
    BY <1>1, <1>3, <1>4, <1>8
  <2> HIDE DEF less
  <2> QED BY <1>1, <1>3, <1>4, <1>6, <1>7, <1>9, <2>1, <2>2, ShrinkLink DEF Together
<1>11. /\ \A k \in 2 .. Len(after) : Base(after, k) = Base(fp, k) /\ SavedBase(after, k) = SavedBase(fp, k)
       /\ \A k \in 2 .. n : ReturnAt(after, less, k) = ReturnAt(fp, m, k)
  <2>1. ASSUME NEW k \in 2 .. Len(after)
        PROVE  Base(after, k) = Base(fp, k) /\ SavedBase(after, k) = SavedBase(fp, k)
    <3>1. k \in 1 .. n - 1 /\ (k # 2 => k - 1 \in 1 .. n - 1)
      BY <1>1, <1>6
    <3> QED BY <1>6, <3>1 DEF Base, SavedBase
  <2>2. ASSUME NEW k \in 2 .. n PROVE ReturnAt(after, less, k) = ReturnAt(fp, m, k)
    <3>1. k <= Len(fp)
      BY <1>1, <1>5
    <3>2. CASE k = n
      <4>1. ~(k <= Len(after))
        BY <1>1, <1>6, <3>2
      <4> QED BY <3>1, <3>2, <4>1 DEF ReturnAt
    <3>3. CASE k # n
      <4>1. k <= Len(after) /\ k \in 1 .. n - 1
        BY <1>1, <1>6, <3>3
      <4> QED BY <1>6, <3>1, <4>1 DEF ReturnAt
    <3> QED BY <3>2, <3>3
  <2> QED BY <2>1, <2>2
<1>12. FramesSaved(memory, after, less, curr_func, ip_stack)
  <2>1. \A k \in 2 .. Len(after) : k \in 2 .. Len(fp)
    BY <1>1, <1>5, <1>6
  <2> QED BY <1>8, <1>11, <2>1 DEF FramesSaved
<1>13. rbp = Base(fp, n) /\ n \in 2 .. n
  BY <1>1, <1>5, <1>8 DEF RbpOf
<1>14. rbp' = RbpOf(after)
  <2>1. memory[rbp] = SavedBase(fp, n)
    BY <1>5, <1>8, <1>13 DEF FramesSaved
  <2>2. rbp' = IF n = 2 THEN 0 ELSE Base(fp, n - 1)
    BY <1>4, <2>1 DEF SavedBase, Value, Address
  <2>3. CASE n = 2
    <3>1. ~(Len(after) >= 2)
      BY <1>6, <2>3
    <3> QED BY <2>2, <2>3, <3>1 DEF RbpOf
  <2>4. CASE n # 2
    <3>1. Len(after) >= 2 /\ n - 1 \in 2 .. Len(after)
      BY <1>1, <1>6, <2>4
    <3>2. Base(after, n - 1) = Base(fp, n - 1)
      BY <1>11, <3>1
    <3> QED BY <1>6, <2>2, <2>4, <3>1, <3>2 DEF RbpOf
  <2> QED BY <2>3, <2>4
<1>15. rsp' = RspOf(after, less, curr_func) /\ rsp' <= Len(memory)
  <2>1. rbp = less + 2 * (n - 1)
    BY <1>13 DEF Base
  <2>2. RspOf(after, less, curr_func) = less + (n - 1 - 1) + (n - 1)
    BY <1>6 DEF RspOf
  <2>3. rsp = m + (n - 1) + (n - 1)
    BY <1>5, <1>8 DEF RspOf
  <2>4. Len(memory) \in Nat
    BY <1>8 DEF IsSequence
  <2> HIDE DEF n, less
  <2> QED BY <1>1, <1>4, <1>6, <1>8, <2>1, <2>2, <2>3, <2>4
<1>16. Peek(curr_func)' = Peek(curr_func)
  BY <1>3 DEF Peek
<1> QED BY <1>1, <1>3, <1>4, <1>7, <1>8, <1>10, <1>12, <1>14, <1>15, <1>16 DEF Linked

--------------------------------------------------------------------------------
(* The inductive invariant.                                                     *)

\* There is nothing in the frame of the function that computes the globals.
EntryEmpty ==
  /\ curr_func # <<>> /\ curr_func[1] = Entry
  /\ status = "running" /\ fault = "none" =>
       (Len(fp) <= 1 => Words = 0) /\ (Len(fp) >= 2 => fp[2] = 0)

\* A fault is that of a division, and no other end of the processor; without one it
\* runs where the interpreter does, or waits for a call.
NativeInv ==
  /\ EntryEmpty
  /\ status = "trap" /\ rip # Outside => fault # "none"
  /\ fault # "none" => /\ rip # Outside /\ NasmOp.op \in {"DIV", "MOD"}
                       /\ Value(Second) = 0 \/ status = "trap"
  /\ fault = "none" /\ status = "running" =>
       /\ rip = Outside => Len(curr_func) = 1
       /\ rip # Outside => Linked

BackendInv == VariablesInv /\ (fault = "none" => OperandsInv) /\ NativeInv

LEMMA NotOutside ==
  ASSUME ProgramsNative, NEW p \in Programs, NEW f \in DOMAIN p.functions, NEW i
  PROVE  <<f, i>> # Outside
<1>1. Outside[1] \notin DOMAIN p.functions
  BY DEF ProgramsNative, Native_
<1> QED BY <1>1

\* The opcodes of the function that computes the globals.
LEMMA EntryCode ==
  ASSUME ProgramsTidy, ProgramsNative, VariablesInv, Running,
         Len(curr_func) = 1, curr_func[1] = Entry
  PROVE  Op.op \notin {"ALLOC", "STORE"}
<1>1. ir \in Programs /\ ip < Len(Code) /\ MemoryInv /\ ProgramsScoped
  BY DEF VariablesInv, MemoryInv, MemoryShape, Running, ProgramsTidy, ProgramsScoped
<1>2. /\ Peek(curr_func) = Entry /\ Entry \in Defined(ir)
      /\ Code = ir.functions[Entry].code /\ ip \in Nat
  BY <1>1, Fetched
<1>3. Code \in Seq(Opcodes)
  BY <1>1, <1>2 DEF ProgramsScoped, Scoped, WellFormed
<1>4. ip + 1 \in 1 .. Len(Code) /\ Op = Code[ip + 1]
  BY <1>1, <1>2, <1>3 DEF Op
<1>5. Native_(ir)
  BY <1>1 DEF ProgramsNative
<1> QED BY <1>2, <1>4, <1>5 DEF Native_

\* Only the opcodes of the frame change how many words there are.
LEMMA WordsStay ==
  ASSUME IsSequence(data_stack), Execute, ~Alloc, ~Free, ~FramePush, ~FramePop
  PROVE  /\ UNCHANGED <<fp, freeing, allocations>> /\ Len(data_stack') = Len(data_stack)
         /\ Words' = Words
<1>1. UNCHANGED <<fp, freeing, allocations>> /\ (Store \/ data_stack' = data_stack)
  BY DEF Execute, Nop, Binary, Unary, PushConstant, PushVariable, Discard, Clone, SetupGlobal,
         Load, Store, Jump, JumpIf, CallExternal, Call, Ret, Invalid, OperandsOnly, frameVars, callVars
<1>2. Len(data_stack') = Len(data_stack)
  <2>1. CASE data_stack' = data_stack
    BY <2>1
  <2>2. CASE data_stack' # data_stack
    <3>1. \E a, x : data_stack' = [data_stack EXCEPT ![a] = x]
      BY <1>1, <2>2 DEF Store
    <3>2. PICK a, x : data_stack' = [data_stack EXCEPT ![a] = x]
      BY <3>1
    <3>3. PICK D : data_stack \in Seq(D)
      BY DEF IsSequence
    <3> DEFINE l == Len(data_stack)
               E == D \cup {x}
    <3>4. l \in Nat /\ DOMAIN data_stack = 1 .. l /\ data_stack \in [1 .. l -> D]
      BY <3>3
    <3>5. data_stack' = [i \in 1 .. l |-> IF i = a THEN x ELSE data_stack[i]]
      BY <3>2, <3>4
    <3>6. data_stack' \in [1 .. l -> E]
      BY <3>4, <3>5
    <3> HIDE DEF l
    <3>7. data_stack' \in Seq(E) /\ DOMAIN data_stack' = 1 .. l
      BY <3>4, <3>6
    <3>8. Len(data_stack') = l
      BY <3>4, <3>7
    <3> QED BY <3>8 DEF l
  <2> QED BY <2>1, <2>2
<1> QED BY <1>1, <1>2 DEF Words

\* The calls that run.
LEMMA CallsStay ==
  ASSUME Execute, ~Call, ~Ret
  PROVE  UNCHANGED <<ir, curr_func, ip_stack>>
BY DEF Execute, Nop, Binary, Unary, PushConstant, PushVariable, Discard, Clone, SetupGlobal,
       Alloc, Free, FramePush, FramePop, Load, Store, Jump, JumpIf, CallExternal, Invalid,
       OperandsOnly, frameVars, callVars

LEMMA EntryStaysFirst ==
  ASSUME VariablesInv, Execute, curr_func # <<>>, curr_func[1] = Entry
  PROVE  curr_func' # <<>> /\ curr_func'[1] = Entry
<1>1. /\ IsSequence(curr_func) /\ IsSequence(ip_stack) /\ Len(ip_stack) + 1 = Len(curr_func)
  BY DEF VariablesInv, MemoryInv, MemoryShape, FramesNest, IsSequence
<1>2. Len(curr_func) \in Nat /\ Len(curr_func) >= 1 /\ Len(ip_stack) \in Nat
  BY <1>1 DEF IsSequence
<1>3. \A s : Len(s) >= 1 => s # <<>>
  OBVIOUS
<1>4. CASE ~Call /\ ~Ret
  BY <1>4, CallsStay
<1>5. CASE Call
  <2>1. curr_func' = Push(curr_func, Op.name)
    BY <1>5 DEF Call
  <2>2. Len(curr_func') = Len(curr_func) + 1 /\ \A k \in 1 .. Len(curr_func) : curr_func'[k] = curr_func[k]
    BY <1>1, <2>1, PushedAny
  <2> QED BY <1>2, <1>3, <2>2
<1>6. CASE Ret
  <2>1. CASE ip_stack = <<>>
    BY <1>6, <2>1 DEF Ret
  <2>2. CASE ip_stack # <<>>
    <3>1. curr_func' = Pop(curr_func)
      BY <1>6, <2>2 DEF Ret
    <3>2. Len(ip_stack) > 0
      BY <1>1, <2>2, PoppedAny
    <3>3. /\ Len(curr_func') = Len(curr_func) - 1
          /\ \A k \in 1 .. Len(curr_func) - 1 : curr_func'[k] = curr_func[k]
      BY <1>1, <3>1, PoppedAny
    <3>4. Len(curr_func) - 1 >= 1 /\ 1 \in 1 .. Len(curr_func) - 1
      BY <1>1, <1>2, <3>2
    <3> QED BY <1>3, <3>3, <3>4
  <2> QED BY <2>1, <2>2
<1> QED BY <1>4, <1>5, <1>6

LEMMA EntryStaysEmpty ==
  ASSUME ProgramsTidy, ProgramsBalanced, Together, EntryEmpty, Execute
  PROVE  EntryEmpty'
<1> DEFINE n == Len(curr_func)
           m == Len(data_stack)
<1>1. /\ m \in Nat /\ Words = m /\ Nested(fp, m, curr_func) /\ n \in Nat /\ n >= 2
      /\ status = "running" /\ freeing = 0
  BY LinkedFetched DEF Together
<1>2. /\ fp \in Seq(Nat) /\ Len(fp) \in Nat /\ Len(fp) >= 1 /\ Len(fp) \in {n - 1, n}
      /\ Len(fp) <= 1 => Words = 0
      /\ Len(fp) >= 2 => fp[2] = 0
  BY <1>1 DEF EntryEmpty, Together, Nested, Ascending
<1>3. IsSequence(data_stack)
  BY DEF Together, VariablesInv, MemoryInv, MemoryShape
<1>4. curr_func' # <<>> /\ curr_func'[1] = Entry
  BY EntryStaysFirst DEF Together, EntryEmpty
<1> HIDE DEF m, n
<1>5. (Len(fp') <= 1 => Words' = 0) /\ (Len(fp') >= 2 => fp'[2] = 0)
  <2>1. CASE ~Alloc /\ ~Free /\ ~FramePush /\ ~FramePop
    BY <1>2, <1>3, <2>1, WordsStay
  <2>2. CASE Alloc \/ Free
    <3>1. Op.op \in {"ALLOC", "FREE"} /\ fp' = fp
      BY <2>2 DEF Alloc, Free, Fetch
    <3>2. Len(fp) = n
      BY <3>1, FrameTogether DEF n
    <3> QED BY <1>1, <1>2, <3>1, <3>2
  <2>3. CASE FramePush
    <3>1. fp' = Push(fp, m) /\ Words' = Words
      BY <2>3 DEF FramePush, Words, m
    <3>2. /\ Len(fp') = Len(fp) + 1 /\ fp'[Len(fp) + 1] = m
          /\ \A k \in 1 .. Len(fp) : fp'[k] = fp[k]
      <4>1. IsSequence(fp)
        BY <1>2 DEF IsSequence
      <4> QED BY <3>1, <4>1, PushedAny
    <3> QED BY <1>1, <1>2, <3>1, <3>2
  <2>4. CASE FramePop
    <3>1. Op.op = "STACK_FRAME_POP" /\ fp' = Pop(fp) /\ freeing' = m - Peek(fp) /\ data_stack' = data_stack
      BY <2>4 DEF FramePop, Fetch, m
    <3>2. Len(fp) = n
      BY <3>1, FrameTogether DEF n
    <3>3. fp # <<>>
      <4>1. fp = <<>> => Len(fp) = 0
        OBVIOUS
      <4> QED BY <1>2, <4>1
    <3>4. /\ Len(fp') = Len(fp) - 1 /\ Peek(fp) = fp[Len(fp)] /\ Peek(fp) \in Nat
          /\ \A k \in 1 .. Len(fp) - 1 : fp'[k] = fp[k]
      BY <1>2, <3>1, <3>3, PoppedStack
    <3>5. Words' = Peek(fp)
      <4>1. Words' = m - freeing'
        BY <3>1 DEF Words, m
      <4> QED BY <1>1, <3>1, <3>4, <4>1
    <3> QED BY <1>1, <1>2, <3>2, <3>4, <3>5
  <2> QED BY <2>1, <2>2, <2>3, <2>4
<1> QED BY <1>4, <1>5 DEF EntryEmpty

--------------------------------------------------------------------------------
(* The steps.                                                                   *)

LEMMA InterpreterCalls ==
  ASSUME Execute
  PROVE  /\ Running
         /\ Call => Calling /\ Op.op = "CALL" /\ status' = "running"
         /\ Ret => Op.op = "RET" /\ status' # "trap"
         /\ Calling => Call
         /\ ~Binary => status' # "trap"
         /\ ~Call /\ ~Ret => /\ Op.op = "ALLOC" => Alloc
                             /\ Op.op = "STORE" => Store
<1> USE DEF Fetch, Running, BinaryOps, UnaryOps
<1>1. Running
  BY DEF Execute, Nop, Binary, Unary, PushConstant, PushVariable, Discard, Clone,
         SetupGlobal, Alloc, Free, FramePush, FramePop, Load, Store, Jump, JumpIf, CallExternal,
         Call, Ret, Invalid
<1>2. Call => Calling /\ Op.op = "CALL" /\ status' = "running"
  BY DEF Call, Calling
<1>3. Ret => Op.op = "RET" /\ status' # "trap"
  BY DEF Ret
<1>4. Calling => Call
  BY DEF Calling, Execute, Nop, Binary, Unary, PushConstant, PushVariable, Discard, Clone,
         SetupGlobal, Alloc, Free, FramePush, FramePop, Load, Store, Jump, JumpIf, CallExternal,
         Ret, Invalid
<1>5. ~Binary => status' # "trap"
  BY <1>1, <1>2, <1>3 DEF Execute, Nop, Unary, PushConstant, PushVariable, Discard, Clone,
         SetupGlobal, Alloc, Free, FramePush, FramePop, Load, Store, Jump, JumpIf, CallExternal,
         Invalid, OperandsOnly, callVars, Violation
<1>6. Op.op = "ALLOC" => Alloc
  BY DEF Execute, Nop, Binary, Unary, PushConstant, PushVariable, Discard, Clone,
         SetupGlobal, Free, FramePush, FramePop, Load, Store, Jump, JumpIf, CallExternal,
         Call, Ret, Invalid
<1>7. Op.op = "STORE" => Store
  BY DEF Execute, Nop, Binary, Unary, PushConstant, PushVariable, Discard, Clone,
         SetupGlobal, Alloc, Free, FramePush, FramePop, Load, Jump, JumpIf, CallExternal,
         Call, Ret, Invalid
<1> QED BY <1>1, <1>2, <1>3, <1>4, <1>5, <1>6, <1>7

\* A step of the function that computes the globals: the processor waits, or starts.
LEMMA OutsideStep ==
  ASSUME ProgramsTidy, ProgramsBalanced, ProgramsNative, VariablesInv, OperandsInv, VariablesInv',
         rip = Outside, fault = "none", Len(curr_func) = 1, EntryEmpty, Execute,
         IF Calling THEN NasmStart(Op.name, exec_stack) ELSE UNCHANGED nasmVars
  PROVE  NativeInv'
<1>1. /\ Running /\ curr_func[1] = Entry /\ curr_func # <<>>
      /\ Len(fp) <= 1 => Words = 0
  BY InterpreterCalls DEF EntryEmpty, Running
<1>2. Len(fp) \in {0, 1} /\ Words = 0
  <2>1. Len(fp) = Len(curr_func) - 1 \/ Len(fp) = Len(curr_func)
    BY DEF VariablesInv, MemoryInv, FramesNest
  <2>2. CASE Len(fp) = 0
    <3>1. Len(fp) <= 1
      BY <2>2
    <3> QED BY <1>1, <2>2, <3>1
  <2>3. CASE Len(fp) = 1
    <3>1. Len(fp) <= 1
      BY <2>3
    <3> QED BY <1>1, <2>3, <3>1
  <2>4. Len(curr_func) - 1 = 0
    OBVIOUS
  <2>5. Len(fp) = 0 \/ Len(fp) = 1
    BY <2>1, <2>4
  <2> QED BY <2>2, <2>3, <2>5
<1>3. curr_func' # <<>> /\ curr_func'[1] = Entry
  BY <1>1, EntryStaysFirst
<1>4. CASE Calling
  <2>1. Call /\ NasmStart(Op.name, exec_stack)
    BY <1>4, InterpreterCalls
  <2>2. Linked' /\ fault' = "none"
    BY <1>1, <1>2, <2>1, StartTogether
  <2>3. rip' # Outside
    <3>1. Op.name \in DOMAIN ir.functions /\ ir \in Programs
      <4>1. MemoryInv /\ ProgramsScoped
        BY DEF VariablesInv, ProgramsTidy, ProgramsScoped
      <4>2. Op.op = "CALL"
        BY <2>1 DEF Call, Fetch
      <4>3. ir \in Programs
        BY <4>1 DEF MemoryInv, MemoryShape
      <4> QED BY <1>1, <4>1, <4>2, <4>3, Fetched
    <3>2. rip' = <<Op.name, 0>>
      BY <2>1 DEF NasmStart
    <3> QED BY <3>1, <3>2, NotOutside
  <2>4. status' = "running"
    BY <2>1, InterpreterCalls
  <2>5. EntryEmpty'
    <3>1. fp' = fp /\ Words' = Words
      BY <2>1 DEF Call, frameVars, Words
    <3> QED BY <1>2, <1>3, <3>1 DEF EntryEmpty
  <2> QED BY <2>2, <2>3, <2>4, <2>5 DEF NativeInv
<1>5. CASE ~Calling
  <2>1. UNCHANGED nasmVars /\ ~Call
    BY <1>5, InterpreterCalls
  <2>2. rip' = Outside /\ fault' = "none"
    BY <2>1 DEF nasmVars
  <2>3. CASE Ret
    <3>1. ip_stack = <<>>
      <4>1. IsSequence(ip_stack) /\ Len(ip_stack) + 1 = 1
        BY DEF VariablesInv, MemoryInv, MemoryShape, FramesNest, IsSequence
      <4>2. Len(ip_stack) = 0
        <5>1. Len(ip_stack) \in Nat
          BY <4>1 DEF IsSequence
        <5> QED BY <4>1, <5>1
      <4>3. PICK S : ip_stack \in Seq(S)
        BY <4>1 DEF IsSequence
      <4> QED BY <4>2, <4>3, EmptySeq
    <3>2. status' = "done"
      BY <2>3, <3>1 DEF Ret
    <3>3. EntryEmpty'
      BY <1>3, <3>2 DEF EntryEmpty
    <3> QED BY <2>2, <3>2, <3>3 DEF NativeInv
  <2>4. CASE ~Ret
    <3>1. curr_func' = curr_func
      BY <2>1, <2>4, CallsStay
    <3>2. ~Alloc
      <4>1. Op.op # "ALLOC"
        BY <1>1, EntryCode
      <4> QED BY <4>1 DEF Alloc, Fetch
    <3>3. Len(data_stack) = 0
      BY <1>1, <1>2 DEF Running, Words, VariablesInv, MemoryInv, MemoryShape, IsSequence
    <3>4. Len(data_stack') = 0
      <4>1. IsSequence(data_stack)
        BY DEF VariablesInv, MemoryInv, MemoryShape
      <4>2. CASE ~Free /\ ~FramePush /\ ~FramePop
        BY <2>1, <3>2, <3>3, <4>1, <4>2, WordsStay
      <4>3. CASE Free \/ FramePush \/ FramePop
        BY <3>3, <4>3 DEF Free, FramePush, FramePop
      <4> QED BY <4>2, <4>3
    <3>5. Words' = 0
      <4>1. freeing' \in Nat /\ freeing' <= Len(data_stack') /\ Words' = Len(data_stack') - freeing'
        BY DEF VariablesInv, MemoryInv, MemoryShape, Words
      <4>2. freeing' = 0
        BY <3>4, <4>1
      <4> QED BY <3>4, <4>1, <4>2
    <3>6. ~(Len(fp') >= 2)
      <4>1. Len(fp') = Len(curr_func') - 1 \/ Len(fp') = Len(curr_func')
        BY DEF VariablesInv, MemoryInv, FramesNest
      <4>2. Len(curr_func') = 1 /\ Len(curr_func') - 1 = 0
        BY <3>1
      <4>3. CASE Len(fp') = 0
        BY <4>3
      <4>4. CASE Len(fp') = 1
        BY <4>4
      <4> QED BY <4>1, <4>2, <4>3, <4>4
    <3>7. EntryEmpty'
      BY <1>3, <3>5, <3>6 DEF EntryEmpty
    <3> QED BY <2>2, <3>1, <3>7 DEF NativeInv
  <2> QED BY <2>3, <2>4
<1> QED BY <1>4, <1>5

\* What the step of an opcode leads to.
LEMMA InsideOutcome ==
  ASSUME ProgramsTidy, ProgramsBalanced, ProgramsNative, Together, VariablesInv', HeldFirm',
         NasmNext, SameInput, Execute
  PROVE  \/ Linked' /\ fault' = "none" /\ (Binary => status' = "running")
         \/ /\ Binary /\ fault' # "none" /\ rip' = rip /\ operands' = operands
            /\ Op.op \in {"DIV", "MOD"}
            /\ Value(Second) = 0 \/ status' = "trap"
         \/ fault' = "none" /\ Ret /\ rip' = Outside /\ Len(curr_func') = 1
<1> DEFINE n == Len(curr_func)
           m == Len(data_stack)
<1>1. /\ NasmOp = Op /\ rip[1] = curr_func[n] /\ curr_func[n] \in Defined(ir)
      /\ n \in Nat /\ n >= 2
  BY LinkedFetched DEF Together
<1>2. ir \in Programs
  BY DEF Together, VariablesInv, MemoryInv, MemoryShape
<1>3. \A i : <<rip[1], i>> # Outside
  <2>1. rip[1] \in DOMAIN ir.functions
    BY <1>1 DEF Defined
  <2> QED BY <1>2, <2>1, NotOutside
<1> HIDE DEF n
<1>4. CASE Nop \/ PushConstant \/ Discard \/ Clone
  <2>1. ~Binary
    BY <1>4 DEF Nop, PushConstant, Discard, Clone, Binary, Fetch, BinaryOps
  <2> QED BY <1>4, <2>1, PushesTogether
<1>5. CASE Binary \/ Unary
  <2>1. Unary => ~Binary
    BY DEF Unary, Binary, Fetch, BinaryOps, UnaryOps
  <2>2. Unary => ~(Op.op \in {"DIV", "MOD"})
    BY DEF Unary, Fetch, UnaryOps
  <2> QED BY <1>5, <2>1, <2>2, ComputesTogether
<1>6. CASE PushVariable
  <2>1. ~Binary
    BY <1>6 DEF PushVariable, Binary, Fetch, BinaryOps
  <2> QED BY <1>6, <2>1, VariablesTogether
<1>7. CASE SetupGlobal \/ Invalid
  <2>1. Op.op \in {"SETUP_GLOBAL", "INVALID"}
    BY <1>7 DEF SetupGlobal, Invalid, Fetch
  <2> QED BY <1>1, <2>1, NasmStepOf
<1>8. CASE Alloc
  <2>1. ~Binary
    BY <1>8 DEF Alloc, Binary, Fetch, BinaryOps
  <2> QED BY <1>8, <2>1, AllocTogether
<1>9. CASE Free \/ FramePop
  <2>1. ~Binary
    BY <1>9 DEF Free, FramePop, Binary, Fetch, BinaryOps
  <2>2. Op.op \in {"FREE", "STACK_FRAME_POP"}
    BY <1>9 DEF Free, FramePop, Fetch
  <2>3. NasmFree \/ NasmFramePop
    BY <1>1, <2>2, NasmStepOf
  <2>4. rip' # Outside
    BY <1>3, <2>3 DEF NasmFree, NasmFramePop, FallsThrough
  <2> QED BY <1>9, <2>1, <2>4, FreesTogether, FramePopTogether
<1>10. CASE FramePush
  <2>1. ~Binary
    BY <1>10 DEF FramePush, Binary, Fetch, BinaryOps
  <2> QED BY <1>10, <2>1, FramePushTogether
<1>11. CASE Load
  <2>1. ~Binary
    BY <1>11 DEF Load, Binary, Fetch, BinaryOps
  <2> QED BY <1>11, <2>1, LoadsTogether
<1>12. CASE Store
  <2>1. ~Binary
    BY <1>12 DEF Store, Binary, Fetch, BinaryOps
  <2> QED BY <1>12, <2>1, StoresTogether
<1>13. CASE Jump \/ JumpIf
  <2>1. ~Binary
    BY <1>13 DEF Jump, JumpIf, Binary, Fetch, BinaryOps
  <2> QED BY <1>13, <2>1, JumpsTogether
<1>14. CASE CallExternal \/ Call
  <2>1. ~Binary
    BY <1>14 DEF CallExternal, Call, Binary, Fetch, BinaryOps
  <2> QED BY <1>14, <2>1, RoutinesTogether, CallTogether
<1>15. CASE Ret
  <2>1. ~Binary
    BY <1>15 DEF Ret, Binary, Fetch, BinaryOps
  <2> QED BY <1>15, <2>1, ReturnTogether
<1> QED BY <1>4, <1>5, <1>6, <1>7, <1>8, <1>9, <1>10, <1>11, <1>12, <1>13, <1>14, <1>15 DEF Execute

\* A step of both.
LEMMA InsideStep ==
  ASSUME ProgramsTidy, ProgramsBalanced, ProgramsNative, Together, EntryEmpty,
         VariablesInv', HeldFirm', NasmNext, SameInput, Execute
  PROVE  NativeInv'
<1>1. EntryEmpty'
  BY EntryStaysEmpty
<1>2. CASE Linked' /\ fault' = "none" /\ (Binary => status' = "running")
  <2>1. status' # "trap"
    BY <1>2, InterpreterCalls
  <2>2. rip' # Outside
    <3>1. Peek(curr_func)' \in DOMAIN ir'.functions /\ ir' \in Programs
      <4>1. curr_func' \in Seq(Defined(ir')) /\ ir' \in Programs
        BY DEF VariablesInv, MemoryInv, MemoryShape
      <4>2. curr_func' # <<>>
        BY <1>1 DEF EntryEmpty
      <4>3. Peek(curr_func') \in Defined(ir')
        BY <4>1, <4>2, PoppedStack
      <4>4. Peek(curr_func)' = Peek(curr_func')
        BY DEF Peek
      <4> QED BY <4>1, <4>3, <4>4 DEF Defined
    <3>2. rip' = <<Peek(curr_func)', ip'>>
      BY <1>2 DEF Linked
    <3> QED BY <3>1, <3>2, NotOutside
  <2> QED BY <1>1, <1>2, <2>1, <2>2 DEF NativeInv
<1>3. CASE /\ Binary /\ fault' # "none" /\ rip' = rip /\ operands' = operands
           /\ Op.op \in {"DIV", "MOD"}
           /\ Value(Second) = 0 \/ status' = "trap"
  <2>1. ir' = ir
    BY <1>3 DEF Binary
  <2>2. NasmOp' = NasmOp /\ NasmOp = Op
    <3>1. NasmOp = Op
      BY LinkedFetched DEF Together
    <3> QED BY <1>3, <2>1, <3>1 DEF NasmOp, NasmCode
  <2>3. Value(Second)' = Value(Second)
    BY <1>3 DEF Value, Second
  <2>4. rip' # Outside
    BY <1>3 DEF Together
  <2> QED BY <1>1, <1>3, <2>2, <2>3, <2>4 DEF NativeInv
<1>4. CASE fault' = "none" /\ Ret /\ rip' = Outside /\ Len(curr_func') = 1
  BY <1>1, <1>4 DEF NativeInv
<1> QED BY <1>2, <1>3, <1>4, InsideOutcome

\* Giving a block back, which the processor has done with the opcode.
LEMMA FreeBlockTogether ==
  ASSUME ProgramsTidy, VariablesInv, NativeInv, FreeBlock, UNCHANGED nasmVars
  PROVE  NativeInv'
<1> DEFINE m == Len(data_stack)
           last == Peek(allocations)
           r == freeing
           w == Words
           l == Len(allocations)
<1>1. /\ m \in Nat /\ r \in Nat /\ r <= m /\ r # 0 /\ status = "running"
      /\ IsSequence(data_stack) /\ allocations \in Seq(Blocks) /\ Tiles(allocations, m)
      /\ w = m - r /\ Boundary(allocations, m, w)
  <2>1. MemoryInv /\ BlocksPlaced
    BY DEF VariablesInv, FreeBlock
  <2>2. IsSequence(data_stack) /\ freeing \in Nat /\ freeing <= Len(data_stack)
    BY <2>1 DEF MemoryInv, MemoryShape
  <2>3. Len(data_stack) \in Nat
    BY <2>2 DEF IsSequence
  <2> QED BY <2>1, <2>2, <2>3 DEF MemoryInv, MemoryShape, BlocksPlaced, FreeBlock, Words
<1>2. r \in 1 .. m
  BY <1>1
<1>3. /\ allocations # <<>> /\ last.start \in 0 .. m /\ last.size \in Nat
      /\ last.start + last.size = m
      /\ w <= m - r => w <= last.start - (IF last.size > r THEN 0 ELSE r - last.size)
  <2>1. w \in Nat
    BY <1>1
  <2> HIDE DEF w, r, m
  <2> QED BY <1>1, <1>2, <2>1, TilesPopped DEF last
<1>4. /\ allocations' = Pop(allocations)
      /\ data_stack' = SubSeq(data_stack, 1, last.start)
      /\ freeing' = IF last.size > r THEN 0 ELSE r - last.size
      /\ UNCHANGED <<ir, ip, fp, exec_stack, curr_func, ip_stack, status>>
  <2>1. ~(freeing < 0) /\ allocations # <<>>
    BY <1>1, <1>3
  <2> QED BY <2>1 DEF FreeBlock, callVars
<1>5. last.size <= r /\ w <= last.start
  <2>1. w <= last.start - (IF last.size > r THEN 0 ELSE r - last.size)
    BY <1>1, <1>3
  <2> HIDE DEF w, r, m, last
  <2>2. CASE last.size > r
    BY <1>1, <1>3, <2>1, <2>2
  <2>3. CASE ~(last.size > r)
    BY <1>1, <1>3, <2>1, <2>3
  <2> QED BY <2>2, <2>3
<1>6. Len(data_stack') = last.start /\ \A i \in 1 .. last.start : data_stack'[i] = data_stack[i]
  <2>1. PICK D : data_stack \in Seq(D)
    BY <1>1 DEF IsSequence
  <2>2. last.start \in 0 .. Len(data_stack)
    BY <1>3
  <2> HIDE DEF m, last
  <2> QED BY <1>4, <2>1, <2>2, SubSeqProperties
<1>7. Words' = w
  <2>1. freeing' = r - last.size
    <3>1. ~(last.size > r)
      <4> HIDE DEF last, r
      <4> QED BY <1>1, <1>3, <1>5
    <3> QED BY <1>4, <3>1
  <2>2. Words' = last.start - freeing'
    BY <1>6 DEF Words
  <2> HIDE DEF w, r, m, last
  <2> QED BY <1>1, <1>3, <2>1, <2>2
<1>8. /\ l \in Nat /\ Len(allocations') = l - 1
      /\ \A b \in 1 .. l - 1 : allocations'[b] = allocations[b]
      /\ \A b \in 1 .. l : allocations[b].start \in Nat
  <2>1. /\ Len(allocations) \in Nat /\ Len(Pop(allocations)) = Len(allocations) - 1
        /\ \A b \in 1 .. Len(allocations) - 1 : Pop(allocations)[b] = allocations[b]
    BY <1>1, <1>3, PoppedStack
  <2>2. ASSUME NEW b \in 1 .. l PROVE allocations[b].start \in Nat
    <3>1. allocations[b] \in Blocks
      BY <1>1
    <3> QED BY <3>1 DEF Blocks
  <2> QED BY <1>4, <2>1, <2>2
<1> HIDE DEF w, r, m, last, l
<1>9. UNCHANGED <<memory, rsp, rbp, operands, rip, fault>>
  BY DEF nasmVars
<1>10. Linked => Linked'
  <2> SUFFICES ASSUME Linked PROVE Linked'
    OBVIOUS
  <2>1. VariablesMatch(memory, allocations', data_stack', fp, w)
    <3>1. VariablesMatch(memory, allocations, data_stack, fp, w)
      BY DEF Linked, w
    <3> SUFFICES ASSUME NEW b \in 1 .. Len(allocations'),
                        allocations'[b].start < w, allocations'[b].size = 1
                 PROVE  Firm(memory[DepthIn(fp, allocations'[b].start)],
                             data_stack'[allocations'[b].start + 1], fp, w)
      BY Zenon DEF VariablesMatch
    <3>2. b \in 1 .. l /\ allocations'[b] = allocations[b] /\ allocations[b].start \in Nat
      BY <1>8
    <3>3. allocations[b].start + 1 \in 1 .. last.start
      <4>1. allocations[b].start < w /\ allocations[b].start \in Nat
        BY <3>2
      <4>2. w \in Nat /\ last.start \in Nat /\ w <= last.start
        BY <1>1, <1>3, <1>5
      <4> QED BY <4>1, <4>2
    <3>4. data_stack'[allocations[b].start + 1] = data_stack[allocations[b].start + 1]
      BY <1>6, <3>3
    <3> QED BY <3>1, <3>2, <3>4 DEF VariablesMatch, l
  <2>2. Peek(curr_func)' = Peek(curr_func)
    BY <1>4 DEF Peek
  <2> QED BY <1>4, <1>7, <1>9, <2>1, <2>2 DEF Linked, w
<1>11. EntryEmpty'
  BY <1>4, <1>7, <1>9 DEF EntryEmpty, NativeInv, w
<1>12. NasmOp' = NasmOp /\ Value(Second)' = Value(Second)
  BY <1>4, <1>9 DEF NasmOp, NasmCode, Value, Second
<1> QED BY <1>4, <1>9, <1>10, <1>11, <1>12 DEF NativeInv

\* The interpreter goes on where the processor has stopped.
LEMMA FaultStep ==
  ASSUME VariablesInv, NativeInv, Execute, fault # "none", UNCHANGED nasmVars
  PROVE  NativeInv'
<1>1. curr_func' # <<>> /\ curr_func'[1] = Entry
  BY EntryStaysFirst DEF NativeInv, EntryEmpty
<1>2. fault' = fault /\ rip' = rip /\ operands' = operands
  BY DEF nasmVars
<1>3. EntryEmpty'
  BY <1>1, <1>2 DEF EntryEmpty
<1>4. ir' = ir
  BY DEF Execute, Nop, Binary, Unary, PushConstant, PushVariable, Discard, Clone, SetupGlobal,
         Alloc, Free, FramePush, FramePop, Load, Store, Jump, JumpIf, CallExternal, Call, Ret,
         Invalid, OperandsOnly
<1>5. NasmOp' = NasmOp /\ Value(Second)' = Value(Second)
  BY <1>2, <1>4 DEF NasmOp, NasmCode, Value, Second
<1>6. status = "running"
  BY InterpreterCalls DEF Running
<1> QED BY <1>2, <1>3, <1>5, <1>6 DEF NativeInv

--------------------------------------------------------------------------------
(* The theorem.                                                                 *)

LEMMA BackendStarts ==
  ASSUME ProgramsTidy, ProgramsBalanced PROVE BothInit => BackendInv
<1> SUFFICES ASSUME BothInit PROVE BackendInv
  OBVIOUS
<1>1. VariablesInv /\ OperandsInv
  BY VariablesStart, OperandsStart DEF BothInit
<1>2. EntryEmpty
  BY DEF BothInit, Init, EntryEmpty, Words
<1>3. rip = Outside /\ fault = "none" /\ status = "running" /\ Len(curr_func) = 1
  BY DEF BothInit, Init, NasmInit
<1> QED BY <1>1, <1>2, <1>3 DEF BackendInv, NativeInv

\* Where the processor has not stopped no store is to a global.
LEMMA NoGlobalStored ==
  ASSUME ProgramsTidy, ProgramsBalanced, ProgramsNative, BackendInv, PointersBehave, fault = "none"
  PROVE  StoresNoGlobal
<1> SUFFICES ASSUME Running, Op.op = "STORE" PROVE ~ValidGlobal(Peek(exec_stack))
  BY DEF StoresNoGlobal
<1>1. VariablesInv /\ OperandsInv /\ NativeInv /\ status = "running"
  BY DEF BackendInv, Running
<1>2. CASE rip = Outside
  <2>1. Len(curr_func) = 1 /\ curr_func[1] = Entry
    BY <1>1, <1>2 DEF NativeInv, EntryEmpty
  <2> QED BY <1>1, <2>1, EntryCode
<1>3. CASE rip # Outside
  <2>1. Together
    BY <1>1, <1>3 DEF Together, NativeInv
  <2> QED BY <2>1, StorePlace
<1> QED BY <1>2, <1>3

LEMMA NativeStays ==
  ASSUME ProgramsTidy, ProgramsBalanced, ProgramsNative, BackendInv, PointersBehave,
         VariablesInv', HeldFirm', [BothNext]_<<vars, nasmVars>>
  PROVE  NativeInv'
<1>1. VariablesInv /\ NativeInv
  BY DEF BackendInv
<1>2. CASE Execute /\ Native
  <2>1. Running /\ status = "running"
    BY <1>2, InterpreterCalls DEF Running
  <2>2. CASE fault # "none"
    <3>1. rip # Outside
      BY <1>1, <2>2 DEF NativeInv
    <3>2. UNCHANGED nasmVars
      BY <1>2, <2>2, <3>1 DEF Native
    <3> QED BY <1>1, <1>2, <2>2, <3>2, FaultStep
  <2>3. CASE fault = "none" /\ rip = Outside
    <3>1. OperandsInv /\ EntryEmpty /\ Len(curr_func) = 1
      BY <2>1, <2>3 DEF BackendInv, NativeInv
    <3>2. IF Calling THEN NasmStart(Op.name, exec_stack) ELSE UNCHANGED nasmVars
      BY <1>2, <2>3 DEF Native
    <3> QED BY <1>1, <1>2, <2>3, <3>1, <3>2, OutsideStep
  <2>4. CASE fault = "none" /\ rip # Outside
    <3>1. Together /\ EntryEmpty
      BY <1>1, <2>1, <2>4 DEF Together, BackendInv, NativeInv
    <3>2. NasmNext /\ SameInput
      BY <1>2, <2>4 DEF Native
    <3> QED BY <1>2, <3>1, <3>2, InsideStep
  <2> QED BY <2>2, <2>3, <2>4
<1>3. CASE FreeBlock /\ UNCHANGED nasmVars
  BY <1>1, <1>3, FreeBlockTogether
<1>4. CASE UNCHANGED <<vars, nasmVars>>
  <2>1. EntryEmpty'
    BY <1>1, <1>4 DEF NativeInv, EntryEmpty, Words, vars, nasmVars
  <2>2. Linked => Linked'
    BY <1>4 DEF Linked, Words, Peek, vars, nasmVars
  <2>3. NasmOp' = NasmOp /\ Value(Second)' = Value(Second)
    BY <1>4 DEF NasmOp, NasmCode, Value, Second, vars, nasmVars
  <2> QED BY <1>1, <1>4, <2>1, <2>2, <2>3 DEF NativeInv, vars, nasmVars
<1> QED BY <1>2, <1>3, <1>4 DEF BothNext

LEMMA FaultsStay ==
  ASSUME NativeInv, [BothNext]_<<vars, nasmVars>>, fault' = "none"
  PROVE  fault = "none"
<1>1. CASE Execute /\ Native
  BY <1>1 DEF Native, NativeInv, nasmVars
<1>2. CASE ~Execute
  BY <1>2 DEF BothNext, nasmVars
<1>3. CASE UNCHANGED <<vars, nasmVars>>
  BY <1>3 DEF nasmVars
<1> QED BY <1>1, <1>2, <1>3 DEF BothNext, nasmVars

LEMMA BackendStays ==
  ASSUME ProgramsTidy, ProgramsBalanced, ProgramsNative
  PROVE  BackendInv /\ PointersBehave /\ PointersBehave' /\ [BothNext]_<<vars, nasmVars>>
           => BackendInv'
<1>1. [BothNext]_<<vars, nasmVars>> => [Next]_vars
  BY DEF BothNext, Next
<1>2. BackendInv /\ [BothNext]_<<vars, nasmVars>> => VariablesInv'
  BY <1>1, VariablesStay DEF BackendInv
<1>3. VariablesInv' /\ PointersBehave' => HeldFirm'
  BY HeldIsFirm, PTL
<1>4. ASSUME BackendInv, PointersBehave, PointersBehave', [BothNext]_<<vars, nasmVars>>
      PROVE  BackendInv'
  <2>1. VariablesInv' /\ HeldFirm'
    BY <1>2, <1>3, <1>4
  <2>2. NativeInv'
    BY <1>4, <2>1, NativeStays
  <2>3. ASSUME fault' = "none" PROVE OperandsInv'
    <3>1. fault = "none"
      BY <1>4, <2>3, FaultsStay DEF BackendInv
    <3>2. StoresNoGlobal
      BY <1>4, <3>1, NoGlobalStored
    <3> QED BY <1>1, <1>4, <3>1, <3>2, OperandsStay DEF BackendInv
  <2> QED BY <2>1, <2>2, <2>3 DEF BackendInv
<1> QED BY <1>4

LEMMA FirmStands ==
  ASSUME NEW word, NEW v, NEW m, Firm(word, v, fp, m)
  PROVE  Stands(word, v)
<1>1. CASE word = Int_(v)
  BY <1>1 DEF Stands
<1>2. CASE word = Address(DepthIn(fp, v))
  BY <1>2, DepthsAreCounted DEF Stands
<1> QED BY <1>1, <1>2 DEF Firm

LEMMA BackendSuffices == ASSUME ProgramsTidy PROVE BackendInv => BackendAgrees
<1> SUFFICES ASSUME BackendInv PROVE BackendAgrees
  OBVIOUS
<1>1. VariablesInv /\ NativeInv
  BY DEF BackendInv
<1>2. ASSUME rip # Outside, fault = "none", freeing = 0, status = "running"
      PROVE  /\ rip = <<Peek(curr_func), ip>>
             /\ rsp = Len(data_stack) + (Len(fp) - 1) + (Len(curr_func) - 1)
             /\ Len(operands) = Len(exec_stack)
             /\ \A i \in DOMAIN operands : Stands(operands[i], exec_stack[i])
             /\ \A b \in DOMAIN allocations :
                  allocations[b].size = 1 =>
                    Stands(memory[Depth(allocations[b].start)],
                           data_stack[allocations[b].start + 1])
  <2> DEFINE m == Len(data_stack)
             l == Len(allocations)
  <2>1. Linked
    BY <1>1, <1>2 DEF NativeInv
  <2>2. /\ m \in Nat /\ l \in Nat /\ Words = m /\ allocations \in Seq(Blocks)
        /\ Tiles(allocations, m)
    <3>1. MemoryInv
      BY <1>1 DEF VariablesInv
    <3>2. IsSequence(data_stack)
      BY <3>1 DEF MemoryInv, MemoryShape
    <3>3. Len(data_stack) \in Nat
      BY <3>2 DEF IsSequence
    <3> QED BY <1>2, <3>1, <3>3 DEF MemoryInv, MemoryShape, Words
  <2>3. Matches(operands, exec_stack, fp, m) /\ VariablesMatch(memory, allocations, data_stack, fp, m)
    BY <2>1, <2>2 DEF Linked
  <2>4. Len(operands) = Len(exec_stack) /\ \A i \in DOMAIN operands : Stands(operands[i], exec_stack[i])
    <3>1. DOMAIN operands = 1 .. Len(operands)
      BY <2>3 DEF Matches, IsSequence
    <3> QED BY <2>3, <3>1, FirmStands DEF Matches
  <2>5. ASSUME NEW b \in DOMAIN allocations, allocations[b].size = 1
        PROVE  Stands(memory[Depth(allocations[b].start)], data_stack[allocations[b].start + 1])
    <3>1. b \in 1 .. l /\ allocations[b] \in Blocks /\ allocations[l] \in Blocks
      BY <2>2
    <3>2. allocations[b].start \in Nat /\ allocations[l].start \in Nat /\ allocations[l].size \in Nat
      BY <3>1 DEF Blocks
    <3>3. allocations[b].start < m
      <4>1. allocations # <<>>
        BY <3>1
      <4>2. allocations[l].start + allocations[l].size = m
        BY <2>2, <4>1 DEF Tiles
      <4>3. CASE b = l
        BY <2>5, <3>2, <4>2, <4>3
      <4>4. CASE b # l
        <5>1. b < l /\ l \in 1 .. l
          BY <2>2, <3>1, <4>4
        <5>2. allocations[b].start + allocations[b].size <= allocations[l].start
          BY <2>2, <3>1, <5>1 DEF Tiles
        <5> HIDE DEF m, l
        <5> QED BY <2>2, <2>5, <3>2, <4>2, <5>2
      <4> QED BY <4>3, <4>4
    <3>4. Firm(memory[DepthIn(fp, allocations[b].start)], data_stack[allocations[b].start + 1], fp, m)
      BY <2>3, <2>5, <3>1, <3>3 DEF VariablesMatch
    <3> QED BY <3>4, FirmStands, DepthsAreCounted
  <2>6. rip = <<Peek(curr_func), ip>> /\ rsp = m + (Len(fp) - 1) + (Len(curr_func) - 1)
    BY <2>1, <2>2 DEF Linked, RspOf
  <2> QED BY <2>4, <2>5, <2>6
<1> QED BY <1>1, <1>2 DEF BackendAgrees, NativeInv

\* Whatever programs run whose code balances the operands, says what is in the frames,
\* and has constants that fit in an instruction, as long as it uses pointers as the
\* language means them, and for all input: the code of the backend does what the
\* interpreter does (nasm_compile_func, execute_ir_opcode).
THEOREM BackendIsRight ==
  ASSUME ProgramsTidy, ProgramsBalanced, ProgramsNative
  PROVE  BothSpec /\ []PointersBehave => []BackendAgrees
<1>1. BothInit => BackendInv
  BY BackendStarts
<1>2. BackendInv /\ PointersBehave /\ PointersBehave' /\ [BothNext]_<<vars, nasmVars>>
        => BackendInv'
  BY BackendStays
<1>3. BackendInv => BackendAgrees
  BY BackendSuffices
<1> QED BY <1>1, <1>2, <1>3, PTL DEF BothSpec

================================================================================
