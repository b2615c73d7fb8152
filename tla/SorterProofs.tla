------------------------------ MODULE SorterProofs ------------------------------
(***************************************************************************)
(* Proofs about quick_sort, for arrays of any length: no element is lost or  *)
(* doubled, and an array whose elements differ ends in order.                *)
(***************************************************************************)
EXTENDS Sorter, SequenceTheorems, FiniteSetTheorems, TLAPS

--------------------------------------------------------------------------------
(* Exchanging two elements.                                                       *)

Exchanged(a, b, x, y) ==
  /\ b \in Seq(Int) /\ Len(b) = Len(a)
  /\ b[x] = a[y] /\ b[y] = a[x]
  /\ \A i \in 1 .. Len(a) : i # x /\ i # y => b[i] = a[i]

LEMMA SwapExchanges ==
  ASSUME NEW a \in Seq(Int), NEW x \in 1 .. Len(a), NEW y \in 1 .. Len(a)
  PROVE  Exchanged(a, [a EXCEPT ![x] = a[y], ![y] = a[x]], x, y)
<1>1. a[x] \in Int /\ a[y] \in Int /\ DOMAIN a = 1 .. Len(a)
  OBVIOUS
<1> DEFINE b == [a EXCEPT ![x] = a[y], ![y] = a[x]]
<1>2. /\ [a EXCEPT ![x] = a[y]] \in Seq(Int) /\ Len([a EXCEPT ![x] = a[y]]) = Len(a)
      /\ b \in Seq(Int) /\ Len(b) = Len(a)
  BY <1>1, ExceptSeq
<1>3. b[x] = a[y] /\ b[y] = a[x] /\ \A i \in 1 .. Len(a) : i # x /\ i # y => b[i] = a[i]
  BY <1>1
<1> QED BY <1>2, <1>3 DEF Exchanged

\* a is g in another order: p says where each element was.
Rearranges(p, a, g) ==
  /\ p \in Bijection(1 .. Len(g), 1 .. Len(g)) /\ Len(a) = Len(g)
  /\ \A i \in 1 .. Len(g) : a[i] = g[p[i]]

Rearranged(a, g) == \E p : Rearranges(p, a, g)

LEMMA RearrangedSame ==
  ASSUME NEW a \in Seq(Int) PROVE Rearranged(a, a)
<1> DEFINE p == [i \in 1 .. Len(a) |-> i]
<1>1. p \in Bijection(1 .. Len(a), 1 .. Len(a))
  BY DEF Bijection, Injection, Surjection, IsInjective
<1>2. \A i \in 1 .. Len(a) : a[i] = a[p[i]]
  OBVIOUS
<1> QED BY <1>1, <1>2 DEF Rearranged, Rearranges

LEMMA RearrangedBy ==
  ASSUME NEW g \in Seq(Int), NEW a \in Seq(Int), NEW p, Rearranges(p, a, g)
  PROVE  /\ 1 .. Len(a) = 1 .. Len(g) /\ DOMAIN a = 1 .. Len(g) /\ DOMAIN g = 1 .. Len(g)
         /\ p \in [1 .. Len(g) -> 1 .. Len(g)]
         /\ \A i, j \in 1 .. Len(g) : p[i] = p[j] => i = j
         /\ \A t \in 1 .. Len(g) : \E i \in 1 .. Len(g) : p[i] = t
         /\ \A i \in 1 .. Len(g) : a[i] = g[p[i]]
<1>1. Len(a) = Len(g) /\ \A i \in 1 .. Len(g) : a[i] = g[p[i]]
  BY DEF Rearranges
<1>2. DOMAIN a = 1 .. Len(a) /\ DOMAIN g = 1 .. Len(g)
  OBVIOUS
<1> DEFINE n == 1 .. Len(g)
<1>3. p \in Bijection(n, n)
  BY DEF Rearranges
<1> HIDE DEF n
<1>4. /\ p \in [n -> n] /\ \A i, j \in n : p[i] = p[j] => i = j
      /\ \A t \in n : \E i \in n : p[i] = t
  BY <1>3 DEF Bijection, Injection, Surjection, IsInjective
<1> QED BY <1>1, <1>2, <1>4 DEF n

Transposed(p, S, x, y) ==
  [i \in S |-> IF i = x THEN p[y] ELSE IF i = y THEN p[x] ELSE p[i]]

LEMMA BijectionSwap ==
  ASSUME NEW S, NEW p \in Bijection(S, S), NEW x \in S, NEW y \in S
  PROVE  Transposed(p, S, x, y) \in Bijection(S, S)
<1> DEFINE q == Transposed(p, S, x, y)
<1>1. /\ p \in [S -> S] /\ \A i, j \in S : p[i] = p[j] => i = j
      /\ \A t \in S : \E i \in S : p[i] = t
  BY DEF Bijection, Injection, Surjection, IsInjective
<1>2. /\ q \in [S -> S] /\ q[x] = p[y] /\ q[y] = p[x]
      /\ \A i \in S : i # x /\ i # y => q[i] = p[i]
  BY <1>1 DEF Transposed
<1> HIDE DEF q
<1>3. \A i, j \in S : q[i] = q[j] => i = j
  <2> SUFFICES ASSUME NEW i \in S, NEW j \in S, q[i] = q[j]
               PROVE  i = j
    OBVIOUS
  <2> DEFINE other(k) == IF k = x THEN y ELSE IF k = y THEN x ELSE k
  <2>1. \A k \in S : other(k) \in S /\ q[k] = p[other(k)]
    BY <1>2
  <2>2. other(i) = other(j)
    BY <1>1, <2>1
  <2> QED BY <2>2
<1>4. ASSUME NEW t \in S PROVE \E i \in S : q[i] = t
  <2>1. PICK i \in S : p[i] = t
    BY <1>1
  <2> QED BY <2>1, <1>2
<1>5. q \in Bijection(S, S)
  BY <1>2, <1>3, <1>4 DEF Bijection, Injection, Surjection, IsInjective
<1> QED BY <1>5 DEF q

LEMMA RearrangedSwap ==
  ASSUME NEW g \in Seq(Int), NEW a \in Seq(Int), Rearranged(a, g), NEW b,
         NEW x \in 1 .. Len(a), NEW y \in 1 .. Len(a), Exchanged(a, b, x, y)
  PROVE  Rearranged(b, g)
<1>1. PICK p : Rearranges(p, a, g)
  BY DEF Rearranged
<1> DEFINE S == 1 .. Len(g)
           q == Transposed(p, S, x, y)
<1>2. p \in Bijection(S, S) /\ Len(a) = Len(g) /\ \A i \in S : a[i] = g[p[i]]
  BY <1>1 DEF Rearranges
<1>3. 1 .. Len(a) = S /\ x \in S /\ y \in S /\ Len(b) = Len(g)
  BY <1>2 DEF Exchanged
<1>4. /\ b[x] = a[y] /\ b[y] = a[x]
      /\ \A i \in S : i # x /\ i # y => b[i] = a[i]
  BY <1>3 DEF Exchanged
<1> HIDE DEF S
<1>5. q \in Bijection(S, S)
  BY <1>2, <1>3, BijectionSwap
<1>6. ASSUME NEW i \in S PROVE b[i] = g[q[i]]
  <2>1. a[i] = g[p[i]] /\ a[x] = g[p[x]] /\ a[y] = g[p[y]]
    BY <1>2, <1>3
  <2>2. q[i] = IF i = x THEN p[y] ELSE IF i = y THEN p[x] ELSE p[i]
    BY DEF Transposed
  <2> QED BY <2>1, <2>2, <1>4
<1> QED BY <1>3, <1>5, <1>6 DEF S, Rearranged, Rearranges

LEMMA RearrangedOccurs ==
  ASSUME NEW g \in Seq(Int), NEW a \in Seq(Int), Rearranged(a, g), NEW x
  PROVE  Occurrences(a, x) = Occurrences(g, x)
<1>1. PICK p : Rearranges(p, a, g)
  BY DEF Rearranged
<1> DEFINE n == 1 .. Len(g)
           S == {i \in DOMAIN a : a[i] = x}
           T == {i \in DOMAIN g : g[i] = x}
           f == [i \in S |-> p[i]]
<1>2. /\ DOMAIN a = n /\ DOMAIN g = n
      /\ p \in [n -> n] /\ \A i, j \in n : p[i] = p[j] => i = j
      /\ \A t \in n : \E i \in n : p[i] = t
      /\ \A i \in n : a[i] = g[p[i]]
  BY <1>1, RearrangedBy
<1>3. IsFiniteSet(S)
  <2>1. IsFiniteSet(n)
    BY FS_Interval
  <2>2. S \subseteq n
    BY <1>2
  <2> QED BY <2>1, <2>2, FS_Subset
<1> HIDE DEF n
<1>4. f \in Bijection(S, T)
  <2>1. f \in [S -> T]
    BY <1>2
  <2>2. \A i, j \in S : f[i] = f[j] => i = j
    BY <1>2
  <2>3. \A t \in T : \E i \in S : f[i] = t
    <3> TAKE t \in T
    <3>1. t \in n /\ g[t] = x
      BY <1>2
    <3>2. PICK i \in n : p[i] = t
      BY <1>2, <3>1
    <3>3. i \in S
      BY <1>2, <3>1, <3>2
    <3> QED BY <3>2, <3>3
  <2> HIDE DEF f, S, T
  <2> QED BY <2>1, <2>2, <2>3 DEF Bijection, Injection, Surjection, IsInjective
<1> HIDE DEF f, S, T
<1>5. Cardinality(T) = Cardinality(S)
  BY <1>3, <1>4, FS_Bijection DEF ExistsBijection
<1> QED BY <1>5 DEF Occurrences, S, T

LEMMA RearrangedDiffer ==
  ASSUME NEW g \in Seq(Int), NEW a \in Seq(Int), Rearranged(a, g), IsInjective(g)
  PROVE  \A i, j \in 1 .. Len(a) : a[i] = a[j] => i = j
<1>1. PICK p : Rearranges(p, a, g)
  BY DEF Rearranged
<1> DEFINE n == 1 .. Len(g)
<1>2. /\ 1 .. Len(a) = n /\ DOMAIN g = n /\ p \in [n -> n]
      /\ \A i, j \in n : p[i] = p[j] => i = j
      /\ \A i \in n : a[i] = g[p[i]]
  BY <1>1, RearrangedBy
<1>3. \A i, j \in n : g[i] = g[j] => i = j
  BY <1>2 DEF IsInjective
<1> HIDE DEF n
<1>4. \A i \in n : p[i] \in n
  BY <1>2
<1>5. \A i, j \in n : a[i] = a[j] => i = j
  BY <1>2, <1>3, <1>4
<1> QED BY <1>2, <1>5

--------------------------------------------------------------------------------
(* The parts that are still to be sorted.                                         *)

Parts == [start : Nat, stop : Nat]

\* Element i of the array, counted from one, is in a part.
Inside(part, i) == part.start < i /\ i <= part.stop

\* The parts are of an array of n elements, and share none.
PartsApart(parts, n) ==
  /\ \A part \in parts : part \in Parts /\ part.start <= part.stop /\ part.stop <= n
  /\ \A one, two \in parts : one = two \/ one.stop <= two.start \/ two.stop <= one.start

\* Two elements are in order already, or in the same part.
OrderedApart(a, parts) ==
  \A i, j \in 1 .. Len(a) :
    i < j => a[i] < a[j] \/ \E part \in parts : Inside(part, i) /\ Inside(part, j)

LEMMA PartOrdered ==
  ASSUME NEW a, Len(a) \in Nat, NEW parts, NEW part \in parts,
         PartsApart(parts, Len(a)), OrderedApart(a, parts),
         NEW i \in 1 .. Len(a), NEW j \in 1 .. Len(a), Inside(part, i), ~Inside(part, j)
  PROVE  /\ i < j => a[i] < a[j]
         /\ j < i => a[j] < a[i]
<1>1. ASSUME NEW other \in parts PROVE ~(Inside(other, i) /\ Inside(other, j))
  <2>1. \/ other = part \/ other.stop <= part.start \/ part.stop <= other.start
    BY DEF PartsApart
  <2>2. /\ part.start \in Nat /\ part.stop \in Nat /\ other.start \in Nat /\ other.stop \in Nat
    BY DEF PartsApart, Parts
  <2> QED BY <2>1, <2>2 DEF Inside
<1> QED BY <1>1 DEF OrderedApart

\* Elements of a part that change places disturb no other order.
LEMMA ExchangeInPart ==
  ASSUME NEW a, Len(a) \in Nat, NEW b, NEW parts, NEW part \in parts,
         PartsApart(parts, Len(a)), OrderedApart(a, parts),
         NEW x \in 1 .. Len(a), NEW y \in 1 .. Len(a), Inside(part, x), Inside(part, y),
         Exchanged(a, b, x, y)
  PROVE  OrderedApart(b, parts)
<1> DEFINE from(i) == IF i = x THEN y ELSE IF i = y THEN x ELSE i
<1>1. Len(b) = Len(a) /\ \A i \in 1 .. Len(a) : b[i] = a[from(i)] /\ from(i) \in 1 .. Len(a)
  BY DEF Exchanged
<1>2. \A i : Inside(part, i) => Inside(part, from(i))
  OBVIOUS
<1>3. \A i : ~Inside(part, i) => from(i) = i
  OBVIOUS
<1>4. part.start \in Nat /\ part.stop \in Nat
  BY DEF PartsApart, Parts
<1> HIDE DEF from
<1>5. SUFFICES ASSUME NEW i \in 1 .. Len(a), NEW j \in 1 .. Len(a), i < j
               PROVE  b[i] < b[j] \/ \E p \in parts : Inside(p, i) /\ Inside(p, j)
  BY <1>1 DEF OrderedApart
<1>6. CASE Inside(part, i) /\ Inside(part, j)
  BY <1>6
<1>7. CASE Inside(part, i) /\ ~Inside(part, j)
  <2>1. Inside(part, from(i)) /\ from(i) \in 1 .. Len(a) /\ from(i) \in Nat
    BY <1>1, <1>2, <1>7
  <2>2. from(i) < j
    BY <1>4, <1>5, <1>7, <2>1 DEF Inside
  <2>3. a[from(i)] < a[j]
    BY <1>7, <2>1, <2>2, PartOrdered
  <2> QED BY <1>1, <1>3, <1>7, <2>3
<1>8. CASE ~Inside(part, i) /\ Inside(part, j)
  <2>1. Inside(part, from(j)) /\ from(j) \in 1 .. Len(a) /\ from(j) \in Nat
    BY <1>1, <1>2, <1>8
  <2>2. i < from(j)
    BY <1>4, <1>5, <1>8, <2>1 DEF Inside
  <2>3. a[i] < a[from(j)]
    BY <1>8, <2>1, <2>2, PartOrdered
  <2> QED BY <1>1, <1>3, <1>8, <2>3
<1>9. CASE ~Inside(part, i) /\ ~Inside(part, j)
  <2>1. b[i] = a[i] /\ b[j] = a[j]
    BY <1>1, <1>3, <1>9
  <2> QED BY <2>1, <1>5 DEF OrderedApart
<1> QED BY <1>6, <1>7, <1>8, <1>9

\* A part whose elements are in order is done.
LEMMA PartDone ==
  ASSUME NEW a, NEW parts, NEW part, NEW left, OrderedApart(a, parts),
         \A p \in parts : p \in left \/ p = part,
         \A i, j \in 1 .. Len(a) : i < j /\ Inside(part, i) /\ Inside(part, j) => a[i] < a[j]
  PROVE  OrderedApart(a, left)
BY DEF OrderedApart

\* A part is divided at the element that is greater than the ones before it and
\* less than the ones behind it.
Divides(a, part, p, l, r) ==
  /\ part \in Parts /\ p \in Nat /\ Len(a) \in Nat
  /\ part.start <= p /\ p < part.stop /\ part.stop <= Len(a)
  /\ l.start = part.start /\ l.stop = p /\ r.start = p + 1 /\ r.stop = part.stop
  /\ \A i \in 1 .. Len(a) : a[i] \in Int
  /\ \A i \in 1 .. Len(a) : Inside(part, i) /\ i <= p => a[i] < a[p + 1]
  /\ \A i \in 1 .. Len(a) : Inside(part, i) /\ i > p + 1 => a[p + 1] < a[i]

LEMMA PartDivided ==
  ASSUME NEW a, NEW parts, NEW part, NEW divided, NEW p, NEW l, NEW r,
         Divides(a, part, p, l, r), OrderedApart(a, parts), l \in divided, r \in divided,
         \A q \in parts : q \in divided \/ q = part
  PROVE  OrderedApart(a, divided)
<1>1. /\ part \in Parts /\ p \in Nat /\ Len(a) \in Nat
      /\ part.start <= p /\ p < part.stop /\ part.stop <= Len(a)
      /\ l.start = part.start /\ l.stop = p /\ r.start = p + 1 /\ r.stop = part.stop
      /\ \A i \in 1 .. Len(a) : a[i] \in Int
      /\ \A i \in 1 .. Len(a) : Inside(part, i) /\ i <= p => a[i] < a[p + 1]
      /\ \A i \in 1 .. Len(a) : Inside(part, i) /\ i > p + 1 => a[p + 1] < a[i]
  BY DEF Divides
<1> SUFFICES ASSUME NEW i \in 1 .. Len(a), NEW j \in 1 .. Len(a), i < j,
                    Inside(part, i), Inside(part, j)
             PROVE  a[i] < a[j] \/ \E q \in divided : Inside(q, i) /\ Inside(q, j)
  BY DEF OrderedApart
<1>2. part.start \in Nat /\ part.stop \in Nat /\ i \in Nat /\ j \in Nat
  BY <1>1 DEF Parts
<1>3. CASE j <= p
  <2>1. Inside(l, i) /\ Inside(l, j)
    BY <1>1, <1>2, <1>3 DEF Inside
  <2> QED BY <2>1
<1>4. CASE i > p + 1
  <2>1. Inside(r, i) /\ Inside(r, j)
    BY <1>1, <1>2, <1>4 DEF Inside
  <2> QED BY <2>1
<1>5. CASE i <= p + 1 /\ j > p
  <2>1. p + 1 \in 1 .. Len(a) /\ a[p + 1] \in Int /\ a[i] \in Int /\ a[j] \in Int
    <3>1. p + 1 \in 1 .. Len(a)
      BY <1>1, <1>2
    <3> QED BY <3>1, <1>1
  <2>2. i = p + 1 \/ a[i] < a[p + 1]
    BY <1>1, <1>2, <1>5
  <2>3. j = p + 1 \/ a[p + 1] < a[j]
    BY <1>1, <1>2, <1>5
  <2>4. ~(i = p + 1 /\ j = p + 1)
    BY <1>2
  <2> QED BY <2>1, <2>2, <2>3, <2>4
<1> QED BY <1>1, <1>2, <1>3, <1>4, <1>5

--------------------------------------------------------------------------------
(* The calls of quick_sort.                                                       *)

SetOf(s) == {s[k] : k \in 1 .. Len(s)}

\* The calls to make are for parts of the array, the last of them the first one.
Descending(s, n) ==
  /\ \A k \in 1 .. Len(s) : s[k].start <= s[k].stop /\ s[k].stop <= n
  /\ \A k, m \in 1 .. Len(s) : k < m => s[m].stop <= s[k].start

LEMMA CallTaken ==
  ASSUME NEW s \in Seq(Parts), s # <<>>, NEW n \in Nat, Descending(s, n), NEW last, last = s[Len(s)]
  PROVE  /\ Front(s) \in Seq(Parts) /\ Descending(Front(s), n)
         /\ last \in Parts /\ last.start <= last.stop /\ last.stop <= n
         /\ \A k \in 1 .. Len(Front(s)) : last.stop <= Front(s)[k].start
         /\ \A p : p \in SetOf(s) <=> p \in SetOf(Front(s)) \/ p = last
<1> DEFINE f == Front(s)
<1>1. /\ f \in Seq(Parts) /\ Len(s) \in Nat /\ Len(s) > 0 /\ Len(f) = Len(s) - 1
      /\ \A k \in 1 .. Len(s) - 1 : f[k] = s[k]
  <2> DEFINE len == Len(s) - 1
  <2>1. Len(s) \in Nat /\ Len(s) > 0 /\ len \in Nat
    BY EmptySeq
  <2>2. \A k \in 1 .. len : s[k] \in Parts
    <3>1. \A k \in 1 .. len : k \in 1 .. Len(s)
      BY <2>1
    <3> QED BY <3>1, ElementOfSeq
  <2>3. f = SubSeq(s, 1, len)
    BY DEF Front
  <2> HIDE DEF len
  <2>4. /\ SubSeq(s, 1, len) \in Seq(Parts)
        /\ Len(SubSeq(s, 1, len)) = IF 1 <= len THEN len - 1 + 1 ELSE 0
        /\ \A k \in 1 .. len - 1 + 1 : SubSeq(s, 1, len)[k] = s[1 + k - 1]
    BY <2>1, <2>2, SubSeqProperties
  <2>5. Len(f) = len /\ \A k \in 1 .. len : f[k] = s[k]
    BY <2>1, <2>3, <2>4
  <2> QED BY <2>1, <2>3, <2>4, <2>5 DEF len
<1>2. Len(s) \in 1 .. Len(s) /\ \A k \in 1 .. Len(s) - 1 : k \in 1 .. Len(s) /\ k < Len(s)
  BY <1>1
<1>3. last \in Parts
  BY <1>2
<1> HIDE DEF f
<1>4. Descending(f, n) /\ \A k \in 1 .. Len(f) : last.stop <= f[k].start
  BY <1>1, <1>2 DEF Descending
<1>5. last.start <= last.stop /\ last.stop <= n
  BY <1>2 DEF Descending
<1>6. ASSUME NEW p
      PROVE  p \in SetOf(s) <=> p \in SetOf(f) \/ p = last
  <2>1. \A k \in 1 .. Len(s) : k = Len(s) \/ k \in 1 .. Len(s) - 1
    BY <1>1
  <2> QED BY <1>1, <1>2, <2>1 DEF SetOf
<1> QED BY <1>1, <1>3, <1>4, <1>5, <1>6 DEF f

LEMMA CallsAdded ==
  ASSUME NEW s \in Seq(Parts), NEW n \in Nat, Descending(s, n),
         NEW r \in Parts, NEW l \in Parts,
         l.start <= l.stop, l.stop <= r.start, r.start <= r.stop, r.stop <= n,
         \A k \in 1 .. Len(s) : r.stop <= s[k].start
  PROVE  /\ s \o <<r, l>> \in Seq(Parts) /\ Descending(s \o <<r, l>>, n)
         /\ \A p : p \in SetOf(s \o <<r, l>>) <=> p \in SetOf(s) \/ p = r \/ p = l
<1> DEFINE t == s \o <<r, l>>
           len == Len(s)
<1>1. /\ t \in Seq(Parts) /\ Len(t) = len + 2 /\ len \in Nat
      /\ \A k \in 1 .. len : t[k] = s[k]
      /\ t[len + 1] = r /\ t[len + 2] = l
  <2>1. <<r, l>> \in Seq(Parts) /\ Len(<<r, l>>) = 2 /\ <<r, l>>[1] = r /\ <<r, l>>[2] = l
    OBVIOUS
  <2> QED BY <2>1, ConcatProperties
<1> HIDE DEF t
<1>2. /\ \A k \in 1 .. len + 2 : k \in 1 .. len \/ k = len + 1 \/ k = len + 2
      /\ len + 1 \in 1 .. len + 2 /\ len + 2 \in 1 .. len + 2
      /\ \A k \in 1 .. len : k \in 1 .. len + 2
  BY <1>1
<1>3. Descending(t, n)
  <2>1. \A k \in 1 .. len : /\ s[k].start \in Nat /\ s[k].stop \in Nat
                            /\ s[k].start <= s[k].stop /\ s[k].stop <= n
                            /\ r.stop <= s[k].start
    <3>1. \A k \in 1 .. len : s[k] \in Parts
      BY ElementOfSeq
    <3> QED BY <3>1 DEF Descending, Parts
  <2>2. r.start \in Nat /\ r.stop \in Nat /\ l.start \in Nat /\ l.stop \in Nat
    BY DEF Parts
  <2>3. \A k \in 1 .. len : l.stop <= s[k].start
    BY <2>1, <2>2
  <2>4. l.stop <= n
    BY <2>2
  <2>5. ASSUME NEW k \in 1 .. Len(t)
        PROVE  t[k].start <= t[k].stop /\ t[k].stop <= n
    BY <1>1, <1>2, <2>1, <2>4
  <2>6. ASSUME NEW k \in 1 .. Len(t), NEW m \in 1 .. Len(t), k < m
        PROVE  t[m].stop <= t[k].start
    <3>1. CASE k \in 1 .. len /\ m \in 1 .. len
      BY <1>1, <2>6, <3>1 DEF Descending
    <3>2. CASE k \in 1 .. len /\ m \notin 1 .. len
      BY <1>1, <1>2, <2>1, <2>3, <3>2
    <3>3. CASE k \notin 1 .. len
      <4>1. k = len + 1 /\ m = len + 2
        BY <1>1, <1>2, <2>6, <3>3
      <4> QED BY <4>1, <1>1
    <3> QED BY <3>1, <3>2, <3>3
  <2> QED BY <2>5, <2>6 DEF Descending
<1>4. ASSUME NEW p
      PROVE  p \in SetOf(t) <=> p \in SetOf(s) \/ p = r \/ p = l
  BY <1>1, <1>2 DEF SetOf
<1> QED BY <1>1, <1>3, <1>4 DEF t

--------------------------------------------------------------------------------
(* The invariant.                                                                 *)

Calls == [start : Nat, stop : Nat, pivot : Int, pivot_index : Nat,
          begin_index : Nat, end_index : Int]

SorterShape ==
  /\ given \in Seq(Int) /\ data \in Seq(Int) /\ Len(data) = Len(given)
  /\ rest \in Seq(Parts) /\ Descending(rest, Len(data))
  /\ call \in Calls
  /\ ~Returned =>
       /\ call.start <= call.begin_index /\ call.end_index < call.stop
       /\ call.start <= call.pivot_index /\ call.pivot_index < call.stop
       /\ call.stop <= Len(data)
       /\ \A k \in 1 .. Len(rest) : call.stop <= rest[k].start

CallPart == [start |-> call.start, stop |-> call.stop]

\* What is still to be sorted.
Open == SetOf(rest) \cup (IF Returned THEN {} ELSE {CallPart})

\* The elements before begin_index are less than the pivot, the ones behind
\* end_index greater, and the pivot is between them.
Partitioned ==
  /\ call.begin_index <= call.pivot_index /\ call.pivot_index <= call.end_index
  /\ At(call.pivot_index) = call.pivot
  /\ \A i \in 1 .. Len(data) :
       Inside(CallPart, i) =>
         /\ i <= call.begin_index => data[i] < call.pivot
         /\ i > call.end_index + 1 => data[i] > call.pivot

SorterInv ==
  /\ SorterShape
  /\ Rearranged(data, given)
  /\ IsInjective(given) =>
       /\ OrderedApart(data, Open)
       /\ ~Returned => Partitioned

LEMMA OpenApart ==
  ASSUME SorterShape PROVE PartsApart(Open, Len(data))
<1>1. \A k \in 1 .. Len(rest) :
        /\ rest[k] \in Parts /\ rest[k].start <= rest[k].stop /\ rest[k].stop <= Len(data)
  <2>1. \A k \in 1 .. Len(rest) : rest[k] \in Parts
    BY ElementOfSeq DEF SorterShape
  <2> QED BY <2>1 DEF SorterShape, Descending
<1>2. \A k, m \in 1 .. Len(rest) :
        rest[k] = rest[m] \/ rest[m].stop <= rest[k].start \/ rest[k].stop <= rest[m].start
  <2> TAKE k, m \in 1 .. Len(rest)
  <2>1. k \in Int /\ m \in Int
    BY DEF SorterShape
  <2>2. k < m \/ m < k \/ k = m
    BY <2>1
  <2> QED BY <2>2 DEF SorterShape, Descending
<1>3. ASSUME ~Returned
      PROVE  /\ CallPart \in Parts /\ CallPart.start <= CallPart.stop
             /\ CallPart.stop <= Len(data)
             /\ \A k \in 1 .. Len(rest) : CallPart.stop <= rest[k].start
  BY <1>3 DEF SorterShape, CallPart, Parts, Calls
<1>4. ASSUME NEW p \in Open PROVE p \in Parts /\ p.start <= p.stop /\ p.stop <= Len(data)
  BY <1>1, <1>3 DEF Open, SetOf
<1>5. ASSUME NEW p \in Open, NEW q \in Open
      PROVE  p = q \/ p.stop <= q.start \/ q.stop <= p.start
  <2>1. CASE p \in SetOf(rest) /\ q \in SetOf(rest)
    BY <1>2, <2>1 DEF SetOf
  <2>2. CASE p \notin SetOf(rest) /\ q \in SetOf(rest)
    BY <1>3, <2>2 DEF Open, SetOf
  <2>3. CASE p \in SetOf(rest) /\ q \notin SetOf(rest)
    BY <1>3, <2>3 DEF Open, SetOf
  <2>4. CASE p \notin SetOf(rest) /\ q \notin SetOf(rest)
    BY <2>4 DEF Open
  <2> QED BY <2>1, <2>2, <2>3, <2>4
<1> QED BY <1>4, <1>5 DEF PartsApart

LEMMA SorterStarts == SorterInit => SorterInv
<1> SUFFICES ASSUME SorterInit PROVE SorterInv
  OBVIOUS
<1>1. /\ given \in Seq(Int) /\ data = given /\ call = NoCall
      /\ rest = <<[start |-> 0, stop |-> Len(given)]>>
  BY ListsAssumption DEF SorterInit
<1>2. Returned /\ call \in Calls
  BY <1>1 DEF Returned, NoCall, Calls
<1> DEFINE all == [start |-> 0, stop |-> Len(given)]
<1>3. all \in Parts /\ Len(given) \in Nat /\ all.start = 0 /\ all.stop = Len(given)
  BY <1>1 DEF Parts
<1> HIDE DEF all
<1>4. rest \in Seq(Parts) /\ Len(rest) = 1 /\ rest[1] = all
  BY <1>1, <1>3 DEF all
<1>5. Descending(rest, Len(data))
  BY <1>1, <1>3, <1>4 DEF Descending
<1>6. OrderedApart(data, Open)
  <2>1. all \in Open
    BY <1>4 DEF Open, SetOf
  <2>2. \A i \in 1 .. Len(data) : Inside(all, i)
    BY <1>1, <1>3 DEF Inside
  <2> QED BY <2>1, <2>2 DEF OrderedApart
<1> QED BY <1>1, <1>2, <1>4, <1>5, <1>6, RearrangedSame DEF SorterInv, SorterShape

\* The elements are integers, and differ when the given ones do.
LEMMA Elements ==
  ASSUME SorterInv
  PROVE  /\ Len(data) \in Nat /\ \A i \in 1 .. Len(data) : data[i] \in Int
         /\ IsInjective(given) => \A i, j \in 1 .. Len(data) : data[i] = data[j] => i = j
BY RearrangedDiffer DEF SorterInv, SorterShape

\* sort_swap within a part.
LEMMA SwapInPart ==
  ASSUME SorterInv, NEW part \in Open, NEW x \in Nat, NEW y \in Nat,
         part.start <= x, x < part.stop, part.start <= y, y < part.stop,
         data' = Swapped(x, y)
  PROVE  /\ x + 1 \in 1 .. Len(data) /\ y + 1 \in 1 .. Len(data)
         /\ Exchanged(data, data', x + 1, y + 1)
         /\ Rearranged(data', given)
         /\ IsInjective(given) => OrderedApart(data', Open)
<1>1. /\ data \in Seq(Int) /\ Len(data) \in Nat /\ given \in Seq(Int)
      /\ PartsApart(Open, Len(data)) /\ Rearranged(data, given)
  BY OpenApart, Elements DEF SorterInv, SorterShape
<1>2. part.start \in Nat /\ part.stop \in Nat /\ part.stop <= Len(data)
  BY <1>1 DEF PartsApart, Parts
<1>3. x + 1 \in 1 .. Len(data) /\ y + 1 \in 1 .. Len(data)
  BY <1>1, <1>2
<1>4. Inside(part, x + 1) /\ Inside(part, y + 1)
  BY <1>2 DEF Inside
<1>5. Exchanged(data, data', x + 1, y + 1)
  <2>1. data' = [data EXCEPT ![x + 1] = data[y + 1], ![y + 1] = data[x + 1]]
    BY DEF Swapped, At
  <2> QED BY <2>1, <1>1, <1>3, SwapExchanges
<1>6. Rearranged(data', given)
  BY <1>1, <1>3, <1>5, RearrangedSwap
<1>7. IsInjective(given) => OrderedApart(data', Open)
  <2> SUFFICES ASSUME IsInjective(given) PROVE OrderedApart(data', Open)
    OBVIOUS
  <2>1. OrderedApart(data, Open)
    BY DEF SorterInv
  <2> QED BY <2>1, <1>1, <1>3, <1>4, <1>5, ExchangeInPart
<1> QED BY <1>3, <1>5, <1>6, <1>7

\* The first call to make is taken.
LEMMA NextCall ==
  ASSUME SorterInv, Returned, rest # <<>>, rest' = Front(rest)
  PROVE  /\ rest' \in Seq(Parts) /\ Descending(rest', Len(data))
         /\ Part \in Parts /\ Part \in Open /\ Part.start <= Part.stop /\ Part.stop <= Len(data)
         /\ Part.start \in Nat /\ Part.stop \in Nat
         /\ \A k \in 1 .. Len(rest') : Part.stop <= rest'[k].start
         /\ \A p : p \in Open <=> p \in SetOf(rest') \/ p = Part
<1>1. rest \in Seq(Parts) /\ Descending(rest, Len(data)) /\ Len(data) \in Nat
  BY Elements DEF SorterInv, SorterShape
<1>2. /\ rest' \in Seq(Parts) /\ Descending(rest', Len(data))
      /\ Part \in Parts /\ Part.start <= Part.stop /\ Part.stop <= Len(data)
      /\ \A k \in 1 .. Len(rest') : Part.stop <= rest'[k].start
      /\ \A p : p \in SetOf(rest) <=> p \in SetOf(rest') \/ p = Part
  BY <1>1, CallTaken DEF Part
<1>3. Open = SetOf(rest)
  BY DEF Open
<1> QED BY <1>2, <1>3 DEF Parts

LEMMA SorterShort ==
  ASSUME SorterInv, SortShort PROVE SorterInv'
<1>1. /\ Returned /\ rest # <<>> /\ rest' = Front(rest) /\ Part.stop - Part.start < 2
      /\ UNCHANGED <<given, data, call>>
  BY DEF SortShort
<1>2. /\ rest' \in Seq(Parts) /\ Descending(rest', Len(data))
      /\ Part.start \in Nat /\ Part.stop \in Nat
      /\ \A p \in Open : p \in SetOf(rest') \/ p = Part
  BY <1>1, NextCall
<1>3. Returned' /\ Open' = SetOf(rest')
  BY <1>1 DEF Returned, Open
<1>4. SorterShape'
  BY <1>1, <1>2, <1>3 DEF SorterInv, SorterShape
<1>5. ASSUME IsInjective(given) PROVE OrderedApart(data, SetOf(rest'))
  <2>1. OrderedApart(data, Open)
    BY <1>5 DEF SorterInv
  <2>2. ASSUME NEW i \in 1 .. Len(data), NEW j \in 1 .. Len(data), i < j
        PROVE  ~(Inside(Part, i) /\ Inside(Part, j))
    <3>1. i \in Int /\ j \in Int
      BY Elements
    <3> QED BY <1>1, <1>2, <2>2, <3>1 DEF Inside
  <2> QED BY <2>1, <2>2, <1>2, PartDone
<1> QED BY <1>1, <1>3, <1>4, <1>5 DEF SorterInv

LEMMA SorterTwo ==
  ASSUME SorterInv, SortTwo PROVE SorterInv'
<1> SUFFICES ASSUME NEW x, x = Part.start PROVE SorterInv'
  OBVIOUS
<1>1. /\ Returned /\ rest # <<>> /\ rest' = Front(rest) /\ Part.stop - Part.start = 2
      /\ data' = IF At(x) > At(Part.stop - 1) THEN Swapped(x, Part.stop - 1) ELSE data
      /\ UNCHANGED <<given, call>>
  BY DEF SortTwo
<1>2. /\ rest' \in Seq(Parts) /\ Descending(rest', Len(data))
      /\ Part \in Open /\ x \in Nat /\ Part.stop \in Nat /\ Part.stop <= Len(data)
      /\ \A p \in Open : p \in SetOf(rest') \/ p = Part
  BY <1>1, NextCall
<1>3. Part.stop - 1 = x + 1 /\ Part.stop = x + 2
  BY <1>1, <1>2
<1>4. Returned' /\ Open' = SetOf(rest')
  BY <1>1 DEF Returned, Open
<1>5. /\ x + 1 \in 1 .. Len(data) /\ x + 2 \in 1 .. Len(data)
      /\ data[x + 1] \in Int /\ data[x + 2] \in Int /\ Len(data) \in Nat
  <2>1. x + 1 \in 1 .. Len(data) /\ x + 2 \in 1 .. Len(data)
    BY <1>2, <1>3, Elements
  <2> QED BY <2>1, Elements
<1>6. At(x) = data[x + 1] /\ At(x + 1) = data[x + 2]
  <2>1. x + 1 + 1 = x + 2
    BY <1>2
  <2> QED BY <2>1 DEF At
<1>7. /\ data' \in Seq(Int) /\ Len(data') = Len(data) /\ Rearranged(data', given)
      /\ IsInjective(given) => OrderedApart(data', Open)
      /\ data'[x + 1] <= data'[x + 2] /\ data'[x + 1] \in Int /\ data'[x + 2] \in Int
  <2>1. CASE At(x) > At(x + 1)
    <3>1. data' = Swapped(x, x + 1)
      BY <1>1, <1>3, <2>1
    <3>2. x < Part.stop /\ x <= x + 1 /\ x + 1 < Part.stop /\ x + 1 \in Nat /\ x + 1 + 1 = x + 2
      BY <1>2, <1>3
    <3>3. /\ Exchanged(data, data', x + 1, x + 1 + 1) /\ Rearranged(data', given)
          /\ IsInjective(given) => OrderedApart(data', Open)
      BY <1>2, <3>1, <3>2, SwapInPart
    <3> QED BY <1>5, <1>6, <2>1, <3>2, <3>3 DEF Exchanged
  <2>2. CASE ~(At(x) > At(x + 1))
    <3>1. data' = data
      BY <1>1, <1>3, <2>2
    <3>2. /\ data \in Seq(Int) /\ Rearranged(data, given)
          /\ IsInjective(given) => OrderedApart(data, Open)
      BY DEF SorterInv, SorterShape
    <3>3. data[x + 1] <= data[x + 2]
      BY <1>5, <1>6, <2>2
    <3> QED BY <1>5, <3>1, <3>2, <3>3
  <2> QED BY <2>1, <2>2
<1>8. SorterShape'
  BY <1>1, <1>2, <1>4, <1>7 DEF SorterInv, SorterShape
<1>9. ASSUME IsInjective(given) PROVE OrderedApart(data', SetOf(rest'))
  <2>1. OrderedApart(data', Open)
    BY <1>7, <1>9
  <2>2. data'[x + 1] # data'[x + 2]
    <3>1. \A i, j \in 1 .. Len(data') : data'[i] = data'[j] => i = j
      BY <1>7, <1>9, RearrangedDiffer DEF SorterInv, SorterShape
    <3>2. x + 1 # x + 2
      BY <1>2
    <3> QED BY <1>5, <1>7, <3>1, <3>2
  <2>3. ASSUME NEW i \in 1 .. Len(data'), NEW j \in 1 .. Len(data'), i < j,
               Inside(Part, i), Inside(Part, j)
        PROVE  data'[i] < data'[j]
    <3>1. i = x + 1 /\ j = x + 2
      <4>1. i \in Int /\ j \in Int
        BY <1>5, <1>7
      <4> QED BY <1>2, <1>3, <2>3, <4>1 DEF Inside
    <3> QED BY <3>1, <2>2, <1>7
  <2> QED BY <2>1, <2>3, <1>2, PartDone
<1> QED BY <1>1, <1>4, <1>7, <1>8, <1>9 DEF SorterInv

\* A call begins with all of its part unknown, and the pivot at the end of it.
LEMMA SorterBegin ==
  ASSUME SorterInv, SortBegin PROVE SorterInv'
<1>1. /\ Returned /\ rest # <<>> /\ rest' = Front(rest) /\ Part.stop - Part.start > 2
      /\ call' = [start |-> Part.start, stop |-> Part.stop,
                  pivot |-> At(Part.stop - 1), pivot_index |-> Part.stop - 1,
                  begin_index |-> Part.start, end_index |-> Part.stop - 1]
      /\ UNCHANGED <<given, data>>
  BY DEF SortBegin
<1>2. /\ rest' \in Seq(Parts) /\ Descending(rest', Len(data))
      /\ Part \in Parts /\ Part.start \in Nat /\ Part.stop \in Nat /\ Part.stop <= Len(data)
      /\ \A k \in 1 .. Len(rest') : Part.stop <= rest'[k].start
      /\ \A p : p \in Open <=> p \in SetOf(rest') \/ p = Part
  BY <1>1, NextCall
<1>3. Part.stop - 1 \in Nat /\ Part.stop - 1 + 1 = Part.stop /\ Part.stop - 1 + 1 \in 1 .. Len(data)
  BY <1>1, <1>2, Elements
<1>4. At(Part.stop - 1) \in Int
  BY <1>3, Elements DEF At
<1>5. /\ call' \in Calls /\ ~Returned' /\ CallPart' = Part
      /\ call'.begin_index = Part.start /\ call'.end_index = Part.stop - 1
      /\ call'.pivot_index = Part.stop - 1 /\ call'.pivot = At(Part.stop - 1)
      /\ call'.start = Part.start /\ call'.stop = Part.stop
  <2>1. call' \in Calls
    BY <1>1, <1>2, <1>3, <1>4 DEF Calls
  <2>2. Part.stop # 0
    BY <1>1, <1>2
  <2>3. CallPart' = Part
    BY <1>1, <1>2 DEF CallPart, Parts
  <2> QED BY <1>1, <2>1, <2>2, <2>3 DEF Returned
<1>6. Open' = Open
  BY <1>2, <1>5 DEF Open
<1>7. SorterShape'
  <2>1. /\ Part.start <= Part.start /\ Part.stop - 1 < Part.stop
        /\ Part.start <= Part.stop - 1
    BY <1>1, <1>2
  <2> QED BY <1>1, <1>2, <1>5, <2>1 DEF SorterInv, SorterShape
<1>8. Partitioned'
  <2>1. ASSUME NEW i \in 1 .. Len(data), Inside(Part, i)
        PROVE  ~(i <= Part.start) /\ ~(i > Part.stop - 1 + 1)
    BY <1>2, <2>1, Elements DEF Inside
  <2>2. At(call.pivot_index)' = call'.pivot
    BY <1>1, <1>5 DEF At
  <2>3. Part.start <= Part.stop - 1 /\ Part.stop - 1 <= Part.stop - 1
    BY <1>1, <1>2
  <2> QED BY <1>1, <1>5, <2>1, <2>2, <2>3 DEF Partitioned
<1> QED BY <1>1, <1>6, <1>7, <1>8 DEF SorterInv

\* The indices of a running call.
LEMMA RunningCall ==
  ASSUME SorterInv, Partitioning
  PROVE  /\ ~Returned /\ CallPart \in Open /\ call \in Calls
         /\ CallPart.start = call.start /\ CallPart.stop = call.stop
         /\ call.start \in Nat /\ call.stop \in Nat /\ call.begin_index \in Nat
         /\ call.end_index \in Nat /\ call.pivot_index \in Nat /\ call.pivot \in Int
         /\ call.start <= call.begin_index /\ call.begin_index < call.end_index
         /\ call.end_index < call.stop /\ call.stop <= Len(data)
         /\ call.start <= call.pivot_index /\ call.pivot_index < call.stop
         /\ \A k \in 1 .. Len(rest) : call.stop <= rest[k].start
         /\ call.begin_index + 1 \in 1 .. Len(data) /\ call.end_index + 1 \in 1 .. Len(data)
         /\ At(call.begin_index) = data[call.begin_index + 1]
         /\ At(call.end_index) = data[call.end_index + 1]
         /\ At(call.begin_index) \in Int /\ At(call.end_index) \in Int
<1>1. /\ ~Returned /\ call.begin_index < call.end_index /\ call \in Calls
      /\ call.start <= call.begin_index /\ call.end_index < call.stop
      /\ call.start <= call.pivot_index /\ call.pivot_index < call.stop
      /\ call.stop <= Len(data)
      /\ \A k \in 1 .. Len(rest) : call.stop <= rest[k].start
  BY DEF Partitioning, SorterInv, SorterShape
<1>2. /\ call.start \in Nat /\ call.stop \in Nat /\ call.begin_index \in Nat
      /\ call.end_index \in Int /\ call.pivot_index \in Nat /\ call.pivot \in Int
  BY <1>1 DEF Calls
<1>3. call.end_index \in Nat
  BY <1>1, <1>2
<1>4. call.begin_index + 1 \in 1 .. Len(data) /\ call.end_index + 1 \in 1 .. Len(data)
  BY <1>1, <1>2, <1>3, Elements
<1>5. At(call.begin_index) \in Int /\ At(call.end_index) \in Int
  BY <1>4, Elements DEF At
<1>6. CallPart \in Open
  BY <1>1 DEF Open
<1> QED BY <1>1, <1>2, <1>3, <1>4, <1>5, <1>6 DEF CallPart, At

LEMMA SorterStepBegin ==
  ASSUME SorterInv, StepBegin PROVE SorterInv'
<1> SUFFICES ASSUME NEW b, b = call.begin_index, NEW e, e = call.end_index PROVE SorterInv'
  OBVIOUS
<1>1. /\ Partitioning /\ At(b) < call.pivot
      /\ call' = [call EXCEPT !.begin_index = b + 1]
      /\ UNCHANGED <<given, data, rest>>
  BY DEF StepBegin
<1>2. /\ call' \in Calls /\ call'.begin_index = b + 1
      /\ call'.start = call.start /\ call'.stop = call.stop /\ call'.end_index = e
      /\ call'.pivot = call.pivot /\ call'.pivot_index = call.pivot_index
  <2>1. call \in Calls /\ b + 1 \in Nat
    BY <1>1, RunningCall
  <2> QED BY <1>1, <2>1 DEF Calls
<1>3. ~Returned' /\ CallPart' = CallPart /\ Open' = Open
  BY <1>1, <1>2, RunningCall DEF Returned, CallPart, Open
<1>4. SorterShape'
  <2>1. call.start <= b + 1
    BY <1>1, RunningCall
  <2> QED BY <1>1, <1>2, <1>3, <2>1, RunningCall DEF SorterInv, SorterShape
<1>5. ASSUME IsInjective(given) PROVE Partitioned'
  <2>1. Partitioned
    BY <1>1, <1>5, RunningCall DEF SorterInv
  <2>2. b # call.pivot_index /\ b + 1 <= call.pivot_index
    <3>1. /\ b \in Nat /\ call.pivot_index \in Nat /\ call.pivot \in Int /\ At(b) \in Int
      BY <1>1, RunningCall
    <3>2. b <= call.pivot_index /\ At(call.pivot_index) = call.pivot
      BY <2>1 DEF Partitioned
    <3>3. b # call.pivot_index
      BY <1>1, <3>1, <3>2
    <3> QED BY <3>1, <3>2, <3>3
  <2>3. ASSUME NEW i \in 1 .. Len(data), Inside(CallPart, i), i <= b + 1
        PROVE  data[i] < call.pivot
    <3>1. CASE i = b + 1
      BY <1>1, <3>1, RunningCall
    <3>2. CASE i # b + 1
      <4>1. i <= b
        BY <1>1, <2>3, <3>2, RunningCall, Elements
      <4> QED BY <2>1, <2>3, <4>1 DEF Partitioned
    <3> QED BY <3>1, <3>2
  <2>4. At(call.pivot_index)' = At(call.pivot_index)
    BY <1>1, <1>2 DEF At
  <2> QED BY <1>1, <1>2, <1>3, <2>1, <2>2, <2>3, <2>4 DEF Partitioned
<1> QED BY <1>1, <1>3, <1>4, <1>5 DEF SorterInv

LEMMA SorterStepEnd ==
  ASSUME SorterInv, StepEnd PROVE SorterInv'
<1> SUFFICES ASSUME NEW b, b = call.begin_index, NEW e, e = call.end_index PROVE SorterInv'
  OBVIOUS
<1>1. /\ Partitioning /\ At(e) > call.pivot
      /\ call' = [call EXCEPT !.end_index = e - 1]
      /\ UNCHANGED <<given, data, rest>>
  BY DEF StepEnd
<1>2. /\ call' \in Calls /\ call'.end_index = e - 1
      /\ call'.start = call.start /\ call'.stop = call.stop /\ call'.begin_index = b
      /\ call'.pivot = call.pivot /\ call'.pivot_index = call.pivot_index
  <2>1. call \in Calls /\ e - 1 \in Int
    BY <1>1, RunningCall
  <2> QED BY <1>1, <2>1 DEF Calls
<1>3. ~Returned' /\ CallPart' = CallPart /\ Open' = Open
  BY <1>1, <1>2, RunningCall DEF Returned, CallPart, Open
<1>4. SorterShape'
  <2>1. e - 1 < call.stop
    BY <1>1, RunningCall
  <2> QED BY <1>1, <1>2, <1>3, <2>1, RunningCall DEF SorterInv, SorterShape
<1>5. ASSUME IsInjective(given) PROVE Partitioned'
  <2>1. Partitioned
    BY <1>1, <1>5, RunningCall DEF SorterInv
  <2>2. e # call.pivot_index /\ call.pivot_index <= e - 1
    <3>1. /\ e \in Nat /\ call.pivot_index \in Nat /\ call.pivot \in Int /\ At(e) \in Int
      BY <1>1, RunningCall
    <3>2. call.pivot_index <= e /\ At(call.pivot_index) = call.pivot
      BY <2>1 DEF Partitioned
    <3>3. e # call.pivot_index
      BY <1>1, <3>1, <3>2
    <3> QED BY <3>1, <3>2, <3>3
  <2>3. ASSUME NEW i \in 1 .. Len(data), Inside(CallPart, i), i > e - 1 + 1
        PROVE  data[i] > call.pivot
    <3>1. CASE i = e + 1
      BY <1>1, <3>1, RunningCall
    <3>2. CASE i # e + 1
      <4>1. i > e + 1
        BY <1>1, <2>3, <3>2, RunningCall, Elements
      <4> QED BY <2>1, <2>3, <4>1 DEF Partitioned
    <3> QED BY <3>1, <3>2
  <2>4. At(call.pivot_index)' = At(call.pivot_index)
    BY <1>1, <1>2 DEF At
  <2> QED BY <1>1, <1>2, <1>3, <2>1, <2>2, <2>3, <2>4 DEF Partitioned
<1> QED BY <1>1, <1>3, <1>4, <1>5 DEF SorterInv

\* Equal elements face each other in arrays with equal elements only.
LEMMA SorterStepBoth ==
  ASSUME SorterInv, StepBoth PROVE SorterInv'
<1> SUFFICES ASSUME NEW b, b = call.begin_index, NEW e, e = call.end_index PROVE SorterInv'
  OBVIOUS
<1>1. /\ Partitioning /\ At(b) = At(e)
      /\ call' = [call EXCEPT !.begin_index = b + 1, !.end_index = e - 1]
      /\ UNCHANGED <<given, data, rest>>
  BY DEF StepBoth, Facing
<1>2. /\ call' \in Calls /\ call'.end_index = e - 1 /\ call'.begin_index = b + 1
      /\ call'.start = call.start /\ call'.stop = call.stop
      /\ call'.pivot = call.pivot /\ call'.pivot_index = call.pivot_index
  <2>1. call \in Calls /\ e - 1 \in Int /\ b + 1 \in Nat
    BY <1>1, RunningCall
  <2> QED BY <1>1, <2>1 DEF Calls
<1>3. ~Returned'
  BY <1>1, <1>2, RunningCall DEF Returned
<1>4. SorterShape'
  <2>1. e - 1 < call.stop /\ call.start <= b + 1
    BY <1>1, RunningCall
  <2> QED BY <1>1, <1>2, <1>3, <2>1, RunningCall DEF SorterInv, SorterShape
<1>5. ~IsInjective(given)
  <2>1. /\ b + 1 \in 1 .. Len(data) /\ e + 1 \in 1 .. Len(data)
        /\ data[b + 1] = data[e + 1]
    BY <1>1, RunningCall
  <2>2. b + 1 # e + 1
    BY <1>1, RunningCall
  <2> QED BY <2>1, <2>2, Elements
<1> QED BY <1>1, <1>4, <1>5 DEF SorterInv

\* The elements that change places are of the part that is sorted, and the pivot
\* stays between the indices.
LEMMA SorterSwap ==
  ASSUME SorterInv, Swap PROVE SorterInv'
<1> SUFFICES ASSUME NEW b, b = call.begin_index, NEW e, e = call.end_index,
                    NEW p, p = call.pivot_index
             PROVE  SorterInv'
  OBVIOUS
<1> DEFINE q == IF p = b THEN e ELSE IF p = e THEN b ELSE p
<1>1. /\ Partitioning /\ data' = Swapped(b, e) /\ call' = [call EXCEPT !.pivot_index = q]
      /\ UNCHANGED <<given, rest>>
  BY DEF Swap, Facing
<1>2. /\ b \in Nat /\ e \in Nat /\ p \in Nat /\ b < e
      /\ call.start \in Nat /\ call.stop \in Nat
      /\ call.start <= b /\ e < call.stop /\ call.start <= p /\ p < call.stop
      /\ b < call.stop /\ call.start <= e
  <2>1. /\ b \in Nat /\ e \in Nat /\ p \in Nat /\ b < e
        /\ call.start \in Nat /\ call.stop \in Nat
        /\ call.start <= b /\ e < call.stop /\ call.start <= p /\ p < call.stop
    BY <1>1, RunningCall
  <2> QED BY <2>1
<1>3. q \in Nat /\ call.start <= q /\ q < call.stop
  BY <1>2
<1>4. /\ b + 1 \in 1 .. Len(data) /\ e + 1 \in 1 .. Len(data)
      /\ Exchanged(data, data', b + 1, e + 1)
      /\ Rearranged(data', given)
      /\ IsInjective(given) => OrderedApart(data', Open)
  BY <1>1, <1>2, RunningCall, SwapInPart
<1> HIDE DEF q
<1>5. /\ call' \in Calls /\ call'.end_index = e /\ call'.begin_index = b
      /\ call'.start = call.start /\ call'.stop = call.stop
      /\ call'.pivot = call.pivot /\ call'.pivot_index = q
  <2>1. call \in Calls
    BY <1>1, RunningCall
  <2> QED BY <1>1, <1>3, <2>1 DEF Calls
<1>6. ~Returned' /\ CallPart' = CallPart /\ Open' = Open
  BY <1>1, <1>5, RunningCall DEF Returned, CallPart, Open
<1>7. SorterShape'
  <2>1. data' \in Seq(Int) /\ Len(data') = Len(data)
    BY <1>4 DEF Exchanged
  <2> QED BY <1>1, <1>2, <1>3, <1>5, <1>6, <2>1, RunningCall DEF SorterInv, SorterShape
<1>8. ASSUME IsInjective(given) PROVE Partitioned'
  <2>1. Partitioned
    BY <1>1, <1>8, RunningCall DEF SorterInv
  <2>2. b <= p /\ p <= e /\ data[p + 1] = call.pivot
    BY <2>1 DEF Partitioned, At
  <2>3. b <= q /\ q <= e
    BY <1>2, <2>2 DEF q
  <2>4. /\ data'[b + 1] = data[e + 1] /\ data'[e + 1] = data[b + 1]
        /\ \A i \in 1 .. Len(data) : i # b + 1 /\ i # e + 1 => data'[i] = data[i]
        /\ Len(data') = Len(data)
    BY <1>4 DEF Exchanged
  <2>5. data'[q + 1] = call.pivot
    <3>1. CASE p = b
      BY <2>2, <2>4, <3>1 DEF q
    <3>2. CASE p # b /\ p = e
      BY <2>2, <2>4, <3>2 DEF q
    <3>3. CASE p # b /\ p # e
      <4>1. q = p /\ p + 1 # b + 1 /\ p + 1 # e + 1
        BY <1>2, <3>3 DEF q
      <4>2. p + 1 \in 1 .. Len(data)
        BY <1>2, <1>4, <2>2, Elements
      <4> QED BY <2>2, <2>4, <4>1, <4>2
    <3> QED BY <3>1, <3>2, <3>3
  <2>6. ASSUME NEW i \in 1 .. Len(data), Inside(CallPart, i)
        PROVE  /\ i <= b => data'[i] < call.pivot
               /\ i > e + 1 => data'[i] > call.pivot
    <3>1. i <= b \/ i > e + 1 => i # b + 1 /\ i # e + 1
      BY <1>2, Elements
    <3>2. i <= b \/ i > e + 1 => data'[i] = data[i]
      BY <2>4, <3>1
    <3> QED BY <2>1, <2>6, <3>2 DEF Partitioned
  <2>7. At(call.pivot_index)' = call.pivot
    BY <1>5, <2>5 DEF At
  <2> QED BY <1>5, <1>6, <2>3, <2>4, <2>6, <2>7 DEF Partitioned
<1> QED BY <1>1, <1>4, <1>6, <1>7, <1>8 DEF SorterInv

\* Where the indices meet is the pivot, and the parts on its two sides are left.
LEMMA SorterParts ==
  ASSUME SorterInv, SortParts PROVE SorterInv'
<1> SUFFICES ASSUME NEW p, p = call.pivot_index PROVE SorterInv'
  OBVIOUS
<1> DEFINE r == [start |-> p + 1, stop |-> call.stop]
           l == [start |-> call.start, stop |-> p]
<1>1. /\ ~Returned /\ call.begin_index >= call.end_index
      /\ rest' = rest \o <<r, l>> /\ call' = NoCall
      /\ UNCHANGED <<given, data>>
  BY DEF SortParts
<1>2. /\ rest \in Seq(Parts) /\ Descending(rest, Len(data)) /\ Len(data) \in Nat
      /\ call \in Calls /\ call.start <= p /\ p < call.stop /\ call.stop <= Len(data)
      /\ \A k \in 1 .. Len(rest) : call.stop <= rest[k].start
  BY <1>1, Elements DEF SorterInv, SorterShape
<1>3. /\ call.start \in Nat /\ call.stop \in Nat /\ p \in Nat
      /\ call.begin_index \in Nat /\ call.end_index \in Int
  BY <1>2 DEF Calls
<1>4. /\ r \in Parts /\ l \in Parts
      /\ r.start = p + 1 /\ r.stop = call.stop /\ l.start = call.start /\ l.stop = p
  BY <1>3 DEF Parts
<1>5. l.start <= l.stop /\ l.stop <= r.start /\ r.start <= r.stop /\ r.stop <= Len(data)
  BY <1>2, <1>3, <1>4
<1> HIDE DEF r, l
<1>6. /\ rest' \in Seq(Parts) /\ Descending(rest', Len(data))
      /\ \A part : part \in SetOf(rest') <=> part \in SetOf(rest) \/ part = r \/ part = l
  BY <1>1, <1>2, <1>4, <1>5, CallsAdded
<1>7. Returned' /\ Open' = SetOf(rest') /\ NoCall \in Calls
  BY <1>1 DEF Returned, Open, NoCall, Calls
<1>8. SorterShape'
  BY <1>1, <1>2, <1>6, <1>7 DEF SorterInv, SorterShape
<1>9. ASSUME IsInjective(given) PROVE OrderedApart(data, SetOf(rest'))
  <2>1. Partitioned /\ OrderedApart(data, Open)
    BY <1>1, <1>9 DEF SorterInv
  <2>2. call.begin_index = p /\ call.end_index = p /\ data[p + 1] = call.pivot
    BY <1>1, <1>3, <2>1 DEF Partitioned, At
  <2>3. /\ \A i \in 1 .. Len(data) : Inside(CallPart, i) /\ i <= p => data[i] < data[p + 1]
        /\ \A i \in 1 .. Len(data) : Inside(CallPart, i) /\ i > p + 1 => data[i] > data[p + 1]
    BY <2>1, <2>2 DEF Partitioned
  <2>4. \A i \in 1 .. Len(data) : data[i] \in Int
    BY Elements
  <2>5. \A i \in 1 .. Len(data) :
          Inside(CallPart, i) /\ i > p + 1 => data[p + 1] < data[i]
    <3>1. p + 1 \in 1 .. Len(data)
      BY <1>2, <1>3
    <3> QED BY <2>3, <2>4, <3>1
  <2>6. CallPart \in Parts /\ CallPart.start = call.start /\ CallPart.stop = call.stop
    BY <1>3 DEF CallPart, Parts
  <2>7. /\ l \in SetOf(rest') /\ r \in SetOf(rest')
        /\ \A q \in Open : q \in SetOf(rest') \/ q = CallPart
    BY <1>1, <1>6 DEF Open
  <2> DEFINE part == CallPart
             divided == SetOf(rest')
             parts == Open
  <2>8. /\ part.start <= p /\ p < part.stop /\ part.stop <= Len(data)
        /\ l.start = part.start /\ l.stop = p /\ r.start = p + 1 /\ r.stop = part.stop
    BY <1>2, <1>4, <2>6
  <2>9. /\ part \in Parts /\ OrderedApart(data, parts) /\ l \in divided /\ r \in divided
        /\ \A q \in parts : q \in divided \/ q = part
        /\ \A i \in 1 .. Len(data) : Inside(part, i) /\ i <= p => data[i] < data[p + 1]
        /\ \A i \in 1 .. Len(data) : Inside(part, i) /\ i > p + 1 => data[p + 1] < data[i]
    BY <2>1, <2>3, <2>5, <2>6, <2>7
  <2> HIDE DEF part, divided, parts
  <2>10. Divides(data, part, p, l, r)
    BY <1>2, <1>3, <2>4, <2>8, <2>9 DEF Divides
  <2>11. OrderedApart(data, divided)
    BY <2>9, <2>10, PartDivided
  <2> QED BY <2>11 DEF divided
<1> QED BY <1>1, <1>7, <1>8, <1>9 DEF SorterInv

LEMMA SorterStays ==
  ASSUME SorterInv, UNCHANGED sorterVars PROVE SorterInv'
BY DEF SorterInv, SorterShape, Partitioned, CallPart, Open, Returned, At, sorterVars

\* What the invariant is for: an array without parts left to sort is in order.
LEMMA SorterIsRight ==
  ASSUME SorterInv PROVE SortsDistinct
<1>1. /\ given \in Seq(Int) /\ data \in Seq(Int) /\ Len(data) \in Nat
      /\ Rearranged(data, given)
  BY Elements DEF SorterInv, SorterShape
<1>2. \A x : Occurrences(data, x) = Occurrences(given, x)
  BY <1>1, RearrangedOccurs
<1>3. ASSUME Returned, rest = <<>>, IsInjective(given)
      PROVE  \A i, j \in DOMAIN data : i < j => data[i] < data[j]
  <2>1. Open = {}
    <3>1. Len(rest) = 0
      BY <1>3
    <3> QED BY <1>3, <3>1 DEF Open, SetOf
  <2>2. OrderedApart(data, Open)
    BY <1>3 DEF SorterInv
  <2>3. DOMAIN data = 1 .. Len(data)
    BY <1>1
  <2> QED BY <2>1, <2>2, <2>3 DEF OrderedApart
<1> QED BY <1>2, <1>3 DEF SortsDistinct

\* quick_sort loses no element and doubles none, and leaves an array whose elements
\* differ in order, whatever the array: the elements before begin_index are less than
\* the pivot, the ones behind end_index greater, and the pivot is followed when it
\* is itself exchanged (quick_sort, sort_swap).
THEOREM SortsDistinctArrays == SorterSpec => []SortsDistinct
<1>1. SorterInit => SorterInv
  BY SorterStarts
<1>2. SorterInv /\ [SorterNext]_sorterVars => SorterInv'
  <2> SUFFICES ASSUME SorterInv, [SorterNext]_sorterVars PROVE SorterInv'
    OBVIOUS
  <2>1. CASE SortShort
    BY <2>1, SorterShort
  <2>2. CASE SortTwo
    BY <2>2, SorterTwo
  <2>3. CASE SortBegin
    BY <2>3, SorterBegin
  <2>4. CASE StepBegin
    BY <2>4, SorterStepBegin
  <2>5. CASE StepEnd
    BY <2>5, SorterStepEnd
  <2>6. CASE StepBoth
    BY <2>6, SorterStepBoth
  <2>7. CASE Swap
    BY <2>7, SorterSwap
  <2>8. CASE SortParts
    BY <2>8, SorterParts
  <2>9. CASE UNCHANGED sorterVars
    BY <2>9, SorterStays
  <2> QED BY <2>1, <2>2, <2>3, <2>4, <2>5, <2>6, <2>7, <2>8, <2>9 DEF SorterNext
<1>3. SorterInv => SortsDistinct
  BY SorterIsRight
<1> QED BY <1>1, <1>2, <1>3, PTL DEF SorterSpec
================================================================================
