------------------------- MODULE DecodeOnPool_proofs -------------------------
(***************************************************************************)
(* llama_decode and the threads it computes on.  For a cache, ubatches and   *)
(* batches of any size: the positions in the cache have no gap, what         *)
(* llama_decode returns tells what became of the cache, and to its callers   *)
(* it is the memory of SequenceMemory.  For any number of threads, any graph *)
(* and any chunks: the barriers keep the threads in the same segment of the  *)
(* graph, so each part of each node is computed once and in order, and no    *)
(* wake-up is lost.  A decode on its threads does to the context and to the  *)
(* pool only what each of them does alone, so all of it holds there too.     *)
(***************************************************************************)
EXTENDS DecodeOnPool, FiniteSetTheorems, SequenceTheorems, WellFoundedInduction, TLAPS

-----------------------------------------------------------------------------
(* The context and the cache: LlamaContext *)

LEMMA Sizes == /\ Size \in Nat /\ Size >= 1 /\ UBatch \in Nat /\ UBatch >= 1 /\ MaxPos \in Nat
               /\ Cells = 0 .. Size - 1 /\ Positions = 0 .. MaxPos - 1 /\ Empty = -1
  BY SizeAssumption, CallersAssumption DEF Cells, Positions, Empty

\* A set of naturals has a least one: the induction the lemmas on data need.
LEMMA Least ==
  ASSUME NEW S, S \subseteq Nat, S # {}
  PROVE  \E n \in S : \A m \in S : n <= m
<1> DEFINE R == OpToRel(<, Nat)
<1>1. IsWellFoundedOn(R, Nat)
  BY NatLessThanWellFounded
<1>2. \A m, n \in Nat : m < n => <<m, n>> \in R
  BY DEF OpToRel
<1> HIDE DEF R
<1>3. PICK n \in S : \A m \in S : ~(<<m, n>> \in R)
  BY <1>1, WFMin
<1>4. \A m \in S : ~(m < n)
  BY <1>2, <1>3
<1> QED
  BY <1>3, <1>4

-----------------------------------------------------------------------------
(* A slot is found if and only if there are cells enough *)

\* The n elements of F that come first by r, in that order.
FirstBy(slot, n, F, r) ==
  /\ slot \in [1 .. n -> F]
  /\ \A i, j \in 1 .. n : i < j => r[slot[i]] < r[slot[j]]
  /\ \A c \in F : \A i \in 1 .. n : r[c] < r[slot[i]] => \E m \in 1 .. n : slot[m] = c

\* One more of them, if there is one.
LEMMA OneMore ==
  ASSUME NEW F, IsFiniteSet(F), NEW r \in [F -> Nat], \A c, d \in F : r[c] = r[d] => c = d,
         NEW m \in Nat, m < Cardinality(F), NEW s, FirstBy(s, m, F, r)
  PROVE  \E t : FirstBy(t, m + 1, F, r)
<1> DEFINE Used == {c \in F : \E i \in 1 .. m : s[i] = c}
           Rest == F \ Used
<1>1. s \in [1 .. m -> F]
  BY DEF FirstBy
<1>2. Rest # {}
  <2> SUFFICES ASSUME Used = F PROVE FALSE
    OBVIOUS
  <2>1. s \in Surjection(1 .. m, F)
    BY <1>1 DEF Surjection
  <2>2. IsFiniteSet(1 .. m) /\ Cardinality(1 .. m) = m
    BY FS_Interval
  <2>3. Cardinality(F) <= m
    BY <2>1, <2>2, FS_Surjection
  <2>4. Cardinality(F) \in Nat
    BY FS_CardinalityType
  <2> QED
    BY <2>3, <2>4
<1>3. PICK c0 \in Rest : \A c \in Rest : r[c0] <= r[c]
  <2>1. {r[c] : c \in Rest} \subseteq Nat /\ {r[c] : c \in Rest} # {}
    BY <1>2
  <2>2. PICK v \in {r[c] : c \in Rest} : \A w \in {r[c] : c \in Rest} : v <= w
    BY <2>1, Least
  <2> QED
    BY <2>2
<1> DEFINE t == [i \in 1 .. m + 1 |-> IF i <= m THEN s[i] ELSE c0]
<1>4. /\ t \in [1 .. m + 1 -> F] /\ t[m + 1] = c0 /\ \A i \in 1 .. m : t[i] = s[i]
      /\ \A i \in 1 .. m + 1 : i \in 1 .. m \/ i = m + 1
  BY <1>1
<1>5. \A i \in 1 .. m : r[s[i]] < r[c0]
  <2> SUFFICES ASSUME NEW i \in 1 .. m, ~(r[s[i]] < r[c0]) PROVE FALSE
    OBVIOUS
  <2>1. s[i] \in F /\ c0 \in F /\ c0 # s[i] /\ r[s[i]] \in Nat /\ r[c0] \in Nat
    BY <1>1
  <2>2. r[c0] # r[s[i]]
    BY <2>1
  <2>3. r[c0] < r[s[i]]
    BY <2>1, <2>2
  <2>4. \E k \in 1 .. m : s[k] = c0
    BY <2>1, <2>3 DEF FirstBy
  <2> QED
    BY <2>4
<1>6. \A i, j \in 1 .. m + 1 : i < j => r[t[i]] < r[t[j]]
  <2> SUFFICES ASSUME NEW i \in 1 .. m + 1, NEW j \in 1 .. m + 1, i < j
               PROVE  r[t[i]] < r[t[j]]
    OBVIOUS
  <2>1. i \in 1 .. m
    OBVIOUS
  <2>2. CASE j \in 1 .. m
    BY <1>4, <2>1, <2>2 DEF FirstBy
  <2>3. CASE j = m + 1
    BY <1>4, <1>5, <2>1, <2>3
  <2> QED
    BY <1>4, <2>2, <2>3
<1>7. \A c \in F : \A i \in 1 .. m + 1 : r[c] < r[t[i]] => \E k \in 1 .. m + 1 : t[k] = c
  <2> SUFFICES ASSUME NEW c \in F, NEW i \in 1 .. m + 1, r[c] < r[t[i]]
               PROVE  \E k \in 1 .. m : s[k] = c
    BY <1>4
  <2>1. CASE i \in 1 .. m
    BY <1>4, <2>1 DEF FirstBy
  <2>2. CASE i = m + 1
    <3>1. r[c] < r[c0] /\ r[c] \in Nat /\ r[c0] \in Nat
      BY <1>4, <2>2
    <3>2. c \notin Rest
      BY <1>3, <3>1
    <3> QED
      BY <3>2
  <2> QED
    BY <1>4, <2>1, <2>2
<1> HIDE DEF t
<1>8. FirstBy(t, m + 1, F, r)
  BY <1>4, <1>6, <1>7 DEF FirstBy
<1> QED
  BY <1>8

LEMMA FirstExist ==
  ASSUME NEW F, IsFiniteSet(F), NEW r \in [F -> Nat], \A c, d \in F : r[c] = r[d] => c = d,
         NEW n \in Nat, n <= Cardinality(F)
  PROVE  \E t : FirstBy(t, n, F, r)
<1> DEFINE Missing == {m \in 0 .. n : ~ \E t : FirstBy(t, m, F, r)}
<1> SUFFICES ASSUME Missing # {} PROVE FALSE
  OBVIOUS
<1>1. PICK m \in Missing : \A k \in Missing : m <= k
  <2>1. Missing \subseteq Nat
    OBVIOUS
  <2> QED
    BY <2>1, Least
<1>2. CASE m = 0
  <2>1. FirstBy([i \in 1 .. 0 |-> 0], 0, F, r)
    BY DEF FirstBy
  <2> QED
    BY <1>1, <1>2, <2>1
<1>3. CASE m # 0
  <2>1. m \in Nat /\ m <= n /\ m - 1 \in Nat /\ m - 1 < m /\ m - 1 + 1 = m
    BY <1>1, <1>3
  <2>2. m - 1 \notin Missing
    BY <1>1, <2>1
  <2>3. PICK s : FirstBy(s, m - 1, F, r)
    BY <2>1, <2>2
  <2>4. m - 1 < Cardinality(F)
    BY <2>1, FS_CardinalityType
  <2>5. \E t : FirstBy(t, m - 1 + 1, F, r)
    BY <2>1, <2>3, <2>4, OneMore
  <2> QED
    BY <1>1, <2>1, <2>5
<1> QED
  BY <1>2, <1>3

Map == [Cells -> Positions \cup {Empty}]

LEMMA FreeCounts ==
  ASSUME NEW k \in Map
  PROVE  /\ IsFiniteSet(Cells) /\ Cardinality(Cells) = Size
         /\ Free(k) \subseteq Cells /\ IsFiniteSet(Free(k))
         /\ Cardinality(Free(k)) \in Nat /\ Cardinality(Free(k)) <= Size
         /\ IsFiniteSet(Cells \ Free(k)) /\ Cardinality(Cells \ Free(k)) = Size - Cardinality(Free(k))
<1>1. IsFiniteSet(Cells) /\ Cardinality(Cells) = Size
  BY Sizes, FS_Interval
<1>2. Free(k) \subseteq Cells
  BY DEF Free
<1>3. IsFiniteSet(Free(k)) /\ Cardinality(Free(k)) <= Size
  BY <1>1, <1>2, FS_Subset
<1>4. Cardinality(Free(k)) \in Nat
  BY <1>3, FS_CardinalityType
<1>5. Cells \cap Free(k) = Free(k)
  BY <1>2
<1>6. IsFiniteSet(Cells \ Free(k)) /\ Cardinality(Cells \ Free(k)) = Size - Cardinality(Free(k))
  BY <1>1, <1>5, FS_Difference
<1> QED
  BY <1>1, <1>2, <1>3, <1>4, <1>6

LEMMA RankOrders ==
  ASSUME NEW s \in 0 .. Size
  PROVE  /\ \A c \in Cells : Rank(c, s) \in Nat
         /\ \A c, d \in Cells : Rank(c, s) = Rank(d, s) => c = d
<1>1. \A c \in Cells : c \in Int /\ 0 <= c /\ c < Size
  BY Sizes
<1>2. \A c \in Cells : Rank(c, s) \in Nat
  BY <1>1, Sizes DEF Rank
<1>3. \A c, d \in Cells : Rank(c, s) = Rank(d, s) => c = d
  BY <1>1, Sizes DEF Rank
<1> QED
  BY <1>2, <1>3

LEMMA SearchTyped ==
  ASSUME NEW k \in Map, NEW h \in 0 .. Size, NEW n \in Nat
  PROVE  SearchFrom(k, h, n) \in 0 .. Size
  BY Sizes DEF SearchFrom

\* What a found slot is.
LEMMA SlotIs ==
  ASSUME NEW k \in Map, NEW h \in 0 .. Size, NEW n \in Nat, n >= 1, NEW slot \in SlotsFor(k, h, n)
  PROVE  /\ slot \in [1 .. n -> Free(k)]
         /\ \A i, j \in 1 .. n : slot[i] = slot[j] => i = j
<1> DEFINE s == SearchFrom(k, h, n)
<1>1. s \in 0 .. Size
  BY SearchTyped
<1> HIDE DEF s
<1>2. /\ slot \in [1 .. n -> Free(k)]
      /\ \A i, j \in 1 .. n : i < j => Rank(slot[i], s) < Rank(slot[j], s)
  BY DEF SlotsFor, s
<1>3. \A i \in 1 .. n : slot[i] \in Cells /\ Rank(slot[i], s) \in Nat
  BY <1>1, <1>2, FreeCounts, RankOrders
<1>4. \A i, j \in 1 .. n : slot[i] = slot[j] => i = j
  <2> SUFFICES ASSUME NEW i \in 1 .. n, NEW j \in 1 .. n, slot[i] = slot[j], i < j PROVE FALSE
    OBVIOUS
  <2>1. Rank(slot[i], s) < Rank(slot[j], s) /\ Rank(slot[i], s) \in Nat
    BY <1>2, <1>3
  <2> QED
    BY <2>1
<1> QED
  BY <1>2, <1>4

\* find_slot finds a slot if and only if there are free cells enough.
LEMMA SlotExists ==
  ASSUME NEW k \in Map, NEW h \in 0 .. Size, NEW n \in Nat, n >= 1
  PROVE  SlotsFor(k, h, n) = {} <=> Cardinality(Free(k)) < n
<1> DEFINE s == SearchFrom(k, h, n)
<1>1. s \in 0 .. Size
  BY SearchTyped
<1> HIDE DEF s
<1>2. Free(k) \subseteq Cells /\ IsFiniteSet(Free(k)) /\ Cardinality(Free(k)) \in Nat
  BY FreeCounts
<1>3. ASSUME NEW slot \in SlotsFor(k, h, n)
      PROVE  n <= Cardinality(Free(k))
  <2>1. slot \in Injection(1 .. n, Free(k))
    <3>1. slot \in [1 .. n -> Free(k)] /\ \A i, j \in 1 .. n : slot[i] = slot[j] => i = j
      BY <1>3, SlotIs
    <3> QED
      BY <3>1 DEF Injection, IsInjective
  <2>2. Cardinality(1 .. n) <= Cardinality(Free(k))
    BY <1>2, <2>1, FS_Injection
  <2>3. Cardinality(1 .. n) = n
    BY FS_Interval
  <2> QED
    BY <2>2, <2>3
<1>4. ASSUME n <= Cardinality(Free(k))
      PROVE  SlotsFor(k, h, n) # {}
  <2> DEFINE r == [c \in Free(k) |-> Rank(c, s)]
  <2>1. r \in [Free(k) -> Nat] /\ \A c, d \in Free(k) : r[c] = r[d] => c = d
    BY <1>1, <1>2, RankOrders
  <2>2. PICK slot : FirstBy(slot, n, Free(k), r)
    BY <1>2, <1>4, <2>1, FirstExist
  <2>3. slot \in [1 .. n -> Free(k)] /\ n \in 1 .. n
    BY <2>2 DEF FirstBy
  <2>4. \A i \in 1 .. n : r[slot[i]] = Rank(slot[i], s)
    BY <2>3
  <2>5. \A c \in Free(k) : r[c] = Rank(c, s)
    OBVIOUS
  <2> HIDE DEF r
  <2>6. \A i, j \in 1 .. n : i < j => Rank(slot[i], s) < Rank(slot[j], s)
    BY <2>2, <2>4 DEF FirstBy
  <2>7. \A c \in Free(k) : Rank(c, s) < Rank(slot[n], s) => \E i \in 1 .. n : slot[i] = c
    BY <2>2, <2>3, <2>4, <2>5 DEF FirstBy
  <2>8. slot \in SlotsFor(k, h, n)
    BY <2>3, <2>6, <2>7 DEF SlotsFor, s
  <2> QED
    BY <2>8
<1> QED
  BY <1>2, <1>3, <1>4
-----------------------------------------------------------------------------
(* Maps without gaps but those in g *)

Gapless(k, g) == /\ \A c, d \in Cells : k[c] = k[d] => c = d \/ k[c] = Empty
                 /\ \A p, q \in Held(k) : p .. q \subseteq Held(k) \cup g

LEMMA HeldIs ==
  ASSUME NEW k \in Map
  PROVE  /\ Held(k) \subseteq Positions
         /\ \A p \in Positions : p \in Held(k) <=> \E c \in Cells : k[c] = p
         /\ \A c \in Cells : c \notin Free(k) <=> k[c] \in Held(k)
         /\ \A c \in Cells : k[c] \in Positions \/ (k[c] = Empty /\ c \in Free(k))
<1>1. Empty \notin Positions
  BY Sizes
<1>2. \A c \in Cells : k[c] \in Positions \/ k[c] = Empty
  BY DEF Map
<1> QED
  BY <1>1, <1>2 DEF Held, Free

\* As many positions as cells that are not free.
LEMMA HeldCounts ==
  ASSUME NEW k \in Map, NEW g, Gapless(k, g)
  PROVE  /\ IsFiniteSet(Held(k)) /\ Cardinality(Held(k)) \in Nat
         /\ Cardinality(Held(k)) = Size - Cardinality(Free(k))
<1> DEFINE U == Cells \ Free(k)
           f == [c \in U |-> k[c]]
<1>1. f \in [U -> Held(k)]
  BY HeldIs
<1>2. \A a, b \in U : f[a] = f[b] => a = b
  BY DEF Gapless, Free
<1>3. \A t \in Held(k) : \E c \in U : f[c] = t
  BY DEF Held
<1> HIDE DEF f
<1>4. f \in Bijection(U, Held(k))
  BY <1>1, <1>2, <1>3 DEF Bijection, Injection, Surjection, IsInjective
<1>5. IsFiniteSet(Held(k)) /\ Cardinality(Held(k)) = Cardinality(U)
  <2>1. ExistsBijection(U, Held(k))
    BY <1>4 DEF ExistsBijection
  <2>2. IsFiniteSet(U)
    BY FreeCounts
  <2> QED
    BY <2>1, <2>2, FS_Bijection
<1>6. Cardinality(Held(k)) \in Nat
  BY <1>5, FS_CardinalityType
<1> QED
  BY <1>5, <1>6, FreeCounts

LEMMA WithoutIs ==
  ASSUME NEW k \in Map, NEW S, S \subseteq Positions
  PROVE  /\ Without(k, S) \in Map
         /\ Held(Without(k, S)) = Held(k) \ S
<1> DEFINE w == Without(k, S)
<1>1. w \in Map /\ \A c \in Cells : w[c] = IF k[c] \in S THEN Empty ELSE k[c]
  BY DEF Without, Map
<1> HIDE DEF w
<1>2. Empty \notin Positions
  BY Sizes
<1>3. \A p \in Positions : p \in Held(w) <=> p \in Held(k) \ S
  <2> SUFFICES ASSUME NEW p \in Positions PROVE p \in Held(w) <=> p \in Held(k) \ S
    OBVIOUS
  <2>1. \A c \in Cells : w[c] = p <=> k[c] = p /\ p \notin S
    BY <1>1, <1>2
  <2> QED
    BY <1>1, <2>1, HeldIs
<1>4. Held(w) \subseteq Positions /\ Held(k) \subseteq Positions
  BY <1>1, HeldIs
<1> QED
  BY <1>1, <1>3, <1>4 DEF w

\* What is removed from between others becomes a gap.
LEMMA WithoutGapless ==
  ASSUME NEW k \in Map, NEW g, Gapless(k, g), NEW S, S \subseteq Positions, NEW h,
         \A m \in g \cup S : \A p, q \in Held(k) \ S : p < m /\ m < q => m \in h
  PROVE  Gapless(Without(k, S), h)
<1> DEFINE w == Without(k, S)
<1>1. /\ w \in Map /\ Held(w) = Held(k) \ S
      /\ \A c \in Cells : w[c] = IF k[c] \in S THEN Empty ELSE k[c]
  BY WithoutIs DEF Without
<1> HIDE DEF w
<1>2. \A c, d \in Cells : w[c] = w[d] => c = d \/ w[c] = Empty
  BY <1>1 DEF Gapless
<1>3. \A p, q \in Held(w) : p .. q \subseteq Held(w) \cup h
  <2> SUFFICES ASSUME NEW p \in Held(w), NEW q \in Held(w), NEW m \in p .. q, m \notin Held(w)
               PROVE  m \in h
    OBVIOUS
  <2>1. p \in Held(k) /\ q \in Held(k) /\ p \notin S /\ q \notin S
    BY <1>1
  <2>2. m \in Held(k) \cup g
    BY <2>1 DEF Gapless
  <2>3. m \in g \cup S
    BY <1>1, <2>2
  <2>4. p \in Int /\ q \in Int /\ m \in Int /\ m # p /\ m # q
    BY <2>1, HeldIs, Sizes
  <2>5. p < m /\ m < q
    BY <2>4
  <2> QED
    BY <2>1, <2>3, <2>5
<1> QED
  BY <1>2, <1>3 DEF Gapless, w

LEMMA HeadTyped ==
  ASSUME NEW k \in Map, NEW S, NEW h \in 0 .. Size
  PROVE  HeadWithout(h, k, S) \in 0 .. Size
<1> DEFINE freed == {c \in Cells : k[c] \in S}
<1>1. CASE \E c \in freed : c < h
  <2>1. freed \subseteq Nat /\ freed # {} /\ freed \subseteq 0 .. Size
    BY <1>1, Sizes
  <2> HIDE DEF freed
  <2>2. \E c \in freed : \A d \in freed : c <= d
    BY <2>1, Least
  <2>3. (CHOOSE c \in freed : \A d \in freed : c <= d) \in freed
    BY <2>2
  <2> QED
    BY <1>1, <2>1, <2>3 DEF HeadWithout, freed
<1>2. CASE ~ \E c \in freed : c < h
  BY <1>2 DEF HeadWithout
<1> QED
  BY <1>1, <1>2

LEMMA EmptyMap ==
  ASSUME NEW g
  PROVE  LET k == [c \in Cells |-> Empty] IN k \in Map /\ Held(k) = {} /\ Gapless(k, g)
<1> DEFINE k == [c \in Cells |-> Empty]
<1>1. k \in Map /\ \A c \in Cells : k[c] = Empty
  BY DEF Map
<1> HIDE DEF k
<1>2. Held(k) = {}
  BY <1>1 DEF Held, Free
<1>3. Gapless(k, g)
  BY <1>1, <1>2 DEF Gapless
<1> QED
  BY <1>1, <1>2, <1>3 DEF k
-----------------------------------------------------------------------------
(* A batch cut into ubatches *)

Batch == [first : Nat, n : Nat]
Toks(b, i) == IF Start(i) + UBatch <= b.n THEN UBatch ELSE b.n - Start(i)

\* The tokens of the first k ubatches.
Upto(b, k) == IF Start(k + 1) <= b.n THEN Start(k + 1) ELSE b.n

LEMMA Starts ==
  /\ Start(1) = 0
  /\ \A i \in Nat : i >= 1 => Start(i) \in Nat /\ Start(i + 1) = Start(i) + UBatch
  /\ \A i, j \in Nat : i >= 1 /\ i < j => Start(i) + UBatch <= Start(j)
<1> USE Sizes
<1>1. Start(1) = 0
  BY DEF Start
<1>2. ASSUME NEW i \in Nat, i >= 1
      PROVE  Start(i) \in Nat /\ Start(i + 1) = Start(i) + UBatch
  <2>1. i - 1 \in Nat
    BY <1>2
  <2> QED
    BY <2>1 DEF Start
<1>3. ASSUME NEW i \in Nat, NEW j \in Nat, i >= 1, i < j
      PROVE  Start(i) + UBatch <= Start(j)
  <2>1. PICK d \in Nat : j = i + 1 + d
    <3>1. j - i - 1 \in Nat /\ j = i + 1 + (j - i - 1)
      BY <1>3
    <3> QED
      BY <3>1
  <2>2. Start(j) = i * UBatch + d * UBatch /\ Start(i) + UBatch = i * UBatch
    BY <2>1 DEF Start
  <2>3. d * UBatch >= 0 /\ d * UBatch \in Nat /\ i * UBatch \in Nat
    BY <2>1
  <2> QED
    BY <2>2, <2>3
<1> QED
  BY <1>1, <1>2, <1>3

LEMMA Cuts ==
  ASSUME NEW b \in Batch, NEW i \in Nat, i >= 1, Start(i) < b.n
  PROVE  /\ Toks(b, i) \in Nat /\ Toks(b, i) >= 1 /\ Toks(b, i) <= UBatch
         /\ Start(i) \in Nat /\ Start(i) + Toks(b, i) = Upto(b, i)
         /\ Upto(b, i) <= b.n /\ Upto(b, i) \in Nat
         /\ Upto(b, i) <= Start(i + 1) /\ Upto(b, i - 1) = Start(i)
<1>1. b.n \in Nat /\ Start(i) \in Nat /\ Start(i + 1) = Start(i) + UBatch /\ i - 1 + 1 = i
  BY Starts DEF Batch
<1>2. PICK s \in Nat : s = Start(i)
  BY <1>1
<1>3. PICK u \in Nat : u = Start(i + 1) /\ u = s + UBatch
  BY <1>1, <1>2, Sizes
<1>4. Upto(b, i - 1) = s
  BY <1>1, <1>2 DEF Upto
<1>5. Upto(b, i) = IF u <= b.n THEN u ELSE b.n
  BY <1>3 DEF Upto
<1>6. Toks(b, i) = IF u <= b.n THEN UBatch ELSE b.n - s
  BY <1>2, <1>3 DEF Toks
<1>7. PICK n \in Nat, w \in Nat, t \in Nat, v \in Nat :
        /\ n = b.n /\ w = UBatch /\ t = Toks(b, i) /\ v = Upto(b, i)
        /\ u = s + w /\ w >= 1 /\ s < n
        /\ v = (IF u <= n THEN u ELSE n) /\ t = (IF u <= n THEN w ELSE n - s)
  BY <1>1, <1>2, <1>3, <1>5, <1>6, Sizes
<1>8. t >= 1 /\ t <= w /\ s + t = v /\ v <= n /\ v <= u
  BY <1>7
<1> QED
  BY <1>1, <1>2, <1>3, <1>4, <1>7, <1>8

\* Every token of the first k ubatches is in one of them.
LEMMA InSomeUbatch ==
  ASSUME NEW b \in Batch, NEW k \in Nat, NEW x \in Nat, x < Upto(b, k)
  PROVE  \E i \in 1 .. k : \E j \in 1 .. Toks(b, i) : Start(i) < b.n /\ x = Start(i) + j - 1
<1> DEFINE S == {i \in Nat : i >= 1 /\ Start(i + 1) > x}
<1>1. b.n \in Nat /\ k + 1 \in Nat /\ k + 1 >= 1 /\ Start(k + 1) \in Nat /\ Start(1) = 0
  BY Starts DEF Batch
<1>2. x < Start(k + 1) /\ x < b.n
  BY <1>1 DEF Upto
<1>3. k \in S
  BY <1>1, <1>2
<1>4. PICK i \in S : \A m \in S : i <= m
  <2>1. S \subseteq Nat /\ S # {}
    BY <1>3
  <2> QED
    BY <2>1, Least
<1>5. i \in Nat /\ i >= 1 /\ i <= k /\ Start(i + 1) > x
  BY <1>3, <1>4
<1>6. Start(i) \in Nat /\ Start(i + 1) = Start(i) + UBatch
  BY <1>5, Starts
<1>7. Start(i) <= x
  <2>1. CASE i = 1
    BY <1>1, <2>1
  <2>2. CASE i # 1
    <3>1. i - 1 \in Nat /\ i - 1 >= 1 /\ i - 1 + 1 = i /\ ~(i <= i - 1)
      BY <1>5, <2>2
    <3>2. i - 1 \notin S
      BY <1>4, <3>1
    <3> QED
      BY <1>6, <3>1, <3>2
  <2> QED
    BY <2>1, <2>2
<1>8. PICK s \in Nat : s = Start(i)
  BY <1>6
<1>9. PICK j \in Nat : j = x - s + 1 /\ j >= 1 /\ x = s + j - 1
  BY <1>7, <1>8
<1>10. j <= UBatch /\ j <= b.n - s /\ s < b.n
  <2>1. x < s + UBatch /\ s <= x /\ x < b.n
    BY <1>2, <1>5, <1>6, <1>7, <1>8
  <2>2. UBatch \in Nat /\ b.n \in Nat
    BY <1>1, Sizes
  <2> QED
    BY <1>9, <2>1, <2>2
<1>11. Toks(b, i) = UBatch \/ Toks(b, i) = b.n - s
  BY <1>8 DEF Toks
<1>12. j \in 1 .. Toks(b, i)
  BY <1>1, <1>9, <1>10, <1>11, Sizes
<1>13. i \in 1 .. k
  BY <1>5
<1> QED
  BY <1>8, <1>9, <1>10, <1>12, <1>13
-----------------------------------------------------------------------------
(* The cells found for the ubatches, and the cells with the first k in place *)

SlotSet == UNION {[1 .. n -> Cells] : n \in Nat}

Plan(base, b, sl, g) ==
  /\ base \in Map /\ Gapless(base, g)
  /\ b \in Batch /\ b.n >= 1 /\ b.first + b.n <= MaxPos
  /\ \A q \in Held(base) : q < b.first
  /\ Held(base) = {} \/ b.first - 1 \in Held(base)
  /\ Len(sl) \in Nat
  /\ \A i \in 1 .. Len(sl) : Start(i) < b.n /\ sl[i] \in [1 .. Toks(b, i) -> Free(base)]
  /\ \A i, m \in 1 .. Len(sl) : \A j \in 1 .. Toks(b, i), l \in 1 .. Toks(b, m) :
       sl[i][j] = sl[m][l] => i = m /\ j = l

InFirst(b, sl, k, c) == \E i \in 1 .. k : \E j \in 1 .. Toks(b, i) : sl[i][j] = c

PlacedTo(base, b, sl, k, cs) ==
  /\ \A i \in 1 .. k : \A j \in 1 .. Toks(b, i) : cs[sl[i][j]] = b.first + (Start(i) + j - 1)
  /\ \A c \in Cells : ~InFirst(b, sl, k, c) => cs[c] = base[c]

LEMMA PlanCuts ==
  ASSUME NEW base, NEW b, NEW sl, NEW g, Plan(base, b, sl, g), NEW i \in 1 .. Len(sl)
  PROVE  /\ Start(i) \in Nat /\ Toks(b, i) \in Nat /\ Toks(b, i) >= 1 /\ Toks(b, i) <= UBatch
         /\ Start(i) + Toks(b, i) = Upto(b, i) /\ Upto(b, i) \in Nat /\ Upto(b, i) <= b.n
         /\ Upto(b, i) <= Start(i + 1) /\ Upto(b, i - 1) = Start(i)
         /\ sl[i] \in [1 .. Toks(b, i) -> Free(base)] /\ DOMAIN sl[i] = 1 .. Toks(b, i)
<1>1. b \in Batch /\ Start(i) < b.n /\ i \in Nat /\ i >= 1
      /\ sl[i] \in [1 .. Toks(b, i) -> Free(base)]
  BY DEF Plan
<1>2. DOMAIN sl[i] = 1 .. Toks(b, i)
  BY <1>1
<1> QED
  BY <1>1, <1>2, Cuts

\* What an ubatch in place holds: positions of its own, behind those before.
LEMMA PlacedIn ==
  ASSUME NEW base, NEW b, NEW sl, NEW g, Plan(base, b, sl, g), NEW k \in 0 .. Len(sl), NEW cs \in Map,
         PlacedTo(base, b, sl, k, cs), NEW i \in 1 .. k, NEW j \in 1 .. Toks(b, i)
  PROVE  /\ sl[i][j] \in Cells /\ sl[i][j] \in Free(base)
         /\ cs[sl[i][j]] = b.first + (Start(i) + j - 1)
         /\ cs[sl[i][j]] \in b.first .. (b.first + Upto(b, k) - 1)
         /\ cs[sl[i][j]] \in Positions
<1>1. i \in 1 .. Len(sl) /\ k \in Nat /\ b \in Batch /\ b.first \in Nat /\ b.n \in Nat
      /\ b.first + b.n <= MaxPos /\ base \in Map
  BY DEF Plan, Batch
<1>2. /\ sl[i] \in [1 .. Toks(b, i) -> Free(base)] /\ Start(i) \in Nat /\ Toks(b, i) \in Nat
      /\ Start(i) + Toks(b, i) = Upto(b, i) /\ Upto(b, i) <= b.n /\ Upto(b, i) \in Nat
  <2>1. i \in 1 .. Len(sl) /\ Plan(base, b, sl, g)
    BY <1>1
  <2> QED
    BY <2>1, PlanCuts
<1>3. sl[i][j] \in Cells /\ sl[i][j] \in Free(base)
  BY <1>1, <1>2, FreeCounts
<1>4. cs[sl[i][j]] = b.first + (Start(i) + j - 1)
  BY DEF PlacedTo
<1>5. Upto(b, i) <= Upto(b, k) /\ Upto(b, k) \in Nat /\ Upto(b, k) <= b.n
  <2>1. CASE i = k
    BY <1>1, <1>2, <2>1
  <2>2. CASE i # k
    <3>1. k \in 1 .. Len(sl) /\ i < k /\ i \in Nat /\ i >= 1 /\ k >= 1
      BY <1>1, <2>2
    <3>2. /\ Start(k) \in Nat /\ Toks(b, k) \in Nat /\ Toks(b, k) >= 1
          /\ Start(k) + Toks(b, k) = Upto(b, k) /\ Upto(b, k) \in Nat /\ Upto(b, k) <= b.n
      BY <3>1, PlanCuts
    <3>3. Upto(b, i) <= Start(i + 1) /\ Start(i + 1) = Start(i) + UBatch
          /\ Start(i) + UBatch <= Start(k)
      BY <1>1, <3>1, PlanCuts, Starts
    <3>4. PICK a \in Nat, c \in Nat, d \in Nat :
            a = Upto(b, i) /\ c = Start(i) + UBatch /\ d = Start(k)
      BY <1>2, <3>2, Sizes
    <3>5. a <= c /\ c <= d
      BY <3>3, <3>4
    <3>6. a <= d
      BY <3>5
    <3>7. PICK t \in Nat, v \in Nat : t = Toks(b, k) /\ v = Upto(b, k) /\ d + t = v
      BY <3>2, <3>4
    <3>8. a <= v
      BY <3>6, <3>7
    <3> QED
      BY <3>2, <3>4, <3>7, <3>8
  <2> QED
    BY <2>1, <2>2
<1>6. PICK s \in Nat : s = Start(i)
  BY <1>2
<1>7. PICK u \in Nat : u = Upto(b, k) /\ s + Toks(b, i) <= u /\ u <= b.n
  BY <1>2, <1>5, <1>6
<1> DEFINE x == s + j - 1
<1>8. x \in Nat /\ x < u
  BY <1>2, <1>7
<1> HIDE DEF x
<1>9. cs[sl[i][j]] = b.first + x
  BY <1>4, <1>6 DEF x
<1>10. /\ b.first + x \in 0 .. MaxPos - 1
       /\ b.first + x \in b.first .. (b.first + Upto(b, k) - 1)
  <2>1. PICK a \in Nat, n \in Nat, l \in Nat :
          a = b.first /\ n = b.n /\ l = MaxPos /\ a + n <= l /\ u <= n
    BY <1>1, <1>7, Sizes
  <2>2. a + u <= l
    BY <2>1
  <2>3. a + x \in 0 .. l - 1 /\ a + x \in a .. (a + u - 1)
    BY <1>8, <2>2
  <2> QED
    BY <1>7, <2>1, <2>3
<1>13. cs[sl[i][j]] \in Positions
  BY <1>9, <1>10 DEF Positions
<1>14. cs[sl[i][j]] \in b.first .. (b.first + Upto(b, k) - 1)
  BY <1>9, <1>10
<1> QED
  BY <1>3, <1>4, <1>13, <1>14

LEMMA PlacedHeld ==
  ASSUME NEW base, NEW b, NEW sl, NEW g, Plan(base, b, sl, g), NEW k \in 0 .. Len(sl), NEW cs \in Map,
         PlacedTo(base, b, sl, k, cs)
  PROVE  Held(cs) = Held(base) \cup (b.first .. (b.first + Upto(b, k) - 1))
<1> DEFINE N == b.first .. (b.first + Upto(b, k) - 1)
<1>1. b \in Batch /\ b.first \in Nat /\ b.n \in Nat /\ base \in Map /\ k \in Nat
  BY DEF Plan, Batch
<1>2. Upto(b, k) \in Nat
  BY <1>1, Starts DEF Upto
<1>3. ASSUME NEW p \in Held(cs)
      PROVE  p \in Held(base) \/ p \in N
  <2>1. PICK c \in Cells : cs[c] = p /\ p \in Positions
    BY <1>3, HeldIs
  <2>2. CASE InFirst(b, sl, k, c)
    <3>1. PICK i, j : i \in 1 .. k /\ j \in 1 .. Toks(b, i) /\ sl[i][j] = c
      BY <2>2 DEF InFirst
    <3> QED
      BY <2>1, <3>1, PlacedIn
  <2>3. CASE ~InFirst(b, sl, k, c)
    BY <1>1, <2>1, <2>3, HeldIs DEF PlacedTo
  <2> QED
    BY <2>2, <2>3
<1>4. ASSUME NEW p \in Held(base)
      PROVE  p \in Held(cs)
  <2>1. PICK c \in Cells : base[c] = p /\ p \in Positions
    BY <1>1, HeldIs
  <2>2. ~InFirst(b, sl, k, c)
    <3> SUFFICES ASSUME InFirst(b, sl, k, c) PROVE FALSE
      OBVIOUS
    <3>1. PICK i, j : i \in 1 .. k /\ j \in 1 .. Toks(b, i) /\ sl[i][j] = c
      BY DEF InFirst
    <3>2. base[c] = Empty
      BY <3>1, PlacedIn DEF Free
    <3> QED
      BY <2>1, <3>2, Sizes
  <2>3. cs[c] = p
    BY <2>1, <2>2 DEF PlacedTo
  <2> QED
    BY <2>1, <2>3, HeldIs
<1>5. ASSUME NEW p \in N
      PROVE  p \in Held(cs)
  <2>1. PICK x \in Nat : p = b.first + x /\ x < Upto(b, k)
    <3>1. p \in Int /\ p >= b.first /\ p <= b.first + Upto(b, k) - 1
      BY <1>1, <1>2
    <3>2. p - b.first \in Nat /\ p = b.first + (p - b.first) /\ p - b.first < Upto(b, k)
      BY <1>1, <1>2, <3>1
    <3> QED
      BY <3>2
  <2>2. PICK i \in 1 .. k : \E j \in 1 .. Toks(b, i) : x = Start(i) + j - 1
    BY <1>1, <2>1, InSomeUbatch
  <2>3. PICK j \in 1 .. Toks(b, i) : x = Start(i) + j - 1
    BY <2>2
  <2>4. sl[i][j] \in Cells /\ cs[sl[i][j]] = b.first + (Start(i) + j - 1)
        /\ cs[sl[i][j]] \in Positions
    BY PlacedIn
  <2> QED
    BY <2>1, <2>3, <2>4, HeldIs
<1> QED
  BY <1>3, <1>4, <1>5

LEMMA PlacedGapless ==
  ASSUME NEW base, NEW b, NEW sl, NEW g, Plan(base, b, sl, g), NEW k \in 0 .. Len(sl), NEW cs \in Map,
         PlacedTo(base, b, sl, k, cs)
  PROVE  Gapless(cs, g)
<1>1. /\ b \in Batch /\ b.first \in Nat /\ b.n \in Nat /\ base \in Map /\ k \in Nat /\ Gapless(base, g)
      /\ \A q \in Held(base) : q < b.first
      /\ Held(base) = {} \/ b.first - 1 \in Held(base)
  BY DEF Plan, Batch
<1>2. Upto(b, k) \in Nat
  BY <1>1, Starts DEF Upto
<1>3. ASSUME NEW c \in Cells, NEW d \in Cells, cs[c] = cs[d], cs[c] # Empty,
             InFirst(b, sl, k, c)
      PROVE  c = d
  <2>1. PICK i, j : i \in 1 .. k /\ j \in 1 .. Toks(b, i) /\ sl[i][j] = c
    BY <1>3 DEF InFirst
  <2>2. cs[c] = b.first + (Start(i) + j - 1) /\ cs[c] >= b.first /\ cs[c] \in Int
    BY <1>1, <1>2, <2>1, PlacedIn
  <2>3. InFirst(b, sl, k, d)
    <3> SUFFICES ASSUME ~InFirst(b, sl, k, d) PROVE FALSE
      OBVIOUS
    <3>1. cs[d] = base[d]
      BY DEF PlacedTo
    <3>2. base[d] \in Held(base)
      BY <1>1, <1>3, <3>1, HeldIs
    <3>3. base[d] < b.first
      BY <1>1, <3>2
    <3>4. cs[c] < b.first
      BY <1>3, <3>1, <3>3
    <3> QED
      BY <1>1, <2>2, <3>4
  <2>4. PICK m, l : m \in 1 .. k /\ l \in 1 .. Toks(b, m) /\ sl[m][l] = d
    BY <2>3 DEF InFirst
  <2>5. cs[d] = b.first + (Start(m) + l - 1)
    BY <2>4, PlacedIn
  <2>6. /\ i \in 1 .. Len(sl) /\ m \in 1 .. Len(sl) /\ i \in Nat /\ m \in Nat /\ i >= 1 /\ m >= 1
    BY <1>1, <2>1, <2>4
  <2>7. /\ Start(i) \in Nat /\ Toks(b, i) \in Nat /\ Toks(b, i) <= UBatch
        /\ Start(m) \in Nat /\ Toks(b, m) \in Nat /\ Toks(b, m) <= UBatch
    BY <2>6, PlanCuts
  <2>8. Start(i) + j = Start(m) + l
    <3>1. b.first + (Start(i) + j - 1) = b.first + (Start(m) + l - 1)
      BY <1>3, <2>2, <2>5
    <3>2. i \in Nat /\ j \in Nat /\ l \in Nat
      BY <2>1, <2>4, <2>6, <2>7
    <3>3. PICK f \in Nat, s \in Nat, r \in Nat : f = b.first /\ s = Start(i) /\ r = Start(m)
      BY <1>1, <2>7
    <3>4. f + (s + j - 1) = f + (r + l - 1)
      BY <3>1, <3>3
    <3>5. s + j = r + l
      BY <3>2, <3>4
    <3> QED
      BY <3>3, <3>5
  <2>9. i = m
    <3>1. PICK s \in Nat, r \in Nat, w \in Nat :
            s = Start(i) /\ r = Start(m) /\ w = UBatch /\ s + j = r + l
      <4>1. UBatch \in Nat
        BY Sizes
      <4> QED
        BY <2>7, <2>8, <4>1
    <3>2. j \in Nat /\ l \in Nat /\ j >= 1 /\ l >= 1 /\ j <= w /\ l <= w
      <4>1. \A t \in Nat : \A e \in 1 .. t : t <= w => e \in Nat /\ e >= 1 /\ e <= w
        OBVIOUS
      <4>2. j \in 1 .. Toks(b, i) /\ l \in 1 .. Toks(b, m)
        BY <2>1, <2>4
      <4> QED
        BY <2>7, <3>1, <4>1, <4>2
    <3>3. CASE i < m
      <4>1. s + w <= r
        BY <2>6, <3>1, <3>3, Starts
      <4> QED
        BY <3>1, <3>2, <4>1
    <3>4. CASE m < i
      <4>1. r + w <= s
        BY <2>6, <3>1, <3>4, Starts
      <4> QED
        BY <3>1, <3>2, <4>1
    <3> QED
      BY <2>6, <3>3, <3>4
  <2>10. j = l
    BY <2>1, <2>4, <2>7, <2>8, <2>9
  <2> QED
    BY <2>1, <2>4, <2>9, <2>10
<1>4. \A c, d \in Cells : cs[c] = cs[d] => c = d \/ cs[c] = Empty
  <2> SUFFICES ASSUME NEW c \in Cells, NEW d \in Cells, cs[c] = cs[d], cs[c] # Empty
               PROVE  c = d
    OBVIOUS
  <2>1. CASE InFirst(b, sl, k, c) \/ InFirst(b, sl, k, d)
    BY <1>3, <2>1
  <2>2. CASE ~InFirst(b, sl, k, c) /\ ~InFirst(b, sl, k, d)
    <3>1. cs[c] = base[c] /\ cs[d] = base[d]
      BY <2>2 DEF PlacedTo
    <3> QED
      BY <1>1, <3>1 DEF Gapless
  <2> QED
    BY <2>1, <2>2
<1>5. \A p, q \in Held(cs) : p .. q \subseteq Held(cs) \cup g
  <2> DEFINE u == b.first + Upto(b, k) - 1
  <2>1. Held(cs) = Held(base) \cup (b.first .. u) /\ u \in Int
    BY <1>1, <1>2, PlacedHeld
  <2> HIDE DEF u
  <2>2. Held(base) \subseteq Int
    BY <1>1, HeldIs, Sizes
  <2> SUFFICES ASSUME NEW p \in Held(cs), NEW q \in Held(cs), NEW m \in p .. q
               PROVE  m \in Held(cs) \cup g
    OBVIOUS
  <2>3. m \in Int /\ m >= p /\ m <= q /\ p \in Int /\ q \in Int
    BY <2>1, <2>2
  <2>4. CASE m >= b.first
    <3>1. q >= b.first
      BY <1>1, <2>3, <2>4
    <3>2. q \in b.first .. u
      BY <1>1, <2>1, <2>2, <3>1
    <3> QED
      BY <1>1, <2>1, <2>3, <2>4, <3>2
  <2>5. CASE m < b.first
    <3>1. p < b.first
      BY <1>1, <2>3, <2>5
    <3>2. p \in Held(base)
      BY <1>1, <2>1, <3>1
    <3>3. b.first - 1 \in Held(base)
      BY <1>1, <3>2
    <3>4. m \in p .. (b.first - 1)
      BY <1>1, <2>3, <2>5
    <3>5. m \in Held(base) \cup g
      BY <1>1, <3>2, <3>3, <3>4 DEF Gapless
    <3> QED
      BY <2>1, <3>5
  <2> QED
    BY <1>1, <2>3, <2>4, <2>5
<1> QED
  BY <1>4, <1>5 DEF Gapless

\* apply_ubatch puts one more ubatch in place.
LEMMA PutNext ==
  ASSUME NEW base, NEW b, NEW sl, NEW g, Plan(base, b, sl, g), NEW k \in 1 .. Len(sl), NEW cs \in Map,
         PlacedTo(base, b, sl, k - 1, cs)
  PROVE  LET ds == Put(cs, sl[k], b.first + Start(k))
         IN  ds \in Map /\ PlacedTo(base, b, sl, k, ds)
<1> DEFINE ds == Put(cs, sl[k], b.first + Start(k))
           slot == sl[k]
           C(c) == CHOOSE i \in DOMAIN slot : slot[i] = c
<1>1. /\ k \in Nat /\ k >= 1 /\ b.first \in Nat /\ b.n \in Nat /\ b.first + b.n <= MaxPos
      /\ base \in Map
  BY DEF Plan, Batch
<1>2. /\ slot \in [1 .. Toks(b, k) -> Free(base)] /\ DOMAIN slot = 1 .. Toks(b, k)
      /\ Start(k) \in Nat /\ Toks(b, k) \in Nat
      /\ Start(k) + Toks(b, k) = Upto(b, k) /\ Upto(b, k) <= b.n /\ Upto(b, k) \in Nat
  <2> HIDE DEF slot, ds, C
  <2>1. /\ Start(k) \in Nat /\ Toks(b, k) \in Nat
        /\ Start(k) + Toks(b, k) = Upto(b, k) /\ Upto(b, k) \in Nat /\ Upto(b, k) <= b.n
        /\ sl[k] \in [1 .. Toks(b, k) -> Free(base)] /\ DOMAIN sl[k] = 1 .. Toks(b, k)
    BY PlanCuts
  <2> QED
    BY <2>1 DEF slot
<1>3. \A c \in Cells : ds[c] = IF \E i \in 1 .. Toks(b, k) : slot[i] = c
                              THEN (b.first + Start(k)) - 1 + C(c) ELSE cs[c]
  <2>1. \A c \in Cells : ds[c] = IF \E i \in DOMAIN slot : slot[i] = c
                                THEN (b.first + Start(k)) - 1 + C(c) ELSE cs[c]
    <3>1. ds = [c \in Cells |-> IF \E i \in DOMAIN slot : slot[i] = c
                               THEN (b.first + Start(k)) - 1 + C(c) ELSE cs[c]]
      BY DEF Put
    <3> HIDE DEF ds, C, slot
    <3> QED
      BY <3>1
  <2> HIDE DEF ds, C, slot
  <2> QED
    BY <1>2, <2>1
<1>4. \A j \in 1 .. Toks(b, k) : C(slot[j]) = j
  <2> SUFFICES ASSUME NEW j \in 1 .. Toks(b, k) PROVE C(slot[j]) = j
    OBVIOUS
  <2>1. \A i \in 1 .. Toks(b, k) : slot[i] = slot[j] => i = j
    BY <1>1 DEF Plan
  <2> QED
    BY <1>2, <2>1
<1> HIDE DEF C
<1>5. ASSUME NEW j \in 1 .. Toks(b, k)
      PROVE  /\ slot[j] \in Cells /\ ds[slot[j]] = b.first + (Start(k) + j - 1)
             /\ ds[slot[j]] \in Positions
  <2>1. slot[j] \in Cells
    BY <1>1, <1>2, FreeCounts
  <2>2. ds[slot[j]] = (b.first + Start(k)) - 1 + j
    BY <1>3, <1>4, <2>1
  <2>3. PICK f \in Nat, s \in Nat, t \in Nat : /\ f = b.first /\ s = Start(k) /\ t = Toks(b, k)
                                               /\ s + t <= b.n
    BY <1>1, <1>2
  <2>4. j \in Nat /\ j >= 1 /\ j <= t
    BY <2>3
  <2>5. (f + s) - 1 + j = f + (s + j - 1) /\ f + (s + j - 1) \in Nat /\ f + (s + j - 1) < MaxPos
    <3>1. PICK n \in Nat : n = b.n /\ f + n <= MaxPos /\ s + t <= n
      BY <1>1, <2>3
    <3> QED
      BY <2>4, <3>1, Sizes
  <2>6. f + (s + j - 1) \in Positions
    BY <2>5, Sizes
  <2> QED
    BY <2>1, <2>2, <2>3, <2>5, <2>6
<1>6. \A c \in Cells : (\A j \in 1 .. Toks(b, k) : slot[j] # c) => ds[c] = cs[c]
  BY <1>3
<1>7. ds \in Map
  <2>1. \A c \in Cells : ds[c] \in Positions \cup {Empty}
    <3> SUFFICES ASSUME NEW c \in Cells PROVE ds[c] \in Positions \cup {Empty}
      OBVIOUS
    <3>1. CASE \E j \in 1 .. Toks(b, k) : slot[j] = c
      BY <1>5, <3>1
    <3>2. CASE \A j \in 1 .. Toks(b, k) : slot[j] # c
      BY <1>6, <3>2 DEF Map
    <3> QED
      BY <3>1, <3>2
  <2>2. ds = [c \in Cells |-> ds[c]]
    BY DEF Put
  <2> HIDE DEF ds
  <2> QED
    BY <2>1, <2>2 DEF Map
<1> HIDE DEF ds
<1>8. \A i \in 1 .. k : \A j \in 1 .. Toks(b, i) : ds[sl[i][j]] = b.first + (Start(i) + j - 1)
  <2> SUFFICES ASSUME NEW i \in 1 .. k, NEW j \in 1 .. Toks(b, i)
               PROVE  ds[sl[i][j]] = b.first + (Start(i) + j - 1)
    OBVIOUS
  <2>1. CASE i = k
    BY <1>5, <2>1
  <2>2. CASE i # k
    <3>1. i \in 1 .. k - 1 /\ i \in 1 .. Len(sl) /\ k - 1 \in 0 .. Len(sl)
      BY <1>1, <2>2
    <3>2. sl[i][j] \in Cells /\ cs[sl[i][j]] = b.first + (Start(i) + j - 1)
      BY <3>1, PlacedIn
    <3>3. \A l \in 1 .. Toks(b, k) : slot[l] # sl[i][j]
      BY <2>2, <3>1 DEF Plan
    <3> QED
      BY <1>6, <3>2, <3>3
  <2> QED
    BY <2>1, <2>2
<1>9. \A c \in Cells : ~InFirst(b, sl, k, c) => ds[c] = base[c]
  <2> SUFFICES ASSUME NEW c \in Cells, ~InFirst(b, sl, k, c) PROVE ds[c] = base[c]
    OBVIOUS
  <2>1. k \in 1 .. k /\ \A i \in 1 .. k - 1 : i \in 1 .. k
    BY <1>1
  <2>2. ~InFirst(b, sl, k - 1, c)
    BY <2>1 DEF InFirst
  <2>3. \A j \in 1 .. Toks(b, k) : slot[j] # c
    BY <2>1 DEF InFirst
  <2> QED
    BY <1>6, <2>2, <2>3 DEF PlacedTo
<1> QED
  BY <1>7, <1>8, <1>9 DEF PlacedTo, ds

\* The cells of a slot hold again what they held.
Undone(cs, slot, held) ==
  [c \in Cells |-> IF \E j \in DOMAIN slot : slot[j] = c
                   THEN held[CHOOSE j \in DOMAIN slot : slot[j] = c]
                   ELSE cs[c]]

\* prepare takes the last ubatch back from its cells.
LEMMA TakeBack ==
  ASSUME NEW base, NEW b, NEW sl, NEW g, Plan(base, b, sl, g), NEW k \in 1 .. Len(sl), NEW cs \in Map,
         PlacedTo(base, b, sl, k, cs), NEW held, held = [j \in 1 .. Toks(b, k) |-> Empty],
         NEW slot, slot = sl[k]
  PROVE  /\ Undone(cs, slot, held) \in Map
         /\ PlacedTo(base, b, sl, k - 1, Undone(cs, slot, held))
<1>0. PICK ds : /\ ds = Undone(cs, slot, held)
                /\ ds = [c \in Cells |-> IF \E j \in DOMAIN slot : slot[j] = c
                                         THEN held[CHOOSE j \in DOMAIN slot : slot[j] = c]
                                         ELSE cs[c]]
  BY DEF Undone
<1>1. /\ k \in Nat /\ k >= 1 /\ base \in Map
      /\ slot \in [1 .. Toks(b, k) -> Free(base)] /\ DOMAIN slot = 1 .. Toks(b, k)
  BY PlanCuts DEF Plan
<1>2. \A c \in Cells : (\A j \in 1 .. Toks(b, k) : slot[j] # c) => ds[c] = cs[c]
  BY <1>0, <1>1
<1>3. \A c \in Cells : (\E j \in 1 .. Toks(b, k) : slot[j] = c) => ds[c] = Empty /\ base[c] = Empty
  <2> SUFFICES ASSUME NEW c \in Cells, NEW j \in 1 .. Toks(b, k), slot[j] = c
               PROVE  ds[c] = Empty /\ base[c] = Empty
    OBVIOUS
  <2>1. base[c] = Empty
    BY <1>1 DEF Free
  <2>2. ds[c] = held[CHOOSE i \in DOMAIN slot : slot[i] = c]
    BY <1>0, <1>1
  <2>3. (CHOOSE i \in DOMAIN slot : slot[i] = c) \in 1 .. Toks(b, k)
    BY <1>1
  <2> QED
    BY <2>1, <2>2, <2>3
<1>4. ds \in Map
  <2>1. \A c \in Cells : ds[c] \in Positions \cup {Empty}
    BY <1>2, <1>3 DEF Map
  <2>2. ds = [c \in Cells |-> ds[c]]
    BY <1>0
  <2> QED
    BY <2>1, <2>2 DEF Map
<1>5. \A i \in 1 .. k - 1 : \A j \in 1 .. Toks(b, i) : ds[sl[i][j]] = b.first + (Start(i) + j - 1)
  <2> SUFFICES ASSUME NEW i \in 1 .. k - 1, NEW j \in 1 .. Toks(b, i)
               PROVE  ds[sl[i][j]] = b.first + (Start(i) + j - 1)
    OBVIOUS
  <2>1. i \in 1 .. k /\ i \in 1 .. Len(sl) /\ i # k /\ k \in 0 .. Len(sl)
    BY <1>1
  <2>2. sl[i][j] \in Cells /\ cs[sl[i][j]] = b.first + (Start(i) + j - 1)
    BY <2>1, PlacedIn
  <2>3. \A l \in 1 .. Toks(b, k) : slot[l] # sl[i][j]
    BY <2>1 DEF Plan
  <2> QED
    BY <1>2, <2>2, <2>3
<1>6. \A c \in Cells : ~InFirst(b, sl, k - 1, c) => ds[c] = base[c]
  <2> SUFFICES ASSUME NEW c \in Cells, ~InFirst(b, sl, k - 1, c) PROVE ds[c] = base[c]
    OBVIOUS
  <2>1. CASE \E j \in 1 .. Toks(b, k) : slot[j] = c
    BY <1>3, <2>1
  <2>2. CASE \A j \in 1 .. Toks(b, k) : slot[j] # c
    <3>1. \A i \in 1 .. k : i \in 1 .. k - 1 \/ i = k
      BY <1>1
    <3>2. ~InFirst(b, sl, k, c)
      BY <2>2, <3>1 DEF InFirst
    <3> QED
      BY <1>2, <2>2, <3>2 DEF PlacedTo
  <2> QED
    BY <2>1, <2>2
<1>7. PlacedTo(base, b, sl, k - 1, ds)
  BY <1>5, <1>6 DEF PlacedTo
<1>8. ds = Undone(cs, slot, held)
  BY <1>0
<1> QED
  BY <1>4, <1>7, <1>8

\* prepare finds cells for one more ubatch: they were free before it began, and
\* are none of those found before.
Fits(base, b, sl, g, cs, i, slot) ==
  /\ Append(sl, slot) \in Seq(SlotSet) /\ slot \in SlotSet
  /\ slot \in [1 .. Toks(b, i) -> Cells] /\ DOMAIN slot = 1 .. Toks(b, i)
  /\ \A j \in 1 .. Toks(b, i) : cs[slot[j]] = Empty
  /\ Toks(b, i) \in Nat /\ Toks(b, i) >= 1
  /\ Len(Append(sl, slot)) = i /\ Append(sl, slot)[i] = slot
  /\ \A m \in 1 .. Len(sl) : Append(sl, slot)[m] = sl[m]
  /\ Plan(base, b, Append(sl, slot), g)
  /\ PlacedTo(base, b, Append(sl, slot), Len(sl), cs)

LEMMA FindNext ==
  ASSUME NEW base, NEW b, NEW sl \in Seq(SlotSet), NEW g, Plan(base, b, sl, g), NEW cs \in Map,
         PlacedTo(base, b, sl, Len(sl), cs), NEW h \in 0 .. Size,
         NEW i, i = Len(sl) + 1, Start(i) < b.n, NEW slot \in SlotsFor(cs, h, Toks(b, i))
  PROVE  Fits(base, b, sl, g, cs, i, slot)
<1> DEFINE n == Toks(b, i)
           al == Append(sl, slot)
<1>1. /\ Len(sl) \in Nat /\ i \in Nat /\ i >= 1 /\ b \in Batch /\ base \in Map /\ b.first \in Nat
  BY DEF Plan, Batch
<1>2. n \in Nat /\ n >= 1
  BY <1>1, Cuts
<1> HIDE DEF n
<1>3. slot \in [1 .. n -> Free(cs)] /\ \A j, l \in 1 .. n : slot[j] = slot[l] => j = l
  BY <1>2, SlotIs DEF n
<1>4. /\ slot \in [1 .. n -> Cells] /\ DOMAIN slot = 1 .. n
      /\ \A j \in 1 .. n : slot[j] \in Cells /\ cs[slot[j]] = Empty
  BY <1>3 DEF Free
<1>5. slot \in SlotSet
  BY <1>2, <1>4 DEF SlotSet
<1>6. /\ al \in Seq(SlotSet) /\ Len(al) = i /\ al[i] = slot
      /\ \A m \in 1 .. Len(sl) : al[m] = sl[m]
  BY <1>1, <1>5, AppendProperties
<1> HIDE DEF al
<1>7. \A j \in 1 .. n : ~InFirst(b, sl, Len(sl), slot[j])
  <2> SUFFICES ASSUME NEW j \in 1 .. n, InFirst(b, sl, Len(sl), slot[j]) PROVE FALSE
    OBVIOUS
  <2>1. PICK m, l : m \in 1 .. Len(sl) /\ l \in 1 .. Toks(b, m) /\ sl[m][l] = slot[j]
    BY DEF InFirst
  <2>2. Len(sl) \in 0 .. Len(sl)
    BY <1>1
  <2>3. cs[sl[m][l]] \in Positions
    BY <2>1, <2>2, PlacedIn
  <2> QED
    BY <1>4, <2>1, <2>3, Sizes
<1>8. slot \in [1 .. n -> Free(base)]
  <2>1. \A j \in 1 .. n : slot[j] \in Free(base)
    BY <1>4, <1>7 DEF PlacedTo, Free
  <2> QED
    BY <1>4, <2>1
<1>9. \A m \in 1 .. i : m \in 1 .. Len(sl) \/ m = i
  BY <1>1
<1>10. \A m \in 1 .. Len(al) : Start(m) < b.n /\ al[m] \in [1 .. Toks(b, m) -> Free(base)]
  BY <1>6, <1>8, <1>9 DEF Plan, n
<1>11. \A m, p \in 1 .. Len(al) : \A j \in 1 .. Toks(b, m), l \in 1 .. Toks(b, p) :
         al[m][j] = al[p][l] => m = p /\ j = l
  <2> SUFFICES ASSUME NEW m \in 1 .. i, NEW p \in 1 .. i, NEW j \in 1 .. Toks(b, m),
                      NEW l \in 1 .. Toks(b, p), al[m][j] = al[p][l]
               PROVE  m = p /\ j = l
    BY <1>6
  <2>1. CASE m \in 1 .. Len(sl) /\ p \in 1 .. Len(sl)
    BY <1>6, <2>1 DEF Plan
  <2>2. CASE m = i /\ p = i
    BY <1>3, <1>6, <2>2 DEF n
  <2>3. CASE m \in 1 .. Len(sl) /\ p = i
    BY <1>6, <1>7, <2>3 DEF InFirst, n
  <2>4. CASE m = i /\ p \in 1 .. Len(sl)
    BY <1>6, <1>7, <2>4 DEF InFirst, n
  <2> QED
    BY <1>9, <2>1, <2>2, <2>3, <2>4
<1>12. Plan(base, b, al, g)
  BY <1>1, <1>6, <1>10, <1>11 DEF Plan
<1>13. PlacedTo(base, b, al, Len(sl), cs)
  <2>1. \A c : InFirst(b, al, Len(sl), c) <=> InFirst(b, sl, Len(sl), c)
    BY <1>6 DEF InFirst
  <2> QED
    BY <1>6, <2>1 DEF PlacedTo
<1> QED
  BY <1>2, <1>4, <1>5, <1>6, <1>12, <1>13 DEF n, al, Fits

LEMMA InARow ==
  ASSUME NEW f \in Nat, NEW u \in Nat
  PROVE  IsFiniteSet(f .. (f + u - 1)) /\ Cardinality(f .. (f + u - 1)) = u
<1> DEFINE e == f + u - 1
<1>1. f \in Int /\ e \in Int /\ (f > e => u = 0) /\ (f <= e => e - f + 1 = u)
  OBVIOUS
<1> HIDE DEF e
<1>2. IsFiniteSet(f .. e) /\ Cardinality(f .. e) = IF f > e THEN 0 ELSE e - f + 1
  BY <1>1, FS_Interval
<1>3. IsFiniteSet(f .. e) /\ Cardinality(f .. e) = u
  BY <1>1, <1>2
<1> QED
  BY <1>3 DEF e

\* Each token takes a cell.
LEMMA FreeAfter ==
  ASSUME NEW base, NEW b, NEW sl, NEW g, Plan(base, b, sl, g), NEW k \in 0 .. Len(sl), NEW cs \in Map,
         PlacedTo(base, b, sl, k, cs)
  PROVE  /\ Cardinality(Free(cs)) = Cardinality(Free(base)) - Upto(b, k)
         /\ Cardinality(Free(cs)) \in Nat /\ Cardinality(Free(base)) \in Nat /\ Upto(b, k) \in Nat
<1>1. /\ b \in Batch /\ b.first \in Nat /\ b.n \in Nat /\ base \in Map /\ k \in Nat
      /\ Gapless(base, g) /\ \A q \in Held(base) : q < b.first
  BY DEF Plan, Batch
<1>2. Upto(b, k) \in Nat
  BY <1>1, Starts DEF Upto
<1> DEFINE N == b.first .. (b.first + Upto(b, k) - 1)
<1>3. IsFiniteSet(N) /\ Cardinality(N) = Upto(b, k)
  <2>1. PICK f \in Nat, u \in Nat : f = b.first /\ u = Upto(b, k)
    BY <1>1, <1>2
  <2>2. IsFiniteSet(f .. (f + u - 1)) /\ Cardinality(f .. (f + u - 1)) = u
    BY <2>1, InARow
  <2>3. N = f .. (f + u - 1)
    BY <2>1
  <2> HIDE DEF N
  <2> QED
    BY <2>1, <2>2, <2>3
<1>4. Held(base) \cap N = {} /\ Held(cs) = Held(base) \cup N
  BY <1>1, <1>2, PlacedHeld
<1> HIDE DEF N
<1>5. IsFiniteSet(Held(base)) /\ Cardinality(Held(base)) = Size - Cardinality(Free(base))
  BY <1>1, HeldCounts
<1>6. Cardinality(Held(cs)) = Size - Cardinality(Free(cs))
  BY PlacedGapless, HeldCounts
<1>7. Cardinality(Held(cs)) = Cardinality(Held(base)) + Cardinality(N) - Cardinality(Held(base) \cap N)
  BY <1>3, <1>4, <1>5, FS_Union
<1>8. Cardinality(Held(base) \cap N) = 0
  BY <1>4, FS_EmptySet
<1>9. Cardinality(Free(cs)) \in Nat /\ Cardinality(Free(base)) \in Nat
  BY <1>1, FreeCounts
<1> QED
  BY <1>2, <1>3, <1>5, <1>6, <1>7, <1>8, <1>9, Sizes

-----------------------------------------------------------------------------
(* The inductive invariant *)

SavedSet == [slot : SlotSet, head : 0 .. Size,
             held : UNION {[1 .. n -> Positions \cup {Empty}] : n \in Nat}]

ContextTypes ==
  /\ cells \in Map /\ head \in 0 .. Size
  /\ pc \in {"idle", "prepare", "restore", "apply", "compute"}
  /\ batch \in Batch
  /\ slots \in Seq(SlotSet) /\ saved \in Seq(SavedSet)
  /\ nOut \in {0, 1}
  /\ before.cells \in Map /\ before.head \in 0 .. Size

AllPlaced == Start(Len(slots) + 1) >= batch.n
Room == batch.n <= Cardinality(Free(before.cells))
InPlace(k) == PlacedTo(before.cells, batch, slots, k, cells)

\* What prepare saved takes the cells and the head back to where they were.
Undoable ==
  /\ Len(saved) <= Len(slots)
  /\ InPlace(Len(saved))
  /\ \A i \in 1 .. Len(saved) : /\ saved[i].slot = slots[i]
                                /\ saved[i].held = [j \in 1 .. Toks(batch, i) |-> Empty]
  /\ Len(saved) = 0 => head = before.head
  /\ Len(saved) >= 1 => saved[1].head = before.head

ContextInv ==
  /\ ContextTypes
  /\ pc = "idle" => Gapless(cells, gaps)
  /\ pc # "idle" => Plan(before.cells, batch, slots, gaps) /\ row # "batch" /\ ret = NoRet
  /\ pc \in {"prepare", "restore"} => Undoable /\ cur = 1
  /\ pc = "prepare" => Len(saved) = Len(slots) /\ found
  /\ pc = "restore" => IF found THEN Room /\ AllPlaced ELSE ~Room
  /\ pc \in {"apply", "compute"} => Room /\ AllPlaced /\ cur \in 1 .. Len(slots)
  /\ pc = "apply" => InPlace(cur - 1)
  /\ pc = "compute" => InPlace(cur) /\ nOut = Outputs(cur)

\* The cells, whichever of the ubatches are in place, have no gap.
LEMMA AlwaysGapless == ContextInv => MemoryGapless
<1> SUFFICES ASSUME ContextInv PROVE Gapless(cells, gaps)
  BY DEF MemoryGapless, Gapless
<1>1. CASE pc = "idle"
  BY <1>1 DEF ContextInv
<1>2. ASSUME NEW k \in 0 .. Len(slots), InPlace(k), pc # "idle"
      PROVE  Gapless(cells, gaps)
  BY <1>2, PlacedGapless DEF ContextInv, ContextTypes, InPlace
<1>3. Len(slots) \in Nat /\ Len(saved) \in Nat
  BY LenProperties DEF ContextInv, ContextTypes
<1>4. CASE pc \in {"prepare", "restore"}
  <2>1. Len(saved) \in 0 .. Len(slots) /\ InPlace(Len(saved))
    BY <1>3, <1>4 DEF ContextInv, Undoable
  <2> QED
    BY <1>2, <1>4, <2>1
<1>5. CASE pc = "apply"
  <2>1. cur - 1 \in 0 .. Len(slots) /\ InPlace(cur - 1)
    BY <1>3, <1>5 DEF ContextInv
  <2> QED
    BY <1>2, <1>5, <2>1
<1>6. CASE pc = "compute"
  <2>1. cur \in 0 .. Len(slots) /\ InPlace(cur)
    BY <1>3, <1>6 DEF ContextInv
  <2> QED
    BY <1>2, <1>6, <2>1
<1> QED
  BY <1>1, <1>4, <1>5, <1>6 DEF ContextInv, ContextTypes

LEMMA ContextStarts == Init => ContextInv
<1> SUFFICES ASSUME Init PROVE ContextInv
  OBVIOUS
<1>1. cells \in Map /\ Gapless(cells, gaps)
  BY EmptyMap DEF Init
<1>2. <<>> \in Seq(SlotSet) /\ <<>> \in Seq(SavedSet)
  BY EmptySeq
<1>3. head \in 0 .. Size /\ head = 0 /\ batch \in Batch
  BY Sizes DEF Init, Batch
<1> QED
  BY <1>1, <1>2, <1>3 DEF Init, ContextInv, ContextTypes

LEMMA RemoveKeeps ==
  ASSUME ContextInv, SeqRm \/ Clear
  PROVE  ContextInv'
<1>1. /\ pc = "idle" /\ pc' = "idle" /\ cells \in Map /\ Gapless(cells, gaps) /\ head \in 0 .. Size
      /\ UNCHANGED <<batch, slots, saved, nOut, before>>
  BY DEF SeqRm, Clear, planVars, outVars, ContextInv, ContextTypes
<1>2. cells' \in Map /\ Gapless(cells', gaps') /\ head' \in 0 .. Size
  <2>1. CASE SeqRm
    <3>1. PICK p0 \in 0 .. MaxPos, p1 \in 0 .. MaxPos :
            LET S == p0 .. p1 - 1
                rest == Held(cells) \ S
            IN /\ cells' = Without(cells, S)
               /\ head' = HeadWithout(head, cells, S)
               /\ gaps' = {r \in gaps \cup S : \E p, q \in rest : p < r /\ r < q}
      BY <2>1 DEF SeqRm
    <3> DEFINE S == p0 .. p1 - 1
    <3>2. S \subseteq Positions
      BY CallersAssumption DEF Positions
    <3>3. /\ cells' = Without(cells, S) /\ head' = HeadWithout(head, cells, S)
          /\ \A m \in gaps \cup S : \A p, q \in Held(cells) \ S : p < m /\ m < q => m \in gaps'
      BY <3>1
    <3> HIDE DEF S
    <3> QED
      BY <1>1, <3>2, <3>3, WithoutIs, WithoutGapless, HeadTyped
  <2>2. CASE Clear
    BY <2>2, EmptyMap, Sizes DEF Clear
  <2> QED
    BY <2>1, <2>2
<1> QED
  BY <1>1, <1>2 DEF ContextInv, ContextTypes, Gapless

LEMMA DecodeKeeps ==
  ASSUME ContextInv, NEW p \in Positions, NEW n \in 0 .. MaxBatch, Decode(p, n)
  PROVE  ContextInv'
<1>1. /\ pc = "idle" /\ p + n <= MaxPos /\ before' = [cells |-> cells, head |-> head]
      /\ row' = Aged /\ UNCHANGED <<cells, head, nOut, gaps>>
      /\ cells \in Map /\ Gapless(cells, gaps) /\ head \in 0 .. Size
  BY DEF Decode, memVars, ContextInv, ContextTypes
<1>2. row' # "batch"
  BY <1>1 DEF Aged
<1>3. CASE n = 0 \/ ~Follows(p)
  <2>1. UNCHANGED <<pc, batch, slots, saved>>
    BY <1>3 DEF Decode, planVars
  <2> QED
    BY <1>1, <1>2, <2>1 DEF ContextInv, ContextTypes, Gapless
<1>4. CASE n # 0 /\ Follows(p)
  <2>1. /\ ret' = NoRet /\ pc' = "prepare" /\ batch' = [first |-> p, n |-> n]
        /\ slots' = <<>> /\ saved' = <<>> /\ found' = TRUE /\ cur' = 1
    BY <1>4 DEF Decode
  <2>2. n \in Nat /\ n >= 1 /\ p \in Nat
    BY <1>4, CallersAssumption, Sizes
  <2>3. Len(slots') = 0 /\ Len(saved') = 0 /\ 1 .. 0 = {}
        /\ slots' \in Seq(SlotSet) /\ saved' \in Seq(SavedSet)
    BY <2>1, EmptySeq
  <2>4. batch' \in Batch /\ batch'.first = p /\ batch'.n = n
    BY <2>1, <2>2 DEF Batch
  <2>5. before'.cells = cells /\ before'.head = head
    BY <1>1
  <2>6. Plan(cells, batch', slots', gaps)
    BY <1>1, <1>4, <2>2, <2>3, <2>4 DEF Plan, Follows
  <2>7. PlacedTo(cells, batch', slots', 0, cells)
    BY <2>3 DEF PlacedTo
  <2>8. PlacedTo(before'.cells, batch', slots', Len(saved'), cells') /\ Plan(before'.cells, batch', slots', gaps')
    BY <1>1, <2>3, <2>5, <2>6, <2>7
  <2>9. ContextTypes'
    BY <1>1, <2>1, <2>3, <2>4, <2>5 DEF ContextTypes, ContextInv
  <2>10. Undoable'
    BY <1>1, <2>3, <2>5, <2>8 DEF Undoable, InPlace
  <2> QED
    BY <1>1, <1>2, <2>1, <2>3, <2>8, <2>9, <2>10 DEF ContextInv
<1> QED
  BY <1>3, <1>4

LEMMA PlaceKeeps ==
  ASSUME ContextInv, Place
  PROVE  ContextInv'
<1> DEFINE i == Len(slots) + 1
<1>1. /\ pc = "prepare" /\ Start(i) < batch.n
      /\ UNCHANGED <<pc, batch, found, cur, nOut, row, ret, before, gaps>>
  BY DEF Place, outVars
<1>2. PICK slot \in SlotsFor(cells, head, Toks(batch, i)) :
        /\ slots' = Append(slots, slot)
        /\ saved' = Append(saved, [slot |-> slot, head |-> head,
                                   held |-> [j \in DOMAIN slot |-> cells[slot[j]]]])
        /\ cells' = Put(cells, slot, batch.first + Start(i))
        /\ head' = slot[Toks(batch, i)] + 1
  BY DEF Place, Tokens, Toks
<1>3. /\ cells \in Map /\ head \in 0 .. Size /\ slots \in Seq(SlotSet) /\ saved \in Seq(SavedSet)
      /\ Plan(before.cells, batch, slots, gaps) /\ row # "batch" /\ ret = NoRet
      /\ Len(saved) = Len(slots) /\ found /\ cur = 1 /\ Len(slots) \in Nat
      /\ PlacedTo(before.cells, batch, slots, Len(slots), cells)
  BY <1>1, LenProperties DEF ContextInv, ContextTypes, Undoable, InPlace
<1>4. /\ slots' \in Seq(SlotSet) /\ slot \in SlotSet
      /\ slot \in [1 .. Toks(batch, i) -> Cells] /\ DOMAIN slot = 1 .. Toks(batch, i)
      /\ \A j \in 1 .. Toks(batch, i) : cells[slot[j]] = Empty
      /\ Toks(batch, i) \in Nat /\ Toks(batch, i) >= 1
      /\ Len(slots') = i /\ slots'[i] = slot /\ \A m \in 1 .. Len(slots) : slots'[m] = slots[m]
      /\ Plan(before.cells, batch, slots', gaps)
      /\ PlacedTo(before.cells, batch, slots', Len(slots), cells)
  <2>1. /\ Start(i) < batch.n /\ cells \in Map /\ head \in 0 .. Size /\ slots \in Seq(SlotSet)
        /\ Plan(before.cells, batch, slots, gaps) /\ PlacedTo(before.cells, batch, slots, Len(slots), cells)
        /\ i = Len(slots) + 1
    BY <1>1, <1>3
  <2>2. Fits(before.cells, batch, slots, gaps, cells, i, slot)
    BY <2>1, FindNext
  <2> QED
    BY <1>2, <2>2 DEF Fits
<1>5. /\ i \in 1 .. Len(slots') /\ i - 1 = Len(slots) /\ i \in Nat /\ i >= 1
  BY <1>3, <1>4
<1>6. cells' \in Map /\ PlacedTo(before.cells, batch, slots', i, cells')
  <2>1. PlacedTo(before.cells, batch, slots', i - 1, cells)
    BY <1>4, <1>5
  <2>2. cells' = Put(cells, slots'[i], batch.first + Start(i))
    BY <1>2, <1>4
  <2> HIDE DEF i
  <2> QED
    BY <1>3, <1>4, <1>5, <2>1, <2>2, PutNext
<1>7. head' \in 0 .. Size
  <2>1. slot[Toks(batch, i)] \in Cells
    BY <1>4
  <2> QED
    BY <1>2, <2>1, Sizes
<1>8. /\ saved' \in Seq(SavedSet) /\ Len(saved') = i
      /\ saved'[i].slot = slot /\ saved'[i].head = head
      /\ saved'[i].held = [j \in 1 .. Toks(batch, i) |-> Empty]
      /\ \A m \in 1 .. Len(saved) : saved'[m] = saved[m]
  <2> DEFINE h == [j \in DOMAIN slot |-> cells[slot[j]]]
             e == [slot |-> slot, head |-> head, held |-> h]
  <2>1. h = [j \in 1 .. Toks(batch, i) |-> Empty]
    BY <1>4
  <2>2. h \in UNION {[1 .. n -> Positions \cup {Empty}] : n \in Nat}
    BY <1>4, <2>1
  <2> HIDE DEF h
  <2>3. e \in SavedSet /\ e.slot = slot /\ e.head = head /\ e.held = h
    BY <1>3, <1>4, <2>2 DEF SavedSet
  <2>4. saved' = Append(saved, e)
    BY <1>2 DEF h
  <2> HIDE DEF e
  <2> QED
    BY <1>3, <2>1, <2>3, <2>4, AppendProperties
<1> HIDE DEF i
<1>9. \A m \in 1 .. i : m \in 1 .. Len(slots) \/ m = i
  BY <1>3, <1>5
<1>10. ContextTypes'
  BY <1>1, <1>4, <1>6, <1>7, <1>8 DEF ContextInv, ContextTypes
<1>11. Undoable'
  <2>1. \A m \in 1 .. Len(slots) : /\ saved[m].slot = slots[m]
                                   /\ saved[m].held = [j \in 1 .. Toks(batch, m) |-> Empty]
    BY <1>1, <1>3 DEF ContextInv, Undoable
  <2>2. \A m \in 1 .. i : /\ saved'[m].slot = slots'[m]
                          /\ saved'[m].held = [j \in 1 .. Toks(batch, m) |-> Empty]
    BY <1>3, <1>4, <1>8, <1>9, <2>1
  <2>3. saved'[1].head = before.head
    <3>1. CASE i = 1
      <4>1. head = before.head
        BY <1>1, <1>3, <1>5, <3>1 DEF ContextInv, Undoable
      <4> QED
        BY <1>8, <3>1, <4>1
    <3>2. CASE i # 1
      <4>1. Len(saved) >= 1 /\ 1 \in 1 .. Len(saved)
        BY <1>3, <1>5, <3>2
      <4>2. saved[1].head = before.head
        BY <1>1, <4>1 DEF ContextInv, Undoable
      <4> QED
        BY <1>8, <4>1, <4>2
    <3> QED
      BY <3>1, <3>2
  <2>4. InPlace(Len(saved))'
    BY <1>1, <1>6, <1>8 DEF InPlace
  <2> QED
    BY <1>1, <1>4, <1>5, <1>8, <2>2, <2>3, <2>4 DEF Undoable
<1>12. Plan(before.cells, batch, slots, gaps)'
  BY <1>1, <1>4
<1> QED
  BY <1>1, <1>3, <1>4, <1>8, <1>10, <1>11, <1>12 DEF ContextInv

LEMMA PlacedKeeps ==
  ASSUME ContextInv, Placed
  PROVE  ContextInv'
<1> DEFINE i == Len(slots) + 1
<1>1. /\ pc = "prepare" /\ pc' = "restore"
      /\ UNCHANGED <<cells, head, batch, slots, saved, cur, nOut, row, ret, before, gaps>>
  BY DEF Placed, memVars, outVars
<1>2. /\ cells \in Map /\ head \in 0 .. Size /\ batch \in Batch /\ batch.n \in Nat
      /\ Plan(before.cells, batch, slots, gaps) /\ row # "batch" /\ ret = NoRet
      /\ found /\ cur = 1 /\ Len(slots) \in Nat /\ Undoable
      /\ PlacedTo(before.cells, batch, slots, Len(slots), cells)
  BY <1>1, LenProperties DEF ContextInv, ContextTypes, Undoable, InPlace, Batch
<1>3. /\ Cardinality(Free(cells)) = Cardinality(Free(before.cells)) - Upto(batch, Len(slots))
      /\ Cardinality(Free(cells)) \in Nat /\ Cardinality(Free(before.cells)) \in Nat
      /\ Upto(batch, Len(slots)) \in Nat
  BY <1>2, FreeAfter
<1>4. i \in Nat /\ i >= 1 /\ i - 1 = Len(slots) /\ Start(i) \in Nat
  <2>1. i \in Nat /\ i >= 1 /\ i - 1 = Len(slots)
    BY <1>2
  <2> HIDE DEF i
  <2> QED
    BY <2>1, Starts
<1>5. CASE Start(i) >= batch.n /\ UNCHANGED found
  <2>1. Upto(batch, Len(slots)) = batch.n
    BY <1>2, <1>4, <1>5 DEF Upto
  <2>2. Room
    BY <1>2, <1>3, <2>1 DEF Room
  <2> QED
    BY <1>1, <1>2, <1>5, <2>2 DEF ContextInv, ContextTypes, Undoable, InPlace, Room, AllPlaced
<1>6. CASE /\ Start(i) < batch.n /\ found' = FALSE
           /\ SlotsFor(cells, head, Toks(batch, i)) = {}
  <2>1. /\ Toks(batch, i) \in Nat /\ Toks(batch, i) >= 1
        /\ Start(i) + Toks(batch, i) <= batch.n /\ Upto(batch, Len(slots)) = Start(i)
    BY <1>2, <1>4, <1>6, Cuts
  <2>2. Cardinality(Free(cells)) < Toks(batch, i)
    BY <1>2, <1>6, <2>1, SlotExists
  <2>3. ~Room
    BY <1>2, <1>3, <1>4, <2>1, <2>2 DEF Room
  <2> QED
    BY <1>1, <1>2, <1>6, <2>3 DEF ContextInv, ContextTypes, Undoable, InPlace, Room, AllPlaced
<1> QED
  BY <1>5, <1>6 DEF Placed, Tokens, Toks

LEMMA RestoreKeeps ==
  ASSUME ContextInv, Restore
  PROVE  ContextInv'
<1> DEFINE k == Len(saved)
           s == saved[k]
<1>1. /\ pc = "restore" /\ saved # <<>> /\ head' = s.head
      /\ saved' = SubSeq(saved, 1, k - 1)
      /\ cells' = [c \in Cells |-> IF \E j \in DOMAIN s.slot : s.slot[j] = c
                                   THEN s.held[CHOOSE j \in DOMAIN s.slot : s.slot[j] = c]
                                   ELSE cells[c]]
      /\ UNCHANGED <<pc, batch, slots, found, cur, nOut, row, ret, before, gaps>>
  BY DEF Restore, outVars, OldHead
<1>2. /\ cells \in Map /\ saved \in Seq(SavedSet) /\ Undoable
      /\ Plan(before.cells, batch, slots, gaps) /\ row # "batch" /\ ret = NoRet /\ cur = 1
      /\ IF found THEN Room /\ AllPlaced ELSE ~Room
      /\ Len(slots) \in Nat /\ k \in Nat /\ k <= Len(slots)
      /\ PlacedTo(before.cells, batch, slots, k, cells)
  BY <1>1, LenProperties DEF ContextInv, ContextTypes, Undoable, InPlace
<1>3. k >= 1 /\ k \in 1 .. Len(slots) /\ k \in 1 .. k /\ k - 1 \in Nat /\ s \in SavedSet
  <2>1. k # 0
    BY <1>1, <1>2, EmptySeq
  <2> QED
    BY <1>2, <2>1, ElementOfSeq
<1>4. s.slot = slots[k] /\ s.held = [j \in 1 .. Toks(batch, k) |-> Empty] /\ s.head \in 0 .. Size
  BY <1>2, <1>3 DEF Undoable, SavedSet
<1>5. cells' \in Map /\ PlacedTo(before.cells, batch, slots, k - 1, cells')
  <2>1. cells' = Undone(cells, s.slot, s.held)
    BY <1>1 DEF Undone
  <2> HIDE DEF s, k
  <2> QED
    BY <1>2, <1>3, <1>4, <2>1, TakeBack
<1>6. /\ saved' \in Seq(SavedSet) /\ Len(saved') = k - 1
      /\ \A m \in 1 .. k - 1 : saved'[m] = saved[m]
  <2>1. \A m \in 1 .. k - 1 : m \in 1 .. k /\ 1 + m - 1 = m
    BY <1>3
  <2>2. /\ saved' \in Seq(SavedSet)
        /\ Len(saved') = IF 1 <= k - 1 THEN (k - 1) - 1 + 1 ELSE 0
        /\ \A m \in 1 .. (k - 1) - 1 + 1 : saved'[m] = saved[1 + m - 1]
    <3>1. 1 \in 1 .. Len(saved) + 1 /\ k - 1 \in 0 .. Len(saved)
      BY <1>2, <1>3
    <3> HIDE DEF k
    <3> QED
      BY <1>1, <1>2, <3>1, SubSeqProperties
  <2> HIDE DEF k
  <2>3. 1 .. (k - 1) - 1 + 1 = 1 .. k - 1 /\ Len(saved') = k - 1
    BY <1>3, <2>2
  <2> QED
    BY <2>1, <2>2, <2>3
<1>7. ContextTypes'
  BY <1>1, <1>4, <1>5, <1>6 DEF ContextInv, ContextTypes
<1>8. Undoable'
  <2>1. \A m \in 1 .. k - 1 : /\ saved'[m].slot = slots[m]
                              /\ saved'[m].held = [j \in 1 .. Toks(batch, m) |-> Empty]
    <3>1. \A m \in 1 .. k - 1 : m \in 1 .. k
      BY <1>3
    <3> QED
      BY <1>2, <1>6, <3>1 DEF Undoable
  <2>2. saved[1].head = before.head
    BY <1>2, <1>3 DEF Undoable
  <2>3. k - 1 = 0 => head' = before.head
    <3>1. k - 1 = 0 => k = 1
      BY <1>3
    <3> QED
      BY <1>1, <2>2, <3>1
  <2>4. k - 1 >= 1 => saved'[1].head = before.head
    <3>1. k - 1 >= 1 => 1 \in 1 .. k - 1
      BY <1>3
    <3> QED
      BY <1>6, <2>2, <3>1
  <2>5. k - 1 <= Len(slots)
    BY <1>2, <1>3
  <2> HIDE DEF k, s
  <2> QED
    BY <1>1, <1>5, <1>6, <2>1, <2>3, <2>4, <2>5 DEF Undoable, InPlace
<1>9. /\ Plan(before.cells, batch, slots, gaps)' /\ (row # "batch")' /\ (ret = NoRet)'
      /\ (IF found THEN Room /\ AllPlaced ELSE ~Room)'
  BY <1>1, <1>2 DEF Room, AllPlaced
<1> QED
  BY <1>1, <1>2, <1>7, <1>8, <1>9 DEF ContextInv

LEMMA PreparedKeeps ==
  ASSUME ContextInv, Prepared
  PROVE  ContextInv'
<1>1. /\ pc = "restore" /\ saved = <<>>
      /\ UNCHANGED <<cells, head, batch, slots, saved, found, cur, row, before, gaps>>
  BY DEF Prepared, memVars, planVars
<1>2. /\ cells \in Map /\ head \in 0 .. Size /\ Len(slots) \in Nat /\ Len(saved) = 0
      /\ Plan(before.cells, batch, slots, gaps) /\ row # "batch" /\ ret = NoRet /\ cur = 1
      /\ IF found THEN Room /\ AllPlaced ELSE ~Room
      /\ PlacedTo(before.cells, batch, slots, 0, cells)
  BY <1>1, LenProperties, EmptySeq DEF ContextInv, ContextTypes, Undoable, InPlace
<1>3. Gapless(cells, gaps)
  BY <1>2, PlacedGapless
<1>4. CASE found
  <2>1. pc' = "apply" /\ nOut' = 0 /\ UNCHANGED ret
    BY <1>1, <1>4 DEF Prepared
  <2>2. 1 \in 1 .. Len(slots)
    <3>1. Start(Len(slots) + 1) >= batch.n /\ batch.n >= 1 /\ batch.n \in Nat
      BY <1>2, <1>4 DEF AllPlaced, Plan, Batch
    <3>2. Len(slots) # 0
      BY <3>1, Starts
    <3> QED
      BY <1>2, <3>2
  <2>3. PlacedTo(before.cells, batch, slots, cur' - 1, cells)
    BY <1>1, <1>2
  <2> QED
    BY <1>1, <1>2, <1>4, <2>1, <2>2, <2>3
       DEF ContextInv, ContextTypes, InPlace, Room, AllPlaced
<1>5. CASE ~found
  <2>1. pc' = "idle" /\ UNCHANGED nOut
    BY <1>1, <1>5 DEF Prepared
  <2> QED
    BY <1>1, <1>3, <2>1 DEF ContextInv, ContextTypes, Gapless
<1> QED
  BY <1>4, <1>5

LEMMA ApplyKeeps ==
  ASSUME ContextInv, Apply
  PROVE  ContextInv'
<1>1. /\ pc = "apply" /\ pc' = "compute"
      /\ cells' = Put(cells, slots[cur], batch.first + Start(cur))
      /\ head' = slots[cur][Toks(batch, cur)] + 1
      /\ nOut' = Outputs(cur)
      /\ UNCHANGED <<batch, slots, saved, found, cur, row, ret, before, gaps>>
  BY DEF Apply, planVars, Tokens, Toks
<1>2. /\ cells \in Map /\ Plan(before.cells, batch, slots, gaps) /\ row # "batch" /\ ret = NoRet
      /\ Room /\ AllPlaced /\ cur \in 1 .. Len(slots)
      /\ PlacedTo(before.cells, batch, slots, cur - 1, cells)
  BY <1>1 DEF ContextInv, ContextTypes, InPlace
<1>3. cells' \in Map /\ PlacedTo(before.cells, batch, slots, cur, cells')
  BY <1>1, <1>2, PutNext
<1>4. head' \in 0 .. Size
  <2>1. /\ before.cells \in Map /\ Toks(batch, cur) \in Nat /\ Toks(batch, cur) >= 1
        /\ slots[cur] \in [1 .. Toks(batch, cur) -> Free(before.cells)]
    BY <1>2, PlanCuts DEF Plan
  <2>2. Toks(batch, cur) \in 1 .. Toks(batch, cur) /\ Free(before.cells) \subseteq Cells
    BY <2>1 DEF Free
  <2>3. slots[cur][Toks(batch, cur)] \in Cells
    BY <2>1, <2>2
  <2> QED
    BY <1>1, <2>3, Sizes
<1>5. nOut' \in {0, 1} /\ nOut' = Outputs(cur)' /\ InPlace(cur)'
  BY <1>1, <1>3 DEF Outputs, IsLast, Start, InPlace
<1> QED
  BY <1>1, <1>2, <1>3, <1>4, <1>5 DEF ContextInv, ContextTypes, Room, AllPlaced

LEMMA ComputeSucceedsKeeps ==
  ASSUME ContextInv, ComputeSucceeds
  PROVE  ContextInv'
<1>1. /\ pc = "compute" /\ row' = IF nOut > 0 THEN "batch" ELSE row
      /\ UNCHANGED <<cells, head, batch, slots, saved, found, before, gaps>>
  BY DEF ComputeSucceeds, memVars
<1>2. /\ cells \in Map /\ Plan(before.cells, batch, slots, gaps) /\ row # "batch" /\ ret = NoRet
      /\ Room /\ AllPlaced /\ cur \in 1 .. Len(slots) /\ Len(slots) \in Nat
      /\ PlacedTo(before.cells, batch, slots, cur, cells) /\ nOut = Outputs(cur)
  BY <1>1, LenProperties DEF ContextInv, ContextTypes, InPlace
<1>3. CASE IsLast(cur)
  <2>1. pc' = "idle" /\ nOut' = 1
    BY <1>3 DEF ComputeSucceeds
  <2>2. cur \in 0 .. Len(slots)
    BY <1>2
  <2>3. Gapless(cells, gaps)
    BY <1>2, <2>2, PlacedGapless
  <2> QED
    BY <1>1, <2>1, <2>3 DEF ContextInv, ContextTypes, Gapless
<1>4. CASE ~IsLast(cur)
  <2>1. pc' = "apply" /\ cur' = cur + 1 /\ ret' = ret /\ nOut' = nOut
    BY <1>4 DEF ComputeSucceeds
  <2>2. row' = row
    BY <1>1, <1>2, <1>4 DEF Outputs
  <2>3. cur # Len(slots)
    <3>1. batch.n \in Nat /\ cur \in Nat /\ cur >= 1 /\ Start(cur) \in Nat
      BY <1>2, Starts DEF Plan, Batch
    <3>2. Start(cur + 1) < batch.n
      <4>1. Start(cur + 1) = Start(cur) + UBatch
        BY <3>1, Starts
      <4>2. ~(Start(cur) + UBatch >= batch.n)
        BY <1>4 DEF IsLast
      <4> QED
        BY <3>1, <4>1, <4>2, Sizes
    <3>3. Start(Len(slots) + 1) >= batch.n
      BY <1>2 DEF AllPlaced
    <3>4. Start(cur + 1) \in Nat
      BY <3>1, Starts
    <3> QED
      BY <3>1, <3>2, <3>3, <3>4
  <2>4. cur' \in 1 .. Len(slots) /\ cur' - 1 = cur
    BY <1>2, <2>1, <2>3
  <2> QED
    BY <1>1, <1>2, <2>1, <2>2, <2>4 DEF ContextInv, ContextTypes, InPlace, Room, AllPlaced
<1> QED
  BY <1>3, <1>4

LEMMA ComputeFailsKeeps ==
  ASSUME ContextInv, NEW status, ComputeFails(status)
  PROVE  ContextInv'
<1>1. /\ pc = "compute" /\ pc' = "idle"
      /\ cells' = Without(cells, Lost) /\ head' = HeadWithout(head, cells, Lost)
      /\ UNCHANGED <<batch, slots, saved, nOut, before, gaps>>
  BY DEF ComputeFails, planVars, outVars
<1>2. cells \in Map /\ head \in 0 .. Size /\ Gapless(cells, gaps)
  BY AlwaysGapless DEF ContextInv, ContextTypes, MemoryGapless, Gapless
<1>3. /\ batch.first \in Nat /\ Start(cur) \in Nat
  <2>1. batch \in Batch /\ cur \in Nat /\ cur >= 1
    BY <1>1 DEF ContextInv, ContextTypes
  <2> QED
    BY <2>1, Starts DEF Batch
<1>4. /\ Lost \subseteq Positions
      /\ \A m \in gaps \cup Lost : \A p, q \in Held(cells) \ Lost : p < m /\ m < q => m \in gaps
  <2>1. Held(cells) \subseteq Positions
    BY <1>2, HeldIs
  <2> QED
    BY <1>3, <2>1, Sizes DEF Lost
<1>5. cells' \in Map /\ head' \in 0 .. Size
  BY <1>1, <1>2, <1>4, WithoutIs, HeadTyped
<1>6. Gapless(Without(cells, Lost), gaps)
  BY <1>2, <1>4, WithoutGapless
<1> QED
  BY <1>1, <1>5, <1>6 DEF ContextInv, ContextTypes, Gapless

LEMMA ContextKeeps == ContextInv /\ [Next]_contextVars => ContextInv'
<1> SUFFICES ASSUME ContextInv, [Next]_contextVars PROVE ContextInv'
  OBVIOUS
<1>1. CASE SeqRm \/ Clear
  BY <1>1, RemoveKeeps
<1>2. CASE \E p \in Positions, n \in 0 .. MaxBatch : Decode(p, n)
  BY <1>2, DecodeKeeps
<1>3. CASE Place
  BY <1>3, PlaceKeeps
<1>4. CASE Placed
  BY <1>4, PlacedKeeps
<1>5. CASE Restore
  BY <1>5, RestoreKeeps
<1>6. CASE Prepared
  BY <1>6, PreparedKeeps
<1>7. CASE Apply
  BY <1>7, ApplyKeeps
<1>8. CASE ComputeSucceeds
  BY <1>8, ComputeSucceedsKeeps
<1>9. CASE \E status \in Fatal : ComputeFails(status)
  BY <1>9, ComputeFailsKeeps
<1>10. CASE UNCHANGED contextVars
  BY <1>10 DEF contextVars, ContextInv, ContextTypes, Gapless, Undoable, InPlace, Room, AllPlaced,
               Outputs, IsLast, Start
<1> QED
  BY <1>1, <1>2, <1>3, <1>4, <1>5, <1>6, <1>7, <1>8, <1>9, <1>10 DEF Next, CallOrStep

\* The memory has no position twice, and no gap but what clients have cut out of
\* it, whatever sizes the cache, the batches and the ubatches have.
THEOREM ContextGapless == Spec => []MemoryGapless
<1>1. Spec => []ContextInv
  BY ContextStarts, ContextKeeps, PTL DEF Spec
<1> QED
  BY <1>1, AlwaysGapless, PTL

-----------------------------------------------------------------------------
(* What a call tells *)

UpTo(b, n) == {b.first + i : i \in 0 .. n - 1}

\* The positions of the first n tokens of a batch follow one another.
LEMMA UpToIs ==
  ASSUME NEW b \in Batch, NEW n \in Nat
  PROVE  UpTo(b, n) = b.first .. (b.first + n - 1)
<1>1. PICK f \in Nat : f = b.first
  BY DEF Batch
<1>2. ASSUME NEW x \in f .. (f + n - 1) PROVE x \in {f + i : i \in 0 .. n - 1}
  <2>1. x - f \in 0 .. n - 1 /\ x = f + (x - f)
    BY <1>2
  <2> QED
    BY <2>1
<1>3. ASSUME NEW i \in 0 .. n - 1 PROVE f + i \in f .. (f + n - 1)
  BY <1>3
<1>4. UpTo(b, n) = {f + i : i \in 0 .. n - 1}
  BY <1>1 DEF UpTo
<1> QED
  BY <1>1, <1>2, <1>3, <1>4

LEMMA Multiple ==
  ASSUME NEW u \in Nat, u >= 1, NEW d \in Nat
  PROVE  (d * u) % u = 0
<1>1. PICK q \in Int, r \in Int : r = (d * u) % u /\ d * u = u * q + r /\ 0 <= r /\ r < u
  <2>1. PICK x \in Int : x = d * u
    OBVIOUS
  <2>2. x % u \in Int /\ 0 <= x % u /\ x % u < u
    OBVIOUS
  <2>3. x \div u \in Int
    OBVIOUS
  <2>4. x = u * (x \div u) + (x % u)
    OBVIOUS
  <2> QED
    BY <2>1, <2>2, <2>3, <2>4
<1>2. PICK e \in Int : e = d - q
  BY <1>1
<1>3. r = u * e
  BY <1>1, <1>2
<1>4. ~(e >= 1)
  <2> SUFFICES ASSUME e >= 1 PROVE FALSE
    OBVIOUS
  <2>1. u * e >= u
    OBVIOUS
  <2> QED
    BY <1>1, <1>3, <2>1
<1>5. ~(e <= -1)
  <2> SUFFICES ASSUME e <= -1 PROVE FALSE
    OBVIOUS
  <2>1. u * e <= -u
    OBVIOUS
  <2> QED
    BY <1>1, <1>3, <2>1
<1> QED
  BY <1>1, <1>3, <1>4, <1>5

\* With k ubatches in place, the cache holds what it held and their tokens.
LEMMA AddedIs ==
  ASSUME NEW base, NEW b, NEW sl, NEW g, Plan(base, b, sl, g), NEW k \in 0 .. Len(sl), NEW cs \in Map,
         PlacedTo(base, b, sl, k, cs)
  PROVE  /\ Held(base) \subseteq Held(cs)
         /\ Held(cs) \ Held(base) = UpTo(b, Upto(b, k))
<1>1. /\ b \in Batch /\ b.first \in Nat /\ base \in Map /\ k \in Nat /\ b.n \in Nat
      /\ \A q \in Held(base) : q < b.first
  BY DEF Plan, Batch
<1>2. Upto(b, k) \in Nat
  BY <1>1, Starts DEF Upto
<1>3. UpTo(b, Upto(b, k)) = b.first .. (b.first + Upto(b, k) - 1)
  BY <1>1, <1>2, UpToIs
<1>4. Held(cs) = Held(base) \cup UpTo(b, Upto(b, k))
  BY <1>3, PlacedHeld
<1>5. \A q \in UpTo(b, Upto(b, k)) : q >= b.first /\ q \in Int
  BY <1>1, <1>2, <1>3
<1>6. Held(base) \cap UpTo(b, Upto(b, k)) = {}
  BY <1>1, <1>5
<1> QED
  BY <1>4, <1>6

\* A cache in which nothing is placed is the one before the call.
LEMMA NonePlaced ==
  ASSUME NEW base, NEW b, NEW sl, NEW g, Plan(base, b, sl, g), NEW cs \in Map, PlacedTo(base, b, sl, 0, cs)
  PROVE  cs = base
<1>1. \A c \in Cells : cs[c] = base[c]
  BY DEF PlacedTo, InFirst
<1>2. base \in Map
  BY DEF Plan
<1> QED
  BY <1>1, <1>2 DEF Map

Told(r) ==
  /\ r \in {0, 1} \cup Fatal => (r = 1 <=> ~Room)
  /\ r = 0 => /\ Held(before.cells) \subseteq Held(cells)
              /\ Held(cells) \ Held(before.cells) = UpTo(batch, batch.n)
  /\ r \in {1, -1} => cells = before.cells /\ head = before.head
  /\ r \in Fatal =>
       /\ Held(before.cells) \subseteq Held(cells)
       /\ \E k \in 0 .. batch.n - 1 :
            k % UBatch = 0 /\ Held(cells) \ Held(before.cells) = UpTo(batch, k)
  /\ r # NoRet => (r = 0 <=> nOut = 1 /\ row = "batch")

LEMMA ToldTells == ContextInv => (ReturnTells <=> (pc = "idle" => Told(ret)))
<1> SUFFICES ASSUME ContextInv PROVE ReturnTells <=> (pc = "idle" => Told(ret))
  OBVIOUS
<1>1. Room <=> ~(batch.n > Cardinality(Free(before.cells)))
  <2>1. batch.n \in Nat /\ Cardinality(Free(before.cells)) \in Nat
    BY FreeCounts DEF ContextInv, ContextTypes, Batch
  <2> QED
    BY <2>1 DEF Room
<1>2. \A n : UpTo(batch, n) = {batch.first + i : i \in 0 .. n - 1}
  BY DEF UpTo
<1> QED
  BY <1>1, <1>2 DEF ReturnTells, Told

LEMMA RefusedTells ==
  ASSUME ContextInv, NEW p, NEW n, Decode(p, n)
  PROVE  pc' = "idle" => Told(ret)'
<1>1. /\ before' = [cells |-> cells, head |-> head] /\ UNCHANGED <<cells, head>> /\ row' = Aged
      /\ pc = "idle"
  BY DEF Decode, memVars
<1>2. SUFFICES ASSUME pc' = "idle" PROVE Told(ret)'
  OBVIOUS
<1>3. ret' = -1
  BY <1>1, <1>2 DEF Decode
<1>4. before'.cells = cells' /\ before'.head = head' /\ row' # "batch"
  BY <1>1 DEF Aged
<1> QED
  BY <1>3, <1>4 DEF Told, Fatal, NoRet

LEMMA GivenUpTells ==
  ASSUME ContextInv, Prepared
  PROVE  pc' = "idle" => Told(ret)'
<1>1. SUFFICES ASSUME pc' = "idle" PROVE Told(ret)'
  OBVIOUS
<1>2. /\ pc = "restore" /\ saved = <<>> /\ ~found /\ ret' = 1
      /\ UNCHANGED <<cells, head, batch, row, before>>
  BY <1>1 DEF Prepared, memVars, planVars
<1>3. /\ ~Room /\ row # "batch" /\ head = before.head /\ Len(saved) = 0
  BY <1>2, EmptySeq DEF ContextInv, Undoable
<1>4. cells = before.cells
  BY <1>2, <1>3, NonePlaced DEF ContextInv, ContextTypes, Undoable, InPlace
<1> QED
  BY <1>2, <1>3, <1>4 DEF Told, Room, Fatal, NoRet

LEMMA DoneTells ==
  ASSUME ContextInv, ComputeSucceeds
  PROVE  pc' = "idle" => Told(ret)'
<1>1. SUFFICES ASSUME pc' = "idle" PROVE Told(ret)'
  OBVIOUS
<1>2. /\ pc = "compute" /\ IsLast(cur) /\ ret' = 0 /\ nOut' = 1
      /\ row' = (IF nOut > 0 THEN "batch" ELSE row)
      /\ UNCHANGED <<cells, batch, before>>
  BY <1>1 DEF ComputeSucceeds, memVars
<1>3. /\ Room /\ Plan(before.cells, batch, slots, gaps) /\ cells \in Map /\ nOut = 1
      /\ cur \in 0 .. Len(slots) /\ PlacedTo(before.cells, batch, slots, cur, cells)
      /\ cur \in Nat /\ cur >= 1 /\ batch.n \in Nat
  <2>1. Len(slots) \in Nat
    BY LenProperties DEF ContextInv, ContextTypes
  <2> QED
    BY <1>2, <2>1 DEF ContextInv, ContextTypes, InPlace, Outputs, Batch
<1>4. Upto(batch, cur) = batch.n
  <2>1. Start(cur + 1) = Start(cur) + UBatch /\ Start(cur) \in Nat
    BY <1>3, Starts
  <2>2. Start(cur) + UBatch >= batch.n
    BY <1>2 DEF IsLast
  <2>3. PICK u \in Nat : u = Start(cur + 1)
    BY <2>1, Sizes
  <2> QED
    BY <1>3, <2>1, <2>2, <2>3 DEF Upto
<1>5. /\ Held(before.cells) \subseteq Held(cells)
      /\ Held(cells) \ Held(before.cells) = UpTo(batch, batch.n)
  BY <1>3, <1>4, AddedIs
<1>6. row' = "batch"
  BY <1>2, <1>3
<1>7. /\ (Held(before.cells) \subseteq Held(cells))'
      /\ (Held(cells) \ Held(before.cells) = UpTo(batch, batch.n))'
  BY <1>2, <1>5 DEF Held, Free, UpTo
<1>8. Room'
  BY <1>2, <1>3 DEF Room
<1> QED
  BY <1>2, <1>6, <1>7, <1>8 DEF Told, Fatal, NoRet

\* A failure leaves what was there before the call and the ubatches computed.
LEMMA FailedLeaves ==
  ASSUME ContextInv, NEW status, ComputeFails(status)
  PROVE  /\ Start(cur) \in Nat /\ Start(cur) < batch.n /\ Start(cur) % UBatch = 0
         /\ Held(before.cells) \subseteq Held(cells')
         /\ Held(cells') \ Held(before.cells) = UpTo(batch, Start(cur))
         /\ Room /\ row # "batch"
<1> DEFINE k == Start(cur)
<1>1. /\ pc = "compute" /\ cells' = Without(cells, Lost) /\ ret' = status
      /\ UNCHANGED <<batch, row, before>>
  BY DEF ComputeFails, planVars, outVars
<1>2. /\ Room /\ Plan(before.cells, batch, slots, gaps) /\ cells \in Map /\ row # "batch"
      /\ cur \in 1 .. Len(slots) /\ cur \in 0 .. Len(slots)
      /\ PlacedTo(before.cells, batch, slots, cur, cells)
      /\ cur \in Nat /\ cur >= 1 /\ batch \in Batch /\ batch.n \in Nat /\ batch.first \in Nat
      /\ before.cells \in Map /\ batch.first + batch.n <= MaxPos
  <2>1. /\ Len(slots) \in Nat /\ cells \in Map
    BY LenProperties DEF ContextInv, ContextTypes
  <2>2. /\ Room /\ Plan(before.cells, batch, slots, gaps) /\ row # "batch"
        /\ cur \in 1 .. Len(slots) /\ PlacedTo(before.cells, batch, slots, cur, cells)
    BY <1>1 DEF ContextInv, InPlace
  <2>3. /\ batch \in Batch /\ batch.n \in Nat /\ batch.first \in Nat
        /\ before.cells \in Map /\ batch.first + batch.n <= MaxPos
    BY <2>2 DEF Plan, Batch
  <2>4. cur \in 0 .. Len(slots) /\ cur \in Nat /\ cur >= 1
    BY <2>1, <2>2
  <2> QED
    BY <2>1, <2>2, <2>3, <2>4
<1>3. k \in Nat /\ k < batch.n /\ k % UBatch = 0
  <2>1. k \in Nat /\ k < batch.n
    BY <1>2, Starts DEF Plan
  <2>2. k = (cur - 1) * UBatch /\ cur - 1 \in Nat
    BY <1>2 DEF Start
  <2>3. k % UBatch = 0
    BY <2>2, Multiple, Sizes
  <2> QED
    BY <2>1, <2>3
<1> HIDE DEF k
<1>4. /\ Held(before.cells) \subseteq Held(cells)
      /\ Held(cells) \ Held(before.cells) = UpTo(batch, Upto(batch, cur))
      /\ \A q \in Held(before.cells) : q < batch.first
  <2>1. \A q \in Held(before.cells) : q < batch.first
    BY <1>2 DEF Plan
  <2> QED
    BY <1>2, <2>1, AddedIs
<1>5. Upto(batch, cur) \in Nat /\ Upto(batch, cur) <= batch.n /\ k <= Upto(batch, cur)
  <2>1. /\ Upto(batch, cur) \in Nat /\ Upto(batch, cur) <= batch.n
        /\ Start(cur) + Toks(batch, cur) = Upto(batch, cur) /\ Toks(batch, cur) \in Nat
    BY <1>2, PlanCuts
  <2> QED
    BY <1>3, <2>1 DEF k
<1>6. Lost = {p \in Positions : p >= batch.first + k}
  BY DEF Lost, k
<1>7. Held(cells') = Held(cells) \ Lost
  <2>1. Lost \subseteq Positions
    BY DEF Lost
  <2> QED
    BY <1>1, <1>2, <2>1, WithoutIs
<1>8. PICK f \in Nat, u \in Nat, n \in Nat :
        f = batch.first /\ u = Upto(batch, cur) /\ n = batch.n
  BY <1>2, <1>5
<1>9. UpTo(batch, Upto(batch, cur)) = f .. (f + u - 1) /\ UpTo(batch, k) = f .. (f + k - 1)
  BY <1>2, <1>3, <1>8, UpToIs
<1>10. Held(before.cells) \subseteq Positions
  BY <1>2, HeldIs
<1>11. Held(before.cells) \cap Lost = {}
  BY <1>2, <1>3, <1>4, <1>6, <1>8, <1>10, Sizes
<1>12. (f .. (f + u - 1)) \ Lost = f .. (f + k - 1)
  <2>1. k <= u /\ f + u <= MaxPos /\ k \in Nat /\ MaxPos \in Nat
    <3>1. f + n <= MaxPos /\ u <= n
      BY <1>2, <1>5, <1>8
    <3> QED
      BY <1>3, <1>5, <1>8, <3>1, Sizes
  <2>2. \A x \in f .. (f + u - 1) : x \in Positions
    BY <2>1, Sizes
  <2>3. \A x \in f .. (f + u - 1) : x \in Lost <=> x >= f + k
    BY <1>6, <1>8, <2>2
  <2>4. f .. (f + k - 1) \subseteq f .. (f + u - 1)
    BY <2>1
  <2>5. \A x \in f .. (f + u - 1) : x >= f + k <=> x \notin f .. (f + k - 1)
    BY <2>1
  <2> QED
    BY <2>3, <2>4, <2>5
<1>13. /\ Held(before.cells) \subseteq Held(cells')
       /\ Held(cells') \ Held(before.cells) = UpTo(batch, k)
  BY <1>4, <1>7, <1>9, <1>11, <1>12
<1> QED
  BY <1>2, <1>3, <1>13 DEF k

LEMMA FailedTells ==
  ASSUME ContextInv, NEW status \in Fatal, ComputeFails(status)
  PROVE  Told(ret)'
<1> DEFINE k == Start(cur)
<1>1. ret' = status /\ UNCHANGED <<batch, row, before>>
  BY DEF ComputeFails, planVars, outVars
<1>2. /\ Room /\ row # "batch" /\ k \in Nat /\ k < batch.n /\ k % UBatch = 0
      /\ batch.n \in Nat
      /\ Held(before.cells) \subseteq Held(cells')
      /\ Held(cells') \ Held(before.cells) = UpTo(batch, k)
  BY FailedLeaves DEF ContextInv, ContextTypes, Batch
<1> HIDE DEF k
<1>14. k \in 0 .. batch.n - 1
  BY <1>2
<1>15. status \in Fatal /\ status # 0 /\ status # 1 /\ status # -1 /\ row' # "batch"
  BY <1>1, <1>2 DEF Fatal
<1>16. (Held(before.cells) \subseteq Held(cells))'
  BY <1>1, <1>2 DEF Held, Free
<1>17. (\E m \in 0 .. batch.n - 1 :
          m % UBatch = 0 /\ Held(cells) \ Held(before.cells) = UpTo(batch, m))'
  <2> DEFINE m == k
  <2>1. batch' = batch /\ UpTo(batch', m) = UpTo(batch, m)
    BY <1>1
  <2>2. Held(cells') \ Held(before.cells') = UpTo(batch', m)
    BY <1>1, <1>2
  <2>3. Held(cells)' = Held(cells') /\ Held(before.cells)' = Held(before.cells')
    BY DEF Held, Free
  <2> QED
    BY <1>2, <1>14, <2>1, <2>2, <2>3 DEF UpTo
<1>18. Room'
  BY <1>1, <1>2 DEF Room
<1> QED
  BY <1>1, <1>15, <1>16, <1>17, <1>18 DEF Told, NoRet

\* A return code of llama_decode tells what became of the cache, and whose
\* logits can be read, for every size.
THEOREM ContextTells == Spec => []ReturnTells
<1> DEFINE Tells == pc = "idle" => Told(ret)
<1>1. Init => Tells
  BY DEF Init, Told, Fatal, NoRet
<1>2. ContextInv /\ Tells /\ [Next]_contextVars => Tells'
  <2> SUFFICES ASSUME ContextInv, Tells, [Next]_contextVars PROVE Tells'
    OBVIOUS
  <2>1. CASE SeqRm \/ Clear
    <3>1. ret' = NoRet
      BY <2>1 DEF SeqRm, Clear
    <3> QED
      BY <3>1 DEF Told, Fatal, NoRet
  <2>2. CASE \E p \in Positions, n \in 0 .. MaxBatch : Decode(p, n)
    BY <2>2, RefusedTells
  <2>3. CASE Place \/ Placed \/ Restore \/ Apply
    <3>1. pc' # "idle"
      BY <2>3 DEF Place, Placed, Restore, Apply
    <3> QED
      BY <3>1
  <2>4. CASE Prepared
    BY <2>4, GivenUpTells
  <2>5. CASE ComputeSucceeds
    BY <2>5, DoneTells
  <2>6. CASE \E status \in Fatal : ComputeFails(status)
    BY <2>6, FailedTells
  <2>7. CASE UNCHANGED contextVars
    <3>1. UNCHANGED <<pc, cells, head, batch, before, ret, nOut, row>>
      BY <2>7 DEF contextVars
    <3>2. /\ Held(cells)' = Held(cells) /\ Held(before.cells)' = Held(before.cells)
          /\ Room' = Room
      BY <3>1 DEF Held, Free, Room
    <3>3. \A n : UpTo(batch, n)' = UpTo(batch, n)
      BY <3>1 DEF UpTo
    <3> QED
      BY <3>1, <3>2, <3>3 DEF Told
  <2> QED
    BY <2>1, <2>2, <2>3, <2>4, <2>5, <2>6, <2>7 DEF Next, CallOrStep
<1>3. ContextInv /\ Tells => ReturnTells
  BY ToldTells
<1> HIDE DEF Tells
<1> QED
  BY <1>1, <1>2, <1>3, ContextStarts, ContextKeeps, PTL DEF Spec

-----------------------------------------------------------------------------
(* The memory the callers see *)

\* While a decode is on, it is what was there before the call and the ubatches
\* computed: what is placed and not computed does not count.
LEMMA KeptIs ==
  ASSUME ContextInv, pc # "idle"
  PROVE  /\ Kept = Held(before.cells) \cup UpTo(batch, Start(cur))
         /\ Start(cur) \in Nat /\ Start(cur) < batch.n
<1>1. /\ Plan(before.cells, batch, slots, gaps) /\ cells \in Map /\ Len(slots) \in Nat
      /\ Len(saved) \in Nat
      /\ batch \in Batch /\ batch.first \in Nat /\ batch.n \in Nat /\ batch.n >= 1
      /\ before.cells \in Map /\ \A q \in Held(before.cells) : q < batch.first
  BY LenProperties DEF ContextInv, ContextTypes, Plan, Batch
<1>2. PICK k \in 0 .. Len(slots) : /\ PlacedTo(before.cells, batch, slots, k, cells)
                                   /\ Start(cur) <= Upto(batch, k)
                                   /\ Start(cur) \in Nat /\ Start(cur) < batch.n
  <2>1. CASE pc \in {"prepare", "restore"}
    <3>1. Len(saved) \in 0 .. Len(slots) /\ InPlace(Len(saved)) /\ cur = 1
      BY <1>1, <2>1 DEF ContextInv, Undoable
    <3>2. Start(Len(saved) + 1) \in Nat
      <4>1. Len(saved) + 1 \in Nat /\ Len(saved) + 1 >= 1
        BY <1>1
      <4> QED
        BY <4>1, Starts
    <3>3. Upto(batch, Len(saved)) \in Nat
      BY <1>1, <3>2 DEF Upto
    <3>4. Start(cur) = 0
      BY <3>1, Starts
    <3> QED
      BY <1>1, <3>1, <3>3, <3>4 DEF InPlace
  <2>2. ASSUME cur \in 1 .. Len(slots)
        PROVE  /\ Start(cur) \in Nat /\ Start(cur) < batch.n /\ Upto(batch, cur - 1) = Start(cur)
               /\ Start(cur) <= Upto(batch, cur)
    <3>1. /\ Start(cur) \in Nat /\ Upto(batch, cur - 1) = Start(cur)
          /\ Start(cur) + Toks(batch, cur) = Upto(batch, cur) /\ Toks(batch, cur) \in Nat
      BY <1>1, <2>2, PlanCuts
    <3>2. Start(cur) < batch.n
      BY <1>1, <2>2 DEF Plan
    <3> QED
      BY <3>1, <3>2
  <2>3. CASE pc = "apply"
    <3>1. cur \in 1 .. Len(slots) /\ cur - 1 \in 0 .. Len(slots) /\ InPlace(cur - 1)
      BY <1>1, <2>3 DEF ContextInv
    <3> QED
      BY <2>2, <3>1 DEF InPlace
  <2>4. CASE pc = "compute"
    <3>1. cur \in 1 .. Len(slots) /\ cur \in 0 .. Len(slots) /\ InPlace(cur)
      BY <1>1, <2>4 DEF ContextInv
    <3> QED
      BY <2>2, <3>1 DEF InPlace
  <2> QED
    BY <2>1, <2>3, <2>4 DEF ContextInv, ContextTypes
<1>3. k \in Nat /\ Upto(batch, k) \in Nat
  BY <1>1, Starts DEF Upto
<1>4. PICK f \in Nat, u \in Nat, s \in Nat :
        f = batch.first /\ u = Upto(batch, k) /\ s = Start(cur) /\ s <= u
  BY <1>1, <1>2, <1>3
<1>5. Held(cells) = Held(before.cells) \cup (f .. (f + u - 1))
  BY <1>1, <1>2, <1>4, PlacedHeld
<1>6. UpTo(batch, Start(cur)) = f .. (f + s - 1)
  BY <1>1, <1>4, UpToIs
<1>7. Kept = {p \in Held(cells) : p < f + s}
  BY <1>4 DEF Kept
<1>8. Held(before.cells) \subseteq Int
  BY <1>1, HeldIs, Sizes
<1>9. \A p \in Held(before.cells) : p < f + s
  BY <1>1, <1>4, <1>8
<1>10. {p \in f .. (f + u - 1) : p < f + s} = f .. (f + s - 1)
  BY <1>4
<1> QED
  BY <1>2, <1>5, <1>6, <1>7, <1>9, <1>10

\* There is room for the rest of the batch if and only if there was for all.
LEMMA RoomIs ==
  ASSUME ContextInv, pc # "idle"
  PROVE  Memory!HasRoom <=> Room
<1> DEFINE s == Start(cur)
           N == UpTo(batch, s)
<1>1. /\ Kept = Held(before.cells) \cup N /\ s \in Nat /\ s < batch.n
      /\ batch \in Batch /\ batch.first \in Nat /\ batch.n \in Nat
      /\ before.cells \in Map /\ Gapless(before.cells, gaps)
      /\ \A q \in Held(before.cells) : q < batch.first
  BY KeptIs DEF ContextInv, ContextTypes, Plan, Batch
<1>2. PICK f \in Nat, n \in Nat : f = batch.first /\ n = batch.n
  BY <1>1
<1> HIDE DEF s
<1>3. N = f .. (f + s - 1)
  BY <1>1, <1>2, UpToIs
<1>4. IsFiniteSet(N) /\ Cardinality(N) = s
  BY <1>1, <1>3, InARow
<1>5. \A q \in N : q >= f /\ q \in Int
  BY <1>1, <1>2, <1>3
<1> HIDE DEF N
<1>6. Held(before.cells) \cap N = {}
  BY <1>1, <1>2, <1>5
<1>7. /\ IsFiniteSet(Held(before.cells)) /\ Cardinality(Held(before.cells)) \in Nat
      /\ Cardinality(Held(before.cells)) = Size - Cardinality(Free(before.cells))
      /\ Cardinality(Free(before.cells)) \in Nat
  BY <1>1, HeldCounts, FreeCounts
<1>8. Cardinality(Held(before.cells) \cap N) = 0
  BY <1>6, FS_EmptySet
<1>9. Cardinality(Kept) = Cardinality(Held(before.cells)) + s
  <2>1. Cardinality(Held(before.cells) \cup N)
          = Cardinality(Held(before.cells)) + Cardinality(N) - Cardinality(Held(before.cells) \cap N)
    BY <1>4, <1>7, FS_Union
  <2> QED
    BY <1>1, <1>4, <1>7, <1>8, <2>1
<1>10. Memory!HasRoom <=> Cardinality(Kept) + ((f + n) - (f + s)) <= Size
  <2>1. /\ (IF pc = "idle" THEN 0 ELSE batch.first + batch.n) = f + n
        /\ (IF pc = "idle" THEN 0 ELSE batch.first + Start(cur)) = f + s
    BY <1>2 DEF s
  <2> HIDE DEF s
  <2>2. Memory!Cardinality(Kept) = Cardinality(Kept)
    BY DEF Memory!Cardinality, Cardinality
  <2> QED
    BY <2>1, <2>2 DEF Memory!HasRoom
<1>11. Room <=> n <= Cardinality(Free(before.cells))
  BY <1>2 DEF Room
<1> QED
  BY <1>1, <1>7, <1>9, <1>10, <1>11, Sizes

LEMMA MemoryStarts == Init => Memory!Init
<1>1. ASSUME Init PROVE Held(cells) = {}
  BY <1>1, EmptyMap DEF Init
<1> QED
  BY <1>1 DEF Init, Memory!Init, Kept, NoRet, Memory!NoRet

Goal == IF pc = "idle" THEN 0 ELSE batch.first + batch.n
At == IF pc = "idle" THEN 0 ELSE batch.first + Start(cur)

LEMMA RemoveForgets ==
  ASSUME ContextInv, SeqRm \/ Clear
  PROVE  Memory!Forget
<1>1. pc = "idle" /\ pc' = "idle" /\ ret' = NoRet /\ cells \in Map
  BY DEF SeqRm, Clear, ContextInv, ContextTypes
<1>2. Kept = Held(cells) /\ Kept' = Held(cells')
  BY <1>1 DEF Kept, Held, Free
<1>3. \E p, q \in 0 .. MaxPos : Kept' = Kept \ (p .. q - 1)
  <2>1. CASE SeqRm
    <3>1. PICK p0 \in 0 .. MaxPos, p1 \in 0 .. MaxPos : cells' = Without(cells, p0 .. p1 - 1)
      BY <2>1 DEF SeqRm
    <3>2. p0 .. p1 - 1 \subseteq Positions
      BY CallersAssumption DEF Positions
    <3>3. Held(cells') = Held(cells) \ (p0 .. p1 - 1)
      BY <1>1, <3>1, <3>2, WithoutIs
    <3> QED
      BY <1>2, <3>3
  <2>2. CASE Clear
    <3>1. Kept' = {}
      BY <1>2, <2>2, EmptyMap DEF Clear
    <3>2. 0 \in 0 .. MaxPos /\ MaxPos \in 0 .. MaxPos /\ Positions = 0 .. MaxPos - 1
      BY CallersAssumption DEF Positions
    <3>3. Kept \subseteq 0 .. MaxPos - 1
      BY <1>1, <1>2, <3>2, HeldIs
    <3>4. Kept' = Kept \ (0 .. MaxPos - 1)
      BY <3>1, <3>3
    <3> QED
      BY <3>2, <3>4
  <2> QED
    BY <2>1, <2>2
<1> QED
  BY <1>1, <1>3 DEF Memory!Forget, Memory!Idle, Memory!Returns, Memory!NoRet, NoRet

LEMMA DecodeAccepts ==
  ASSUME ContextInv, NEW p \in Positions, NEW n \in 0 .. MaxBatch, Decode(p, n)
  PROVE  Memory!Refuse \/ Memory!Accept
<1>1. /\ pc = "idle" /\ p + n <= MaxPos /\ UNCHANGED <<cells, head>> /\ cells \in Map
      /\ Kept = Held(cells)
  BY DEF Decode, memVars, ContextInv, ContextTypes, Kept
<1>2. CASE n = 0 \/ ~Follows(p)
  <2>1. pc' = "idle" /\ ret' = -1
    BY <1>1, <1>2 DEF Decode, planVars
  <2>2. Kept' = Kept
    BY <1>1, <2>1 DEF Kept, Held, Free
  <2> QED
    BY <1>1, <2>1, <2>2 DEF Memory!Refuse, Memory!Idle, Memory!Returns
<1>3. CASE n # 0 /\ Follows(p)
  <2>1. /\ pc' = "prepare" /\ ret' = NoRet /\ batch'.first = p /\ batch'.n = n /\ cur' = 1
    BY <1>3 DEF Decode
  <2>2. /\ n \in Nat /\ n >= 1 /\ p \in Nat /\ p \in 0 .. MaxPos /\ p + n \in 0 .. MaxPos
        /\ Start(1) = 0 /\ p + 0 = p
    BY <1>1, <1>3, CallersAssumption, Starts, Sizes
  <2>3. Held(cells) \subseteq Int
    BY <1>1, HeldIs, Sizes
  <2>4. At' = p /\ Goal' = p + n
    BY <2>1, <2>2 DEF At, Goal, Start
  <2>5. Kept' = Kept
    <3>1. Kept' = {q \in Held(cells)' : q < p}
      BY <2>1, <2>2 DEF Kept, Start
    <3>2. Held(cells)' = Held(cells)
      BY <1>1 DEF Held, Free
    <3>3. \A q \in Held(cells) : q < p
      BY <1>3 DEF Follows
    <3> QED
      BY <1>1, <3>1, <3>2, <3>3
  <2>6. Kept = {} \/ (p - 1 \in Kept /\ \A r \in Kept : r < p)
    BY <1>1, <1>3 DEF Follows
  <2>7. p < p + n
    BY <2>2
  <2> QED
    BY <1>1, <2>1, <2>2, <2>4, <2>5, <2>6, <2>7
       DEF Memory!Accept, Memory!Idle, Memory!NoRet, NoRet, At, Goal
<1> QED
  BY <1>2, <1>3

Decoding == pc # "idle"
KeptWhole == Kept = Held(before.cells) \cup UpTo(batch, Start(cur))

LEMMA KeptAlways == ContextInv /\ Decoding => KeptWhole
  BY KeptIs DEF Decoding, KeptWhole

\* Whatever goes on inside a decode is nothing to its caller.
LEMMA StepHides ==
  ASSUME ContextInv, ContextInv', Decoding, Decoding',
         UNCHANGED <<batch, cur, before, ret>>
  PROVE  UNCHANGED Memory!vars
<1>1. pc # "idle" /\ pc' # "idle"
  BY DEF Decoding
<1>2. KeptWhole /\ KeptWhole'
  BY KeptAlways, PTL
<1>3. Kept' = Kept
  BY <1>2 DEF KeptWhole, Held, Free, UpTo, Start
<1>4. At' = At /\ Goal' = Goal
  BY <1>1 DEF At, Goal, Start
<1> QED
  BY <1>3, <1>4 DEF Memory!vars, At, Goal

LEMMA GivenUpHasNoRoom ==
  ASSUME ContextInv, Prepared, pc' = "idle"
  PROVE  Memory!NoRoom
<1>1. /\ pc = "restore" /\ saved = <<>> /\ ~found /\ ret' = 1
      /\ UNCHANGED <<cells, head, batch, row, before>>
  BY DEF Prepared, memVars, planVars
<1>2. /\ ~Room /\ cur = 1 /\ cells \in Map /\ Len(saved) = 0
      /\ batch.n \in Nat /\ batch.n >= 1 /\ batch.first \in Nat
      /\ \A q \in Held(before.cells) : q < batch.first
  BY <1>1, EmptySeq DEF ContextInv, ContextTypes, Plan, Batch
<1>3. cells = before.cells
  BY <1>1, <1>2, NonePlaced DEF ContextInv, Undoable, InPlace
<1>4. ~Memory!HasRoom
  BY <1>1, <1>2, RoomIs
<1>5. At = batch.first /\ Goal = batch.first + batch.n /\ At # Goal
  <2>1. Start(cur) = 0
    BY <1>2, Starts
  <2> QED
    BY <1>1, <1>2, <2>1 DEF At, Goal
<1>6. Kept' = Kept
  <2>1. Kept = {q \in Held(cells) : q < batch.first}
    BY <1>1, <1>5 DEF Kept, At
  <2>2. Kept' = Held(cells)'
    BY DEF Kept
  <2>3. Held(cells)' = Held(cells)
    BY <1>1 DEF Held, Free
  <2> QED
    BY <1>2, <1>3, <2>1, <2>2, <2>3
<1> QED
  BY <1>1, <1>4, <1>5, <1>6 DEF Memory!NoRoom, Memory!Idle, Memory!Returns, At, Goal

\* A ubatch that is computed is one that the memory is extended by.
LEMMA ComputedExtends ==
  ASSUME ContextInv, ContextInv', ComputeSucceeds
  PROVE  Memory!Extend
<1> DEFINE Next1 == IF At + UBatch <= Goal THEN At + UBatch ELSE Goal
<1>1. pc = "compute" /\ Decoding /\ UNCHANGED <<cells, batch, slots, before>>
  BY DEF ComputeSucceeds, Decoding, memVars
<1>2. /\ Room /\ Plan(before.cells, batch, slots, gaps) /\ cells \in Map
      /\ cur \in 0 .. Len(slots) /\ PlacedTo(before.cells, batch, slots, cur, cells)
      /\ cur \in Nat /\ cur >= 1 /\ batch \in Batch /\ batch.n \in Nat /\ batch.first \in Nat
  <2>1. Len(slots) \in Nat /\ cells \in Map
    BY LenProperties DEF ContextInv, ContextTypes
  <2>2. /\ Room /\ Plan(before.cells, batch, slots, gaps)
        /\ cur \in 1 .. Len(slots) /\ PlacedTo(before.cells, batch, slots, cur, cells)
    BY <1>1 DEF ContextInv, InPlace
  <2>3. batch \in Batch /\ batch.n \in Nat /\ batch.first \in Nat
    BY <2>2 DEF Plan, Batch
  <2> QED
    BY <2>1, <2>2, <2>3
<1>3. KeptWhole /\ Start(cur) \in Nat /\ Start(cur) < batch.n
  BY <1>1, KeptIs DEF Decoding, KeptWhole
<1>4. Start(cur + 1) = Start(cur) + UBatch
  BY <1>2, Starts
<1>5. PICK f \in Nat, s \in Nat, n \in Nat :
        f = batch.first /\ s = Start(cur) /\ n = batch.n /\ s < n
  BY <1>2, <1>3
<1>6. At = f + s /\ Goal = f + n /\ At # Goal
  BY <1>1, <1>5 DEF At, Goal
<1>7. PICK u \in Nat : /\ u = Upto(batch, cur) /\ s < u
                       /\ u = IF s + UBatch <= n THEN s + UBatch ELSE n
  BY <1>4, <1>5, Sizes DEF Upto
<1>8. Next1 = f + u
  <2>1. Next1 = IF (f + s) + UBatch <= f + n THEN (f + s) + UBatch ELSE f + n
    BY <1>6
  <2>2. PICK w \in Nat : w = UBatch
    BY Sizes
  <2> HIDE DEF Next1
  <2> QED
    BY <1>7, <2>1, <2>2
<1> HIDE DEF Next1
<1>9. Held(cells) = Held(before.cells) \cup (f .. (f + u - 1))
  <2>1. Held(cells) = Held(before.cells)
                        \cup (batch.first .. (batch.first + Upto(batch, cur) - 1))
    BY <1>2, PlacedHeld
  <2> QED
    BY <1>5, <1>7, <2>1
<1>10. Kept = Held(before.cells) \cup (f .. (f + s - 1))
  BY <1>2, <1>3, <1>5, UpToIs DEF KeptWhole
<1>11. Kept \cup (At .. Next1 - 1) = Held(cells)
  <2>1. (f .. (f + s - 1)) \cup ((f + s) .. (f + u - 1)) = f .. (f + u - 1)
    BY <1>5, <1>7
  <2> QED
    BY <1>6, <1>8, <1>9, <1>10, <2>1
<1>12. Memory!HasRoom
  BY <1>1, <1>2, RoomIs DEF Decoding
<1>13. IsLast(cur) <=> s + UBatch >= n
  BY <1>5 DEF IsLast
<1>14. CASE IsLast(cur)
  <2>1. pc' = "idle" /\ ret' = 0
    BY <1>14 DEF ComputeSucceeds
  <2>2. Kept' = Held(cells)
    BY <1>1, <2>1 DEF Kept, Held, Free
  <2>3. Next1 = Goal
    <3>1. u = n
      BY <1>5, <1>7, <1>13, <1>14, Sizes
    <3> QED
      BY <1>6, <1>8, <3>1
  <2>4. Kept' = Kept \cup (At .. Next1 - 1) /\ At' = 0 /\ Goal' = 0
    BY <1>11, <2>1, <2>2 DEF At, Goal
  <2> QED
    BY <1>6, <1>12, <2>1, <2>3, <2>4
       DEF Memory!Extend, Memory!Idle, Memory!Returns, At, Goal, Next1
<1>15. CASE ~IsLast(cur)
  <2>1. pc' = "apply" /\ cur' = cur + 1 /\ ret' = ret
    BY <1>15 DEF ComputeSucceeds
  <2>2. KeptWhole'
    <3>1. Decoding'
      BY <2>1 DEF Decoding
    <3> QED
      BY <3>1, KeptAlways, PTL
  <2>3. u = s + UBatch /\ u # n
    BY <1>5, <1>7, <1>13, <1>15, Sizes
  <2>4. Start(cur)' = u
    BY <1>4, <1>5, <2>1, <2>3 DEF Start
  <2>5. At' = Next1 /\ Goal' = Goal /\ Next1 # Goal
    BY <1>1, <1>5, <1>6, <1>8, <2>1, <2>3, <2>4 DEF At, Goal
  <2>6. Kept' = Held(before.cells) \cup UpTo(batch, u)
    BY <1>1, <2>2, <2>4 DEF KeptWhole, Held, Free, UpTo
  <2>7. UpTo(batch, u) = f .. (f + u - 1)
    BY <1>2, <1>5, UpToIs
  <2>8. Kept' = Kept \cup (At .. Next1 - 1)
    BY <1>9, <1>11, <2>6, <2>7
  <2> QED
    BY <1>6, <1>12, <2>1, <2>5, <2>8
       DEF Memory!Extend, Memory!Idle, Memory!Returns, At, Goal, Next1
<1> QED
  BY <1>14, <1>15

\* A failed computation ends the batch and keeps what was computed before it.
LEMMA FailedFails ==
  ASSUME ContextInv, NEW status \in Fatal, ComputeFails(status)
  PROVE  Memory!Fail
<1>1. pc = "compute" /\ Decoding /\ pc' = "idle" /\ ret' = status
  BY DEF ComputeFails, Decoding
<1>2. /\ Start(cur) \in Nat /\ Start(cur) < batch.n /\ Room
      /\ Held(before.cells) \subseteq Held(cells')
      /\ Held(cells') \ Held(before.cells) = UpTo(batch, Start(cur))
  BY FailedLeaves
<1>3. Kept' = Held(cells')
  BY <1>1 DEF Kept, Held, Free
<1>4. Kept' = Kept
  <2>1. KeptWhole
    BY <1>1, KeptAlways
  <2> QED
    BY <1>2, <1>3, <2>1 DEF KeptWhole
<1>5. batch.first \in Nat /\ batch.n \in Nat
  BY DEF ContextInv, ContextTypes, Batch
<1>6. At # Goal
  BY <1>1, <1>2, <1>5 DEF At, Goal
<1>7. Memory!HasRoom
  BY <1>1, <1>2, RoomIs DEF Decoding
<1>8. At' = 0 /\ Goal' = 0
  BY <1>1 DEF At, Goal
<1> QED
  BY <1>1, <1>4, <1>6, <1>7, <1>8 DEF Memory!Fail, Memory!Idle, Memory!Returns, At, Goal, Fatal

\* The decode with its cells, slots and head is, to its callers, a memory of so
\* many tokens: it takes a batch if and only if there is room, by whole ubatches.
THEOREM ContextIsMemory == Spec => ImplementsMemory
<1>1. ContextInv /\ ContextInv' /\ [Next]_contextVars => [Memory!Next]_(Memory!vars)
  <2> SUFFICES ASSUME ContextInv, ContextInv', [Next]_contextVars
               PROVE  Memory!Next \/ UNCHANGED Memory!vars
    OBVIOUS
  <2>1. CASE SeqRm \/ Clear
    BY <2>1, RemoveForgets DEF Memory!Next
  <2>2. CASE \E p \in Positions, n \in 0 .. MaxBatch : Decode(p, n)
    BY <2>2, DecodeAccepts DEF Memory!Next
  <2>3. CASE Place \/ Placed \/ Restore \/ Apply
    <3>1. Decoding /\ Decoding' /\ UNCHANGED <<batch, cur, before, ret>>
      BY <2>3 DEF Place, Placed, Restore, Apply, Decoding, planVars
    <3> QED
      BY <3>1, StepHides
  <2>4. CASE Prepared
    <3>1. CASE pc' = "idle"
      BY <2>4, <3>1, GivenUpHasNoRoom DEF Memory!Next
    <3>2. CASE pc' # "idle"
      <4>1. Decoding /\ Decoding' /\ UNCHANGED <<batch, cur, before, ret>>
        BY <2>4, <3>2 DEF Prepared, Decoding, planVars
      <4> QED
        BY <4>1, StepHides
    <3> QED
      BY <3>1, <3>2
  <2>5. CASE ComputeSucceeds
    BY <2>5, ComputedExtends DEF Memory!Next
  <2>6. CASE \E status \in Fatal : ComputeFails(status)
    BY <2>6, FailedFails DEF Memory!Next
  <2>7. CASE UNCHANGED contextVars
    BY <2>7 DEF contextVars, Memory!vars, Kept, Held, Free, Start
  <2> QED
    BY <2>1, <2>2, <2>3, <2>4, <2>5, <2>6, <2>7 DEF Next, CallOrStep
<1>2. Spec => []ContextInv
  BY ContextStarts, ContextKeeps, PTL DEF Spec
<1> QED
  BY <1>1, <1>2, MemoryStarts, PTL DEF Spec, ImplementsMemory, Memory!Spec

-----------------------------------------------------------------------------
(* The threads: ThreadPool *)

Places == {"idle", "kick", "kick_wake", "free", "free_wake", "join", "returned",
           "top", "poll", "lock", "check", "wait", "asleep", "work", "gone",
           "loop", "convert", "part", "claim", "end",
           "enter", "count", "release", "spin", "none"}

PoolTypes ==
  /\ tpc \in [Threads -> Places]
  /\ stop \in BOOLEAN
  /\ nGraph \in Nat /\ nBarrier \in Nat /\ nPassed \in Nat /\ chunk \in Nat
  /\ abort \in Int
  /\ ec \in {"success", "aborted"}
  /\ pending \in [Threads -> BOOLEAN]
  /\ last \in [Threads -> Nat]
  /\ node \in [Threads -> Nat]
  /\ mine \in [Threads -> Nat]
  /\ seen \in [Threads -> Nat]
  /\ after \in [Threads -> {"none", "loop", "part", "free", "top"}]
  /\ prepared \in [MatMul -> SUBSET Threads]
  /\ computed = [n \in Nodes |-> computed[n]]
  /\ \A n \in Nodes : computed[n] \in [Parts(n) -> Nat]

-----------------------------------------------------------------------------
(* The mutex and the condition variable *)

\* Who is in a critical section holds the mutex, and a sleeper has seen all.
MutexHeld == /\ \A t \in Workers : tpc[t] \in {"check", "wait"} => mutex = t
             /\ tpc[0] \in {"kick_wake", "free_wake"} => mutex = 0

-----------------------------------------------------------------------------
(* The barrier *)

Waiters == {t \in Threads : tpc[t] = "spin" /\ seen[t] = nPassed}

BarrierInv ==
  /\ \A t \in Threads : tpc[t] \in {"count", "release"} => seen[t] = nPassed
  /\ \A t \in Threads : tpc[t] = "release" =>
       nBarrier = 0 /\ Threads \ {t} \subseteq Waiters
  /\ (\A t \in Threads : tpc[t] # "release") => nBarrier = Cardinality(Waiters)

-----------------------------------------------------------------------------
(* Where the threads are: all in one segment of the graph.  Segment <<n, 1>>  *)
(* ends at the barrier of the conversion of node n, <<n, 2>> at that after    *)
(* the node; a node that is no product has the first one only.  NNodes is    *)
(* behind the last barrier.                                                  *)

\* Where a worker is when it is not computing.
Outside == {"top", "poll", "lock", "check", "wait", "asleep", "work"}

\* The worker has taken the graph.
Took(t) == last[t] = 1 /\ ~pending[t]

Unstarted(t) == IF t = 0 THEN tpc[t] \in {"kick", "kick_wake"} /\ node[t] = 0
                ELSE tpc[t] \in Outside /\ ~Took(t)

\* Taking a graph: once, after it was announced and before the pool stops.
TakingInv ==
  /\ tpc[0] \in {"kick", "kick_wake", "loop", "convert", "part", "claim", "end", "enter",
                 "count", "spin", "release", "free", "free_wake", "join", "returned"}
  /\ nGraph = IF tpc[0] = "kick" THEN 0 ELSE 1
  /\ stop => tpc[0] \in {"free_wake", "join", "returned"}
  /\ \A t \in Workers :
       /\ last[t] \in {0, 1} /\ last[t] <= nGraph
       /\ pending[t] => last[t] = 1
       /\ tpc[t] = "work" => pending[t]
       /\ tpc[t] \notin Outside => Took(t)
       /\ tpc[t] = "gone" => stop
  /\ tpc[0] = "returned" => \A t \in Workers : tpc[t] = "gone"

Waiting(t) == tpc[t] \in {"enter", "count", "release"} \/ t \in Waiters
Leaving(t) == tpc[t] = "spin" /\ seen[t] # nPassed

\* t is in the barrier, or may leave it, and goes on at place.
Waits(t, place) == after[t] = place /\ Waiting(t)
Released(t, place) == after[t] = place /\ Leaving(t)

\* Where a thread goes on behind the last barrier.
Exit(t) == IF t = 0 THEN "free" ELSE "top"

\* Nothing of node n is computed by t yet; the part of its number awaits it.
Before(t, n, f) ==
  \/ f = 1 /\ n = 0 /\ Unstarted(t)
  \/ f = 1 /\ node[t] = n /\ (tpc[t] = "loop" \/ Released(t, "loop"))
  \/ /\ f = 1 /\ n \in MatMul /\ node[t] = n /\ mine[t] = t /\ abort # n
     /\ \/ tpc[t] = "convert"
        \/ Waits(t, "part") /\ t \in prepared[n] /\ (t = 0 => chunk = NThreads)
  \/ f = 1 /\ node[t] = n /\ abort = n /\ Waits(t, Exit(t))
  \/ f = 2 /\ node[t] = n /\ mine[t] = t /\ abort # n /\ Released(t, "part")

\* Parts are handed out up to here.
Limit(f) == IF f = 2 THEN chunk ELSE NThreads

Computing(n, f) == f = 1 => n \notin MatMul

AtPart(t, n, f) ==
  /\ Computing(n, f)
  /\ tpc[t] = "part" /\ node[t] = n /\ abort # n
  /\ mine[t] \in Parts(n) /\ mine[t] < Limit(f)
  /\ f = 1 => mine[t] = t

AtClaim(t, n, f) == f = 2 /\ tpc[t] = "claim" /\ node[t] = n /\ abort # n

\* Nothing is left to hand out.
AllClaimed(n, f) == f = 2 => NChunks[n] = NThreads \/ chunk >= NChunks[n]

After(t, n, f) ==
  /\ Computing(n, f) /\ abort # n /\ AllClaimed(n, f)
  /\ \/ tpc[t] = "end" /\ node[t] = n
     \/ Waits(t, "loop") /\ node[t] = n + 1 /\ n + 1 < NNodes
     \/ n + 1 = NNodes /\ node[t] = NNodes /\ (tpc[t] = "loop" \/ Waits(t, Exit(t)))

Ended(t) == \/ Released(t, Exit(t))
            \/ IF t = 0 THEN tpc[t] \in {"free", "free_wake", "join", "returned"}
               ELSE tpc[t] \in Outside \cup {"gone"} /\ Took(t)

Sits(t, n, f) ==
  IF n = NNodes THEN Ended(t)
  ELSE Before(t, n, f) \/ AtPart(t, n, f) \/ AtClaim(t, n, f) \/ After(t, n, f)

\* Thread t has part p of node n to compute.
Owes(t, p, n, f) == \/ Before(t, n, f) /\ p = t
                    \/ AtPart(t, n, f) /\ p = mine[t]

\* The parts of node n that are computed are those handed out and not owed.
Partial(n, f) == \A p \in Parts(n) :
  computed[n][p] = IF p < Limit(f) /\ \A t \in Threads : ~Owes(t, p, n, f) THEN 1 ELSE 0

OwedOnce(n, f) == \A t, u \in Threads : \A p \in Nat :
  Owes(t, p, n, f) /\ Owes(u, p, n, f) => t = u

DataInv(n, f) ==
  IF n = NNodes
  THEN /\ ec = "success" => \A m \in Nodes : Complete(m)
       /\ ec = "aborted" => /\ abort \in 1 .. NNodes
                            /\ \A m \in Nodes : IF m < abort THEN Complete(m) ELSE Untouched(m)
  ELSE /\ \A m \in Nodes : m < n => Complete(m)
       /\ \A m \in Nodes : m > n => Untouched(m)
       /\ Partial(n, f)
       /\ OwedOnce(n, f)

Segment(n, f) ==
  /\ n \in 0 .. NNodes /\ f \in {1, 2}
  /\ f = 2 => /\ n \in MatMul
              /\ prepared[n] = Threads
              /\ chunk >= NThreads
  /\ ec = "success" <=> abort = -1
  /\ n < NNodes => abort \in {-1, n, n + 1} /\ abort # 0
  /\ \A t \in Threads : Sits(t, n, f)
  /\ DataInv(n, f)

Running == TakingInv /\ BarrierInv /\ \E n \in 0 .. NNodes, f \in {1, 2} : Segment(n, f)

\* Between graphs there are no workers.
Resting == /\ \A t \in Workers : tpc[t] = "gone"
           /\ \A n \in Nodes : \A p \in Parts(n) : computed[n][p] \in {0, 1}

LockstepInv == PoolTypes /\ (IF tpc[0] = "idle" THEN Resting ELSE Running)
-----------------------------------------------------------------------------
LEMMA Bounds == /\ NThreads \in Nat /\ NThreads >= 1 /\ Threads = 0 .. NThreads - 1
                /\ 0 \in Threads /\ Workers \subseteq Threads /\ 0 \notin Workers
                /\ NNodes \in Nat /\ NNodes >= 1 /\ Nodes = 0 .. NNodes - 1
  BY ThreadsAssumption, NodesAssumption DEF Threads, Workers, Nodes

(* No wake-up is lost. *)

\* A thread that waits or sleeps has the pool's own word that there is nothing.
WakeTypes == /\ tpc \in [Threads -> Places]
             /\ pending \in [Threads -> BOOLEAN]
             /\ last \in [Threads -> Nat]
             /\ after \in [Threads -> {"none", "loop", "part", "free", "top"}]
             /\ nGraph \in Nat

WakeInv == WakeTypes /\ MutexHeld /\ NoLostWakeup

\* What the steps of the barrier and of the graph do to who sleeps: nothing.
LEMMA ComputingWakes ==
  ASSUME WakeInv, NEW t \in Threads, Computes(t)
  PROVE  WakeInv'
<1>1. /\ UNCHANGED wakeVars
      /\ tpc[t] \in {"enter", "count", "release", "spin", "loop", "convert", "part",
                     "claim", "end"}
  BY DEF Computes, Enter, Count, Release, Spin, Loop, Convert, Part, Claim, End
<1>2. after' \in [Threads -> {"none", "loop", "part", "free", "top"}]
  BY DEF Computes, Enter, Count, Release, Spin, Loop, Convert, Part, Claim, End, Meet,
         WakeInv, WakeTypes, barrierVars
<1>3. \E s \in {"enter", "count", "release", "spin", "loop", "convert", "part", "claim",
               "end", "none", "free", "top"} : tpc' = [tpc EXCEPT ![t] = s]
  <2>1. after[t] \in {"none", "loop", "part", "free", "top"}
    BY DEF WakeInv, WakeTypes
  <2> QED
    BY <2>1 DEF Computes, Enter, Count, Release, Spin, Loop, Convert, Part, Claim, End,
                Meet, Moves
<1>4. WakeTypes'
  BY <1>1, <1>2, <1>3 DEF WakeInv, WakeTypes, Places, wakeVars
<1>5. /\ \A u \in Workers : tpc'[u] \in {"check", "wait", "asleep"} => tpc'[u] = tpc[u]
      /\ tpc'[0] \in {"kick_wake", "free_wake"} <=> tpc[0] \in {"kick_wake", "free_wake"}
  BY <1>1, <1>3, Bounds DEF WakeInv, WakeTypes
<1>6. /\ mutex' = mutex /\ stop' = stop /\ nGraph' = nGraph
      /\ pending' = pending /\ last' = last
  BY <1>1 DEF wakeVars
<1>7. MutexHeld'
  BY <1>5, <1>6 DEF WakeInv, MutexHeld
<1>8. NoLostWakeup'
  BY <1>5, <1>6 DEF WakeInv, NoLostWakeup
<1> QED
  BY <1>4, <1>7, <1>8 DEF WakeInv

LEMMA MainWakes ==
  ASSUME WakeInv, Main
  PROVE  WakeInv'
<1> USE Bounds
<1>1. CASE KickLock \/ FreeLock
  <2>1. /\ mutex = NoThread /\ mutex' = 0 /\ pending' = pending /\ last' = last
        /\ after' = after
        /\ nGraph' \in Nat
        /\ \E s \in {"kick_wake", "free_wake"} : tpc' = [tpc EXCEPT ![0] = s]
    BY <1>1 DEF KickLock, FreeLock, Moves, barrierVars, WakeInv, WakeTypes
  <2>2. WakeTypes' /\ tpc'[0] \in {"kick_wake", "free_wake"}
        /\ \A t \in Workers : tpc'[t] = tpc[t]
    BY <2>1 DEF WakeInv, WakeTypes, Places
  <2>3. \A t \in Workers : tpc[t] \notin {"check", "wait"}
    BY <2>1, ThreadsAssumption DEF WakeInv, MutexHeld
  <2> QED
    BY <2>1, <2>2, <2>3 DEF WakeInv, MutexHeld, NoLostWakeup
<1>2. CASE KickWake \/ FreeWake
  <2>1. /\ mutex = 0 /\ pending' = pending /\ last' = last /\ after' = after
        /\ nGraph' = nGraph
        /\ \E s \in {"loop", "join"} : WakeAll(s)
    BY <1>2 DEF KickWake, FreeWake, barrierVars, WakeInv, MutexHeld
  <2>2. /\ tpc' \in [Threads -> Places]
        /\ tpc'[0] \notin {"kick_wake", "free_wake"}
        /\ \A t \in Workers : tpc'[t] = IF tpc[t] = "asleep" THEN "lock" ELSE tpc[t]
    BY <2>1 DEF WakeAll, WakeInv, WakeTypes, Places
  <2>3. \A t \in Workers : tpc[t] \notin {"check", "wait"}
    BY <2>1 DEF WakeInv, MutexHeld, Workers
  <2> QED
    BY <2>1, <2>2, <2>3 DEF WakeInv, WakeTypes, MutexHeld, NoLostWakeup
<1>3. CASE Join
  <2>1. tpc' = [tpc EXCEPT ![0] = "returned"] /\ UNCHANGED <<wakeVars, after>>
        /\ tpc[0] = "join"
    BY <1>3 DEF Join, Moves, barrierVars
  <2>2. WakeTypes' /\ tpc'[0] = "returned" /\ \A t \in Workers : tpc'[t] = tpc[t]
    BY <2>1 DEF WakeInv, WakeTypes, Places, wakeVars
  <2> QED
    BY <2>1, <2>2 DEF WakeInv, MutexHeld, NoLostWakeup, wakeVars
<1> QED
  BY <1>1, <1>2, <1>3 DEF Main

\* What ready notes and answers.
LEMMA NoticeFacts ==
  ASSUME NEW t \in Threads, pending \in [Threads -> BOOLEAN], last \in [Threads -> Nat],
         nGraph \in Nat, Notice(t)
  PROVE  /\ pending' \in [Threads -> BOOLEAN] /\ last' \in [Threads -> Nat]
         /\ \A u \in Threads \ {t} : pending'[u] = pending[u] /\ last'[u] = last[u]
         /\ IF ~pending[t] /\ ~stop /\ nGraph # last[t]
            THEN pending'[t] /\ last'[t] = nGraph
            ELSE pending'[t] = pending[t] /\ last'[t] = last[t]
<1>1. CASE ~pending[t] /\ ~stop /\ nGraph # last[t]
  BY <1>1 DEF Notice
<1>2. CASE ~(~pending[t] /\ ~stop /\ nGraph # last[t])
  BY <1>2 DEF Notice
<1> QED
  BY <1>1, <1>2

LEMMA WorkerWakes ==
  ASSUME WakeInv, NEW t \in Workers, Wakes(t) \/ WakeSpuriously(t)
  PROVE  WakeInv'
<1> USE Bounds
<1>1. t \in Threads /\ t # 0
  OBVIOUS
<1>2. stop' = stop /\ nGraph' = nGraph /\ after' = after
      /\ \E s \in {"gone", "poll", "work", "lock", "check", "wait", "top", "asleep", "loop"} :
           tpc' = [tpc EXCEPT ![t] = s]
  BY DEF Wakes, WakeSpuriously, Top, Poll, Lock, Check, Wait, Work, Moves, Answered,
         wakeVars, barrierVars
<1>3. /\ pending' \in [Threads -> BOOLEAN] /\ last' \in [Threads -> Nat]
      /\ \A u \in Workers \ {t} : pending'[u] = pending[u] /\ last'[u] = last[u]
  <2>1. CASE Poll(t) \/ Check(t)
    <3>1. Notice(t)
      BY <2>1 DEF Poll, Check
    <3> QED
      BY <3>1, NoticeFacts, <1>1 DEF WakeInv, WakeTypes
  <2>2. CASE ~(Poll(t) \/ Check(t))
    BY <2>2 DEF Wakes, WakeSpuriously, Top, Lock, Wait, Work, wakeVars, WakeInv, WakeTypes
  <2> QED
    BY <2>1, <2>2
<1>4. WakeTypes'
  BY <1>2, <1>3 DEF WakeInv, WakeTypes, Places
<1>5. tpc'[0] = tpc[0] /\ \A u \in Workers \ {t} : tpc'[u] = tpc[u]
  BY <1>1, <1>2 DEF WakeInv, WakeTypes
<1>6. /\ tpc'[t] \in {"check", "wait"} => mutex' = t
      /\ mutex' # mutex => mutex = NoThread \/ (mutex = t /\ tpc[t] \in {"check", "wait"})
  BY <1>1 DEF Wakes, WakeSpuriously, Top, Poll, Lock, Check, Wait, Work, Moves, Answered,
              wakeVars, WakeInv, WakeTypes, MutexHeld
<1>7. MutexHeld'
  BY <1>1, <1>5, <1>6, ThreadsAssumption DEF MutexHeld, WakeInv
<1>8. tpc'[t] \in {"wait", "asleep"} => last'[t] = nGraph /\ ~pending'[t] /\ ~stop
  <2>1. CASE Check(t)
    <3>1. tpc'[t] = "wait" => ~Ready(t)
      BY <2>1, <1>1 DEF Check, Moves, Answered, WakeInv, WakeTypes
    <3>2. Notice(t)
      BY <2>1 DEF Check
    <3>3. ~Ready(t) => last'[t] = nGraph /\ ~pending'[t] /\ ~stop
      BY <3>2, <1>1, NoticeFacts DEF Ready, WakeInv, WakeTypes
    <3> QED
      BY <2>1, <3>1, <3>3, <1>1 DEF Check, Moves, Answered, WakeInv, WakeTypes
  <2>2. CASE Wait(t)
    BY <2>2, <1>1 DEF Wait, WakeInv, NoLostWakeup
  <2>3. CASE ~Check(t) /\ ~Wait(t)
    <3>1. \E s \in {"gone", "poll", "work", "lock", "check", "top", "loop"} :
           tpc' = [tpc EXCEPT ![t] = s]
      BY <2>3 DEF Wakes, WakeSpuriously, Top, Poll, Lock, Work, Moves, Answered
    <3> QED
      BY <3>1, <1>1 DEF WakeInv, WakeTypes
  <2> QED
    BY <2>1, <2>2, <2>3
<1>9. NoLostWakeup'
  BY <1>2, <1>3, <1>5, <1>8 DEF WakeInv, NoLostWakeup
<1> QED
  BY <1>4, <1>7, <1>9 DEF WakeInv

LEMMA WakeInvariant == PoolSpec => []WakeInv
<1>1. InitPool => WakeInv
  BY Bounds DEF InitPool, WakeInv, WakeTypes, Places, MutexHeld, NoLostWakeup, Workers
<1>2. WakeInv /\ [NextPool]_poolVars => WakeInv'
  <2> SUFFICES ASSUME WakeInv, [NextPool]_poolVars PROVE WakeInv'
    OBVIOUS
  <2>1. CASE StartPool
    BY <2>1, Bounds DEF StartPool, WakeInv, WakeTypes, Places, MutexHeld, NoLostWakeup, Workers
  <2>2. CASE Runs
    BY <2>2, MainWakes, WorkerWakes, ComputingWakes DEF Runs
  <2>3. CASE \E status \in {"success", "aborted"} : Return(status)
    <3>1. tpc' = [tpc EXCEPT ![0] = "idle"] /\ UNCHANGED <<wakeVars, after>>
          /\ tpc[0] = "returned"
      BY <2>3 DEF Return, Moves, barrierVars
    <3>2. WakeTypes' /\ tpc'[0] = "idle" /\ \A t \in Workers : tpc'[t] = tpc[t]
      BY <3>1, Bounds DEF WakeInv, WakeTypes, Places, wakeVars
    <3> QED
      BY <3>1, <3>2 DEF WakeInv, MutexHeld, NoLostWakeup, wakeVars
  <2>4. CASE UNCHANGED poolVars
    BY <2>4 DEF poolVars, WakeInv, WakeTypes, MutexHeld, NoLostWakeup
  <2> QED
    BY <2>1, <2>2, <2>3, <2>4 DEF NextPool
<1> QED
  BY <1>1, <1>2, PTL DEF PoolSpec

\* A worker sleeps through no graph and no stop.
THEOREM NoWakeupLost == PoolSpec => []NoLostWakeup
  BY WakeInvariant, PTL DEF WakeInv
-----------------------------------------------------------------------------
(* Types *)

LEMMA ComputingTypes ==
  ASSUME PoolTypes, NEW t \in Threads, Computes(t)
  PROVE  PoolTypes'
<1> USE Bounds
<1>1. /\ stop' = stop /\ nGraph' = nGraph /\ pending' = pending /\ last' = last
  BY DEF Computes, Enter, Count, Release, Spin, Loop, Convert, Part, Claim, End, wakeVars
<1>2. after' \in [Threads -> {"none", "loop", "part", "free", "top"}]
  <2>1. after \in [Threads -> {"none", "loop", "part", "free", "top"}]
    BY DEF PoolTypes
  <2> QED
    BY <2>1 DEF Computes, Enter, Count, Release, Spin, Loop, Convert, Part, Claim, End, Meet,
                barrierVars
<1>3. \E s \in Places : tpc' = [tpc EXCEPT ![t] = s]
  <2>1. after[t] \in {"none", "loop", "part", "free", "top"}
    BY DEF PoolTypes
  <2> QED
    BY <2>1 DEF Computes, Enter, Count, Release, Spin, Loop, Convert, Part, Claim, End,
                Meet, Moves, Places
<1>4. tpc' \in [Threads -> Places]
  BY <1>3 DEF PoolTypes
<1>5. /\ nBarrier' \in Nat /\ nPassed' \in Nat /\ seen' \in [Threads -> Nat]
  <2>1. nBarrier \in Nat /\ nPassed \in Nat /\ seen \in [Threads -> Nat]
    BY DEF PoolTypes
  <2>2. CASE Enter(t)
    BY <2>1, <2>2 DEF Enter
  <2>3. CASE Count(t) \/ Release(t)
    BY <2>1, <2>3 DEF Count, Counted, Release
  <2>4. CASE ~Enter(t) /\ ~Count(t) /\ ~Release(t)
    <3>1. UNCHANGED <<nBarrier, nPassed, seen>>
      BY <2>4 DEF Computes, Spin, Loop, Convert, Part, Claim, End, barrierVars
    <3> QED
      BY <2>1, <3>1
  <2> QED
    BY <2>2, <2>3, <2>4
<1>6. /\ chunk' \in Nat /\ mine' \in [Threads -> Nat] /\ node' \in [Threads -> Nat]
  <2>1. chunk \in Nat /\ mine \in [Threads -> Nat] /\ node \in [Threads -> Nat]
    BY DEF PoolTypes
  <2>6. CASE Loop(t)
    <3>1. /\ t \in Nat /\ chunk' = chunk /\ node' = node /\ mine' = [mine EXCEPT ![t] = t]
      BY <2>6 DEF Loop
    <3> QED
      BY <2>1, <3>1
  <2>2. CASE Convert(t)
    <3>1. /\ chunk' = NThreads \/ chunk' = chunk
          /\ node' = node /\ mine' = mine
      BY <2>2 DEF Convert, FirstClaimed
    <3> QED
      BY <2>1, <3>1
  <2>3. CASE Claim(t)
    BY <2>1, <2>3 DEF Claim
  <2>4. CASE End(t)
    <3>1. chunk' = chunk /\ mine' = mine /\ node' = [node EXCEPT ![t] = node[t] + 1]
      BY <2>4 DEF End
    <3>2. node' \in [Threads -> Nat]
      <4>1. node[t] + 1 \in Nat
        BY <2>1
      <4> QED
        BY <2>1, <3>1, <4>1
    <3> QED
      BY <2>1, <3>1, <3>2
  <2>5. CASE Enter(t) \/ Count(t) \/ Release(t) \/ Spin(t) \/ Part(t)
    <3>1. UNCHANGED <<chunk, mine, node>>
      BY <2>5 DEF Enter, Count, Release, Spin, Part, workVars
    <3> QED
      BY <2>1, <3>1
  <2> QED
    BY <2>2, <2>3, <2>4, <2>5, <2>6 DEF Computes
<1>7. abort' \in Int /\ ec' \in {"success", "aborted"}
  <2>1. abort \in Int /\ ec \in {"success", "aborted"} /\ node[t] \in Nat
    BY DEF PoolTypes
  <2>2. CASE End(t)
    BY <2>1, <2>2 DEF End
  <2>3. CASE ~End(t)
    <3>1. UNCHANGED <<abort, ec>>
      BY <2>3 DEF Computes, Enter, Count, Release, Spin, Loop, Convert, Part, Claim, workVars
    <3> QED
      BY <2>1, <3>1
  <2> QED
    BY <2>2, <2>3
<1>8. prepared' \in [MatMul -> SUBSET Threads]
  <2>1. prepared \in [MatMul -> SUBSET Threads]
    BY DEF PoolTypes
  <2> QED
    BY <2>1 DEF Computes, Enter, Count, Release, Spin, Loop, Convert, Part, Claim, End, workVars
<1>9. /\ computed' = [n \in Nodes |-> computed'[n]]
      /\ \A n \in Nodes : computed'[n] \in [Parts(n) -> Nat]
  <2>1. /\ computed = [n \in Nodes |-> computed[n]]
        /\ \A n \in Nodes : computed[n] \in [Parts(n) -> Nat]
    BY DEF PoolTypes
  <2>2. CASE Part(t)
    <3>1. computed' = [computed EXCEPT ![node[t]] =
                         [computed[node[t]] EXCEPT ![mine[t]] = computed[node[t]][mine[t]] + 1]]
      BY <2>2 DEF Part
    <3>2. computed' = [n \in Nodes |-> computed'[n]]
      BY <2>1, <3>1
    <3>3. ASSUME NEW n \in Nodes
          PROVE  computed'[n] \in [Parts(n) -> Nat]
      <4>1. computed'[n] = computed[n] \/
            computed'[n] = [computed[n] EXCEPT ![mine[t]] = computed[n][mine[t]] + 1]
        BY <2>1, <3>1
      <4>2. computed[n] \in [Parts(n) -> Nat]
        BY <2>1
      <4> QED
        BY <4>1, <4>2
    <3> QED
      BY <3>2, <3>3
  <2>3. CASE ~Part(t)
    <3>1. computed' = computed
      BY <2>3 DEF Computes, Enter, Count, Release, Spin, Loop, Convert, Claim, End, workVars
    <3> QED
      BY <2>1, <3>1
  <2> QED
    BY <2>2, <2>3
<1> QED
  BY <1>1, <1>2, <1>4, <1>5, <1>6, <1>7, <1>8, <1>9 DEF PoolTypes

\* Waking touches neither the graph nor the barrier.
LEMMA WakingTypes ==
  ASSUME PoolTypes, UNCHANGED <<workVars, barrierVars>>, tpc' \in [Threads -> Places],
         stop' \in BOOLEAN, nGraph' \in Nat, pending' \in [Threads -> BOOLEAN],
         last' \in [Threads -> Nat]
  PROVE  PoolTypes'
  BY DEF PoolTypes, workVars, barrierVars

LEMMA StartTypes ==
  /\ InitPool => PoolTypes
  /\ StartPool => PoolTypes'
<1>1. ASSUME InitPool PROVE PoolTypes
  <2>1. computed = [n \in Nodes |-> computed[n]] /\ \A n \in Nodes : computed[n] \in [Parts(n) -> Nat]
    BY <1>1 DEF InitPool
  <2>2. tpc \in [Threads -> Places]
    BY <1>1 DEF InitPool, Places
  <2>3. prepared \in [MatMul -> SUBSET Threads]
    BY <1>1 DEF InitPool
  <2>4. /\ nGraph = 0 /\ nBarrier = 0 /\ nPassed = 0 /\ chunk = 0 /\ abort = -1
        /\ stop \in BOOLEAN /\ ec = "success"
    BY <1>1 DEF InitPool
  <2>5. /\ pending \in [Threads -> BOOLEAN] /\ last \in [Threads -> Nat]
        /\ node \in [Threads -> Nat] /\ mine \in [Threads -> Nat]
        /\ seen \in [Threads -> Nat]
        /\ after \in [Threads -> {"none", "loop", "part", "free", "top"}]
    BY <1>1 DEF InitPool
  <2> QED
    BY <2>1, <2>2, <2>3, <2>4, <2>5 DEF PoolTypes
<1>2. ASSUME StartPool PROVE PoolTypes'
  <2>1. computed' = [n \in Nodes |-> computed'[n]] /\ \A n \in Nodes : computed'[n] \in [Parts(n) -> Nat]
    BY <1>2 DEF StartPool
  <2>2. tpc' \in [Threads -> Places]
    BY <1>2 DEF StartPool, Places
  <2>3. prepared' \in [MatMul -> SUBSET Threads]
    BY <1>2 DEF StartPool
  <2>4. /\ nGraph' = 0 /\ nBarrier' = 0 /\ nPassed' = 0 /\ chunk' = 0 /\ abort' = -1
        /\ stop' \in BOOLEAN /\ ec' = "success"
    BY <1>2 DEF StartPool
  <2>5. /\ pending' \in [Threads -> BOOLEAN] /\ last' \in [Threads -> Nat]
        /\ node' \in [Threads -> Nat] /\ mine' \in [Threads -> Nat]
        /\ seen' \in [Threads -> Nat]
        /\ after' \in [Threads -> {"none", "loop", "part", "free", "top"}]
    BY <1>2 DEF StartPool
  <2> QED
    BY <2>1, <2>2, <2>3, <2>4, <2>5 DEF PoolTypes
<1> QED
  BY <1>1, <1>2
-----------------------------------------------------------------------------
(* What one thread does leaves the others where they are. *)

\* u does not move, or is woken.
Still(u) == /\ tpc'[u] = tpc[u] \/ (u # 0 /\ tpc[u] = "asleep" /\ tpc'[u] = "lock")
            /\ node'[u] = node[u] /\ mine'[u] = mine[u]
            /\ seen'[u] = seen[u] /\ after'[u] = after[u]
            /\ pending'[u] = pending[u] /\ last'[u] = last[u]

LEMMA StillSits ==
  ASSUME NEW u \in Threads, NEW n, NEW f, Still(u),
         UNCHANGED <<nPassed, abort, chunk, prepared>>
  PROVE  /\ Before(u, n, f)' <=> Before(u, n, f)
         /\ AtPart(u, n, f)' <=> AtPart(u, n, f)
         /\ AtClaim(u, n, f)' <=> AtClaim(u, n, f)
         /\ After(u, n, f)' <=> After(u, n, f)
         /\ Ended(u)' <=> Ended(u)
<1>1. /\ Unstarted(u)' <=> Unstarted(u)
      /\ Took(u)' <=> Took(u)
  BY DEF Still, Unstarted, Took, Outside
<1>2. \A place : /\ Waits(u, place)' <=> Waits(u, place)
                 /\ Released(u, place)' <=> Released(u, place)
  BY DEF Still, Waits, Released, Waiting, Leaving, Waiters
<1>3. Before(u, n, f)' <=> Before(u, n, f)
  BY <1>1, <1>2 DEF Before, Still, Exit
<1>4. AtPart(u, n, f)' <=> AtPart(u, n, f)
  BY DEF AtPart, Still, Computing, Limit, Parts
<1>5. AtClaim(u, n, f)' <=> AtClaim(u, n, f)
  BY DEF AtClaim, Still
<1>6. After(u, n, f)' <=> After(u, n, f)
  BY <1>2 DEF After, Still, Computing, AllClaimed, Exit
<1>7. Ended(u)' <=> Ended(u)
  BY <1>1, <1>2 DEF Ended, Still, Exit, Outside
<1> QED
  BY <1>3, <1>4, <1>5, <1>6, <1>7

\* A step that computes and hands out nothing.
LEMMA QuietSegment ==
  ASSUME NEW n, NEW f, Segment(n, f),
         UNCHANGED <<computed, ec, abort>>,
         f = 2 => chunk' = chunk /\ prepared'[n] = prepared[n],
         \A u \in Threads : Sits(u, n, f)',
         n # NNodes => \A u \in Threads : \A p \in Nat :
                         Owes(u, p, n, f)' <=> Owes(u, p, n, f)
  PROVE  Segment(n, f)'
<1>1. DataInv(n, f)'
  <2>1. CASE n = NNodes
    BY <2>1 DEF Segment, DataInv, Complete, Untouched, Parts
  <2>2. CASE n # NNodes
    <3>1. Partial(n, f)'
      <4>1. Limit(f)' = Limit(f)
        BY DEF Limit
      <4>2. \A p \in Parts(n) : p \in Nat
        BY DEF Parts
      <4> QED
        BY <2>2, <4>1, <4>2 DEF Partial, Segment, DataInv, Parts
    <3>2. OwedOnce(n, f)'
      BY <2>2 DEF OwedOnce, Segment, DataInv
    <3> QED
      BY <2>2, <3>1, <3>2 DEF Segment, DataInv, Complete, Untouched, Parts
  <2> QED
    BY <2>1, <2>2
<1> QED
  BY <1>1 DEF Segment

LEMMA QuietStep ==
  ASSUME NEW n, NEW f, Segment(n, f), NEW t \in Threads,
         UNCHANGED <<computed, ec, abort, chunk, prepared, nPassed>>,
         \A u \in Threads \ {t} : Still(u),
         Sits(t, n, f)',
         n # NNodes => \A p \in Nat : Owes(t, p, n, f)' <=> Owes(t, p, n, f)
  PROVE  Segment(n, f)'
<1>1. \A u \in Threads \ {t} :
        /\ Sits(u, n, f)' <=> Sits(u, n, f)
        /\ \A p : Owes(u, p, n, f)' <=> Owes(u, p, n, f)
  <2> SUFFICES ASSUME NEW u \in Threads \ {t}
               PROVE  /\ Sits(u, n, f)' <=> Sits(u, n, f)
                      /\ \A p : Owes(u, p, n, f)' <=> Owes(u, p, n, f)
    OBVIOUS
  <2>1. mine'[u] = mine[u]
    BY DEF Still
  <2>2. /\ Before(u, n, f)' <=> Before(u, n, f)
        /\ AtPart(u, n, f)' <=> AtPart(u, n, f)
        /\ AtClaim(u, n, f)' <=> AtClaim(u, n, f)
        /\ After(u, n, f)' <=> After(u, n, f)
        /\ Ended(u)' <=> Ended(u)
    BY StillSits
  <2> QED
    BY <2>1, <2>2 DEF Sits, Owes
<1>2. \A u \in Threads : Sits(u, n, f)'
  BY <1>1 DEF Segment
<1> QED
  BY <1>1, <1>2, QuietSegment

\* The barrier is not concerned.
LEMMA BarrierKept ==
  ASSUME BarrierInv, UNCHANGED <<nBarrier, nPassed, seen>>,
         \A u \in Threads :
           \/ tpc'[u] = tpc[u]
           \/ /\ tpc[u] \notin {"count", "spin", "release"}
              /\ tpc'[u] \notin {"count", "spin", "release"}
  PROVE  BarrierInv'
<1>1. Waiters' = Waiters
  BY DEF Waiters
<1> QED
  BY <1>1 DEF BarrierInv

ComputingPlaces == {"loop", "convert", "part", "claim", "end", "enter", "count", "release",
                    "spin"}

\* The taking of graphs is not concerned.
LEMMA TakingKept ==
  ASSUME TakingInv, PoolTypes, UNCHANGED wakeVars,
         NEW t \in Threads, tpc[t] \in ComputingPlaces,
         NEW s \in ComputingPlaces \cup {Exit(t)}, tpc' = [tpc EXCEPT ![t] = s]
  PROVE  TakingInv'
<1>1. /\ tpc'[t] = s
      /\ \A u \in Threads \ {t} : tpc'[u] = tpc[u]
  BY DEF PoolTypes
<1>2. \A u \in Workers : Took(u)' <=> Took(u)
  BY DEF Took, wakeVars
<1>3. ASSUME NEW u \in Workers
      PROVE  /\ tpc'[u] = "work" => tpc[u] = "work"
             /\ tpc'[u] \notin Outside => tpc[u] \notin Outside
             /\ tpc'[u] = "gone" => tpc[u] = "gone"
  BY <1>1, Bounds DEF ComputingPlaces, Exit, Outside
<1>4. /\ tpc'[0] \in {"kick", "kick_wake", "loop", "convert", "part", "claim", "end", "enter",
                 "count", "spin", "release", "free", "free_wake", "join", "returned"}
      /\ tpc'[0] = "kick" <=> tpc[0] = "kick"
      /\ tpc[0] \in {"free_wake", "join", "returned"} => tpc'[0] = tpc[0]
  BY <1>1, Bounds DEF TakingInv, ComputingPlaces, Exit
<1>5. tpc'[0] # "returned"
  <2>1. t \in Workers => tpc[0] # "returned"
    BY DEF TakingInv, ComputingPlaces
  <2> QED
    BY <2>1, <1>1, Bounds DEF ComputingPlaces, Exit, Workers
<1> QED
  BY <1>2, <1>3, <1>4, <1>5 DEF TakingInv, wakeVars
-----------------------------------------------------------------------------
(* The steps of a thread that computes *)

\* In which situations a thread is, by where it is.
LEMMA WhereLoop ==
  ASSUME NEW n, NEW f, Segment(n, f), NEW t \in Threads, tpc[t] = "loop"
  PROVE  /\ n # NNodes
         /\ \/ f = 1 /\ node[t] = n /\ Before(t, n, f)
            \/ node[t] = NNodes /\ n + 1 = NNodes /\ After(t, n, f)
  BY DEF Segment, Sits, Ended, Released, Leaving, Unstarted, Outside, Before, AtPart, AtClaim,
         After, Waits, Waiting, Waiters

LEMMA WhereActive ==
  ASSUME NEW n, NEW f, Segment(n, f), NEW t \in Threads
  PROVE  /\ tpc[t] = "convert" => /\ n # NNodes /\ f = 1 /\ n \in MatMul /\ node[t] = n
                                  /\ mine[t] = t /\ abort # n
         /\ tpc[t] = "part" => n # NNodes /\ AtPart(t, n, f)
         /\ tpc[t] = "claim" => n # NNodes /\ AtClaim(t, n, f)
         /\ tpc[t] = "end" => n # NNodes /\ After(t, n, f) /\ node[t] = n
  BY NodesAssumption
     DEF Segment, Sits, Ended, Released, Leaving, Unstarted, Outside, Before, AtPart, AtClaim,
         After, Waits, Waiting, Waiters, Nodes

LEMMA LoopStep ==
  ASSUME PoolTypes, TakingInv, BarrierInv, NEW n, NEW f, Segment(n, f),
         NEW t \in Threads, Loop(t),
         NThreads > 1 \/ (node[t] < NNodes /\ abort # node[t])
  PROVE  TakingInv' /\ BarrierInv' /\ Segment(n, f)'
<1> USE Bounds
<1>1. /\ tpc[t] = "loop" /\ n # NNodes
      /\ UNCHANGED <<node, chunk, abort, ec, prepared, computed, nBarrier, nPassed, seen>>
      /\ UNCHANGED wakeVars
      /\ mine' = [mine EXCEPT ![t] = t]
  BY WhereLoop DEF Loop
<1>2. /\ n \in 0 .. NNodes - 1 /\ n \in Nodes /\ f \in {1, 2}
  BY <1>1 DEF Segment
<1>3. /\ mine'[t] = t /\ node[t] \in Nat
      /\ \A u \in Threads \ {t} : mine'[u] = mine[u]
  BY <1>1 DEF PoolTypes
<1>4. \/ /\ node[t] < NNodes /\ abort # node[t]
         /\ tpc' = [tpc EXCEPT ![t] = IF node[t] \in MatMul THEN "convert" ELSE "part"]
         /\ after' = after
      \/ /\ ~(node[t] < NNodes /\ abort # node[t])
         /\ tpc' = [tpc EXCEPT ![t] = "enter"]
         /\ after' = [after EXCEPT ![t] = Exit(t)]
  BY DEF Loop, Aborts, Moves, Meet, Exit
<1>5. PICK s \in {"convert", "part", "enter"} : tpc' = [tpc EXCEPT ![t] = s]
  BY <1>4
<1>6. /\ tpc'[t] = s
      /\ \A u \in Threads \ {t} : tpc'[u] = tpc[u] /\ after'[u] = after[u]
  BY <1>4, <1>5 DEF PoolTypes
<1>7. TakingInv'
  BY <1>1, <1>5, TakingKept DEF ComputingPlaces
<1>8. BarrierInv'
  BY <1>1, <1>6, BarrierKept
<1>9. \A u \in Threads \ {t} : Still(u)
  BY <1>1, <1>3, <1>6 DEF Still, wakeVars
<1>10. /\ Before(t, n, f)' \/ AtPart(t, n, f)' \/ After(t, n, f)'
       /\ \A p \in Nat : Owes(t, p, n, f)' <=> Owes(t, p, n, f)
  <2>1. CASE /\ f = 1 /\ node[t] = n /\ Before(t, n, f) /\ abort # n
    <3>1. \A p : Owes(t, p, n, f) <=> p = t
      BY <2>1, <1>1 DEF Owes, AtPart
    <3>2. CASE n \in MatMul
      <4>1. tpc'[t] = "convert"
        BY <2>1, <3>2, <1>2, <1>4, <1>6 DEF PoolTypes
      <4>2. Before(t, n, f)' /\ ~AtPart(t, n, f)'
        BY <2>1, <3>2, <4>1, <1>1, <1>3 DEF Before, AtPart
      <4> QED
        BY <3>1, <4>2 DEF Owes
    <3>3. CASE n \notin MatMul
      <4>1. tpc'[t] = "part"
        BY <2>1, <3>3, <1>2, <1>4, <1>6 DEF PoolTypes
      <4>2. t \in Parts(n) /\ t < NThreads
        BY <3>3 DEF Parts
      <4>3. AtPart(t, n, f)'
        <5>1. node'[t] = n /\ abort' # n /\ mine'[t] = t
          BY <2>1, <1>1, <1>3
        <5>2. Limit(f)' = NThreads /\ Computing(n, f)
          BY <2>1, <3>3 DEF Limit, Computing
        <5> QED
          BY <4>1, <4>2, <5>1, <5>2 DEF AtPart, Computing
      <4>4. ~Before(t, n, f)'
        BY <2>1, <3>3, <4>1, <1>1 DEF Before, Unstarted, Outside, Released, Leaving
      <4> QED
        BY <3>1, <4>3, <4>4, <1>3 DEF Owes
    <3> QED
      BY <3>2, <3>3
  <2>2. CASE f = 1 /\ node[t] = n /\ Before(t, n, f) /\ abort = n
    <3>1. tpc'[t] = "enter" /\ after'[t] = Exit(t)
      BY <2>2, <1>2, <1>4 DEF PoolTypes
    <3>2. Before(t, n, f)'
      BY <2>2, <3>1, <1>1 DEF Before, Waits, Waiting, Exit
    <3> QED
      BY <2>2, <3>1, <3>2, <1>1 DEF Owes, AtPart
  <2>3. CASE node[t] = NNodes /\ n + 1 = NNodes /\ After(t, n, f)
    <3>1. tpc'[t] = "enter" /\ after'[t] = Exit(t)
      BY <2>3, <1>4 DEF PoolTypes
    <3>2. After(t, n, f)' /\ ~AtPart(t, n, f)' /\ ~AtPart(t, n, f)
      BY <2>3, <3>1, <1>1 DEF After, Waits, Waiting, Exit, AllClaimed, Computing, AtPart
    <3>3. ~Before(t, n, f)' /\ ~Before(t, n, f)
      BY <2>3, <3>1, <1>1, <1>2 DEF Before, Unstarted, Outside, Released, Leaving, Waits
    <3> QED
      BY <3>2, <3>3 DEF Owes
  <2> QED
    BY <2>1, <2>2, <2>3, <1>1, WhereLoop
<1>11. Sits(t, n, f)'
  BY <1>10, <1>1 DEF Sits
<1>12. Segment(n, f)'
  BY <1>1, <1>9, <1>10, <1>11, QuietStep
<1> QED
  BY <1>7, <1>8, <1>12

\* A thread in the barrier that does not leave it.
LEMMA WaitingSits ==
  ASSUME NEW t \in Threads, NEW n, NEW f,
         UNCHANGED <<node, mine, chunk, abort, prepared, after>>,
         tpc[t] \in {"enter", "count", "release", "spin"},
         tpc'[t] \in {"enter", "count", "release", "spin"},
         Waiting(t)' <=> Waiting(t),
         Leaving(t)' <=> Leaving(t)
  PROVE  /\ Sits(t, n, f)' <=> Sits(t, n, f)
         /\ \A p : Owes(t, p, n, f)' <=> Owes(t, p, n, f)
<1>1. \A place : /\ Waits(t, place)' <=> Waits(t, place)
                 /\ Released(t, place)' <=> Released(t, place)
  BY DEF Waits, Released
<1>2. ~Unstarted(t) /\ ~Unstarted(t)'
  BY DEF Unstarted, Outside
<1>3. Before(t, n, f)' <=> Before(t, n, f)
  BY <1>1, <1>2 DEF Before, Exit
<1>4. /\ ~AtPart(t, n, f)' /\ ~AtPart(t, n, f)
      /\ ~AtClaim(t, n, f)' /\ ~AtClaim(t, n, f)
  BY DEF AtPart, AtClaim
<1>5. After(t, n, f)' <=> After(t, n, f)
  BY <1>1 DEF After, AllClaimed, Computing, Exit
<1>6. Ended(t)' <=> Ended(t)
  BY <1>1 DEF Ended, Outside, Exit
<1> QED
  BY <1>3, <1>4, <1>5, <1>6 DEF Sits, Owes

\* Entering, counting and leaving: the thread waits, or has left.
LEMMA EnterStep ==
  ASSUME PoolTypes, TakingInv, BarrierInv, NEW n, NEW f, Segment(n, f),
         NEW t \in Threads, Enter(t)
  PROVE  TakingInv' /\ BarrierInv' /\ Segment(n, f)'
<1> USE Bounds
<1>1. /\ tpc[t] = "enter" /\ tpc' = [tpc EXCEPT ![t] = "count"]
      /\ seen' = [seen EXCEPT ![t] = nPassed]
      /\ UNCHANGED <<nBarrier, nPassed, after, wakeVars, workVars>>
  BY DEF Enter, Moves
<1>2. /\ tpc'[t] = "count" /\ seen'[t] = nPassed
      /\ \A u \in Threads \ {t} : tpc'[u] = tpc[u] /\ seen'[u] = seen[u]
  BY <1>1 DEF PoolTypes
<1>3. TakingInv'
  BY <1>1, TakingKept DEF ComputingPlaces
<1>4. BarrierInv'
  <2>1. Waiters' = Waiters
    BY <1>1, <1>2 DEF Waiters
  <2> QED
    BY <1>1, <1>2, <2>1 DEF BarrierInv
<1>5. \A u \in Threads \ {t} : Still(u)
  BY <1>1, <1>2 DEF Still, wakeVars, workVars
<1>6. /\ Waiting(t)' <=> Waiting(t)
      /\ Leaving(t)' <=> Leaving(t)
  BY <1>1, <1>2 DEF Waiting, Leaving, Waiters
<1>7. /\ Sits(t, n, f)' <=> Sits(t, n, f)
      /\ \A p : Owes(t, p, n, f)' <=> Owes(t, p, n, f)
  BY <1>1, <1>2, <1>6, WaitingSits DEF workVars
<1>8. Segment(n, f)'
  BY <1>1, <1>5, <1>7, QuietStep DEF Segment, workVars
<1> QED
  BY <1>3, <1>4, <1>8

\* All threads but one are fewer than all.
LEMMA AllButOne ==
  ASSUME NEW t \in Threads, NEW W \in SUBSET Threads, t \notin W
  PROVE  /\ IsFiniteSet(W) /\ Cardinality(W) \in Nat
         /\ Cardinality(W \cup {t}) = Cardinality(W) + 1
         /\ Cardinality(W) = NThreads - 1 => W = Threads \ {t}
<1>1. IsFiniteSet(Threads) /\ Cardinality(Threads) = NThreads
  <2>1. IsFiniteSet(0 .. NThreads - 1) /\ Cardinality(0 .. NThreads - 1) = NThreads - 1 - 0 + 1
    BY FS_Interval, Bounds
  <2> QED
    BY <2>1, Bounds
<1>2. IsFiniteSet(W) /\ Cardinality(W) \in Nat
  BY <1>1, FS_Subset, FS_CardinalityType
<1>3. Cardinality(W \cup {t}) = Cardinality(W) + 1
  BY <1>2, FS_AddElement
<1>4. ASSUME Cardinality(W) = NThreads - 1
      PROVE  W = Threads \ {t}
  <2>1. IsFiniteSet(Threads \ {t}) /\ Cardinality(Threads \ {t}) = NThreads - 1
    BY <1>1, FS_RemoveElement
  <2>2. W \subseteq Threads \ {t}
    OBVIOUS
  <2> QED
    BY <1>4, <2>1, <2>2, FS_Subset, Bounds
<1> QED
  BY <1>2, <1>3, <1>4

LEMMA CountStep ==
  ASSUME PoolTypes, TakingInv, BarrierInv, NEW n, NEW f, Segment(n, f),
         NEW t \in Threads, Count(t)
  PROVE  TakingInv' /\ BarrierInv' /\ Segment(n, f)'
<1> USE Bounds
<1>1. /\ tpc[t] = "count" /\ nBarrier' = Counted
      /\ tpc' = [tpc EXCEPT ![t] = IF nBarrier = NThreads - 1 THEN "release" ELSE "spin"]
      /\ UNCHANGED <<nPassed, seen, after, wakeVars, workVars>>
  BY DEF Count, Moves
<1>2. /\ tpc'[t] = IF nBarrier = NThreads - 1 THEN "release" ELSE "spin"
      /\ \A u \in Threads \ {t} : tpc'[u] = tpc[u]
      /\ seen[t] = nPassed
  BY <1>1 DEF PoolTypes, BarrierInv
<1>3. TakingInv'
  BY <1>1, TakingKept DEF ComputingPlaces
<1>4. BarrierInv'
  <2>1. t \notin Waiters /\ Waiters \in SUBSET Threads
    BY <1>1 DEF Waiters
  <2>2. \A u \in Threads : tpc[u] # "release"
    BY <1>1, <2>1 DEF BarrierInv
  <2>3. nBarrier = Cardinality(Waiters)
    BY <2>2 DEF BarrierInv
  <2>4. CASE nBarrier = NThreads - 1
    <3>1. Waiters = Threads \ {t}
      BY <2>1, <2>3, <2>4, AllButOne
    <3>2. nBarrier' = 0 /\ Waiters' = Waiters /\ tpc'[t] = "release"
      BY <2>4, <1>1, <1>2 DEF Counted, Waiters
    <3> QED
      BY <3>1, <3>2, <2>2, <1>1, <1>2 DEF BarrierInv
  <2>5. CASE nBarrier # NThreads - 1
    <3>1. nBarrier' = nBarrier + 1 /\ tpc'[t] = "spin"
      BY <2>5, <1>1, <1>2 DEF Counted
    <3>2. Waiters' = Waiters \cup {t}
      BY <3>1, <1>1, <1>2 DEF Waiters
    <3>3. nBarrier' = Cardinality(Waiters')
      BY <3>1, <3>2, <2>1, <2>3, AllButOne
    <3> QED
      BY <3>1, <3>3, <2>2, <1>1, <1>2 DEF BarrierInv
  <2> QED
    BY <2>4, <2>5
<1>5. \A u \in Threads \ {t} : Still(u)
  BY <1>1, <1>2 DEF Still, wakeVars, workVars
<1>6. /\ Waiting(t)' <=> Waiting(t)
      /\ Leaving(t)' <=> Leaving(t)
  BY <1>1, <1>2 DEF Waiting, Leaving, Waiters
<1>7. /\ Sits(t, n, f)' <=> Sits(t, n, f)
      /\ \A p : Owes(t, p, n, f)' <=> Owes(t, p, n, f)
  BY <1>1, <1>2, <1>6, WaitingSits DEF workVars
<1>8. Segment(n, f)'
  BY <1>1, <1>5, <1>7, QuietStep DEF Segment, workVars
<1> QED
  BY <1>3, <1>4, <1>8

\* Each thread has a part of its own number in each node.
LEMMA PartOfThread ==
  ASSUME NEW n \in Nodes, NEW t \in Threads
  PROVE  t \in Parts(n) /\ t < NThreads /\ t \in Nat
<1>1. n \in MatMul => NChunks[n] \in Nat /\ NChunks[n] >= NThreads
  BY ChunksAssumption, Bounds
<1>2. t \in Nat /\ t < NThreads
  BY Bounds
<1> QED
  BY <1>1, <1>2, Bounds DEF Parts

\* A thread past its parts owes nothing; one before them owes its own only.
LEMMA OwesNothing ==
  ASSUME NEW n \in Nodes, NEW f, NEW t \in Threads, After(t, n, f) \/ AtClaim(t, n, f)
  PROVE  \A p : ~Owes(t, p, n, f)
<1>1. n \in Nat /\ NNodes \in Nat /\ n # n + 1 /\ n < NNodes
  BY Bounds
<1>2. ~AtPart(t, n, f)
  BY DEF After, AtClaim, AtPart, Waits, Waiting, Waiters
<1>3. ~Before(t, n, f)
  <2>1. CASE AtClaim(t, n, f)
    BY <2>1 DEF AtClaim, Before, Unstarted, Outside, Released, Leaving, Waits
  <2>2. CASE After(t, n, f) /\ tpc[t] \in {"end", "loop"}
    BY <2>2, <1>1 DEF After, Before, Unstarted, Outside, Released, Leaving, Waits, Waiting,
                      Waiters
  <2>3. CASE After(t, n, f) /\ tpc[t] \notin {"end", "loop"}
    BY <2>3, <1>1 DEF After, Before, Unstarted, Outside, Released, Leaving, Waits, Waiting,
                      Waiters, Exit
  <2> QED
    BY <2>1, <2>2, <2>3
<1> QED
  BY <1>2, <1>3 DEF Owes

LEMMA OwesOwn ==
  ASSUME NEW n, NEW f, NEW t \in Threads, Before(t, n, f)
  PROVE  \A p : Owes(t, p, n, f) <=> p = t
<1>1. tpc[t] # "part"
  BY DEF Before, Unstarted, Outside, Released, Leaving, Waits, Waiting, Waiters
<1> QED
  BY <1>1 DEF Owes, AtPart

LEMMA SpinStep ==
  ASSUME PoolTypes, TakingInv, BarrierInv, NEW n, NEW f, Segment(n, f),
         NEW t \in Threads, Spin(t)
  PROVE  TakingInv' /\ BarrierInv' /\ Segment(n, f)'
<1> USE Bounds
<1>1. /\ tpc[t] = "spin" /\ seen[t] # nPassed /\ tpc' = [tpc EXCEPT ![t] = after[t]]
      /\ UNCHANGED <<barrierVars, wakeVars, workVars>>
  BY DEF Spin, Moves
<1>2. /\ tpc'[t] = after[t]
      /\ \A u \in Threads \ {t} : tpc'[u] = tpc[u]
  BY <1>1 DEF PoolTypes
<1>3. n \in 0 .. NNodes /\ f \in {1, 2} /\ (n # NNodes => n \in Nodes)
  BY DEF Segment
<1>4. \/ n # NNodes /\ f = 1 /\ node[t] = n /\ after[t] = "loop"
      \/ /\ n # NNodes /\ f = 2 /\ node[t] = n /\ mine[t] = t /\ abort # n
         /\ after[t] = "part"
      \/ n = NNodes /\ after[t] = Exit(t)
  BY <1>1 DEF Segment, Sits, Ended, Released, Leaving, Unstarted, Outside, Before, AtPart,
              AtClaim, After, Waits, Waiting, Waiters
<1>5. after[t] \in {"loop", "part", Exit(t)}
  BY <1>4
<1>6. TakingInv'
  BY <1>1, <1>5, TakingKept DEF ComputingPlaces
<1>7. BarrierInv'
  <2>1. tpc'[t] \notin {"count", "spin", "release"}
    BY <1>2, <1>5 DEF Exit
  <2>2. Waiters' = Waiters
    BY <2>1, <1>1, <1>2 DEF Waiters, barrierVars
  <2> QED
    BY <2>1, <2>2, <1>1, <1>2 DEF BarrierInv, barrierVars
<1>8. \A u \in Threads \ {t} : Still(u)
  BY <1>1, <1>2 DEF Still, wakeVars, workVars, barrierVars
<1>9. /\ Sits(t, n, f)'
      /\ n # NNodes => \A p \in Nat : Owes(t, p, n, f)' <=> Owes(t, p, n, f)
  <2>0. UNCHANGED <<node, mine, chunk, abort, prepared, after, seen, nPassed>>
    BY <1>1 DEF workVars, barrierVars
  <2>1. CASE n # NNodes /\ f = 1 /\ node[t] = n /\ after[t] = "loop"
    <3>1. Before(t, n, f) /\ Before(t, n, f)'
      BY <2>0, <2>1, <1>1, <1>2 DEF Before, Released, Leaving
    <3>2. ~AtPart(t, n, f) /\ ~AtPart(t, n, f)'
      BY <2>1, <1>1, <1>2 DEF AtPart
    <3> QED
      BY <2>1, <3>1, <3>2 DEF Sits, Owes
  <2>2. CASE /\ n # NNodes /\ f = 2 /\ node[t] = n /\ mine[t] = t /\ abort # n
             /\ after[t] = "part"
    <3>1. Before(t, n, f)
      BY <2>2, <1>1 DEF Before, Released, Leaving
    <3>2. chunk \in Nat /\ chunk >= NThreads
      BY <2>2 DEF Segment, PoolTypes
    <3>3. t \in Parts(n) /\ t < NThreads /\ t \in Nat
      BY <2>2, <1>3, PartOfThread
    <3>4. t < Limit(f)'
      BY <2>0, <2>2, <3>2, <3>3 DEF Limit
    <3>5. tpc'[t] = "part" /\ node'[t] = n /\ mine'[t] = t /\ abort' # n
      BY <2>0, <2>2, <1>2
    <3>6. AtPart(t, n, f)'
      BY <2>2, <3>3, <3>4, <3>5 DEF AtPart, Computing
    <3>7. ~Before(t, n, f)'
      BY <2>2, <3>5 DEF Before, Released, Leaving
    <3>8. \A p : Owes(t, p, n, f) <=> p = t
      BY <3>1, OwesOwn
    <3> QED
      BY <2>2, <3>5, <3>6, <3>7, <3>8 DEF Sits, Owes
  <2>3. CASE n = NNodes /\ after[t] = Exit(t)
    <3>1. t # 0 => Took(t)'
      BY <1>1, <2>3 DEF TakingInv, Took, Outside, wakeVars, Workers
    <3>2. Ended(t)'
      BY <2>3, <3>1, <1>2 DEF Ended, Exit, Outside
    <3> QED
      BY <2>3, <3>2 DEF Sits
  <2> QED
    BY <2>1, <2>2, <2>3, <1>4
<1>10. Segment(n, f)'
  BY <1>1, <1>8, <1>9, QuietStep DEF workVars, barrierVars
<1> QED
  BY <1>6, <1>7, <1>10
-----------------------------------------------------------------------------
(* The last thread lets the others go: all cross into the next segment. *)

\* What all threads wait for, and what they bring.
Converted(t, n) == /\ node[t] = n /\ mine[t] = t /\ after[t] = "part"
                   /\ t \in prepared[n] /\ (t = 0 => chunk = NThreads)
Obeying(t, n) == node[t] = n /\ after[t] = Exit(t)
NodeDone(t, n) == node[t] = n + 1 /\ after[t] = "loop"
AllDone(t) == after[t] = Exit(t)

LEMMA WhereWaiting ==
  ASSUME NEW n, NEW f, Segment(n, f), NEW t \in Threads, Waiting(t)
  PROVE  /\ n # NNodes
         /\ \/ /\ f = 1 /\ n \in MatMul /\ abort # n /\ Before(t, n, f) /\ Converted(t, n)
            \/ f = 1 /\ abort = n /\ Before(t, n, f) /\ Obeying(t, n)
            \/ /\ Computing(n, f) /\ abort # n /\ After(t, n, f) /\ n + 1 < NNodes
               /\ NodeDone(t, n)
            \/ /\ Computing(n, f) /\ abort # n /\ After(t, n, f) /\ n + 1 = NNodes
               /\ AllDone(t)
<1>1. /\ tpc[t] \in {"enter", "count", "release", "spin"}
      /\ tpc[t] = "spin" => seen[t] = nPassed
  BY DEF Waiting, Waiters
<1>2. n # NNodes
  BY <1>1 DEF Segment, Sits, Ended, Released, Leaving, Outside
<1>3. Before(t, n, f) \/ After(t, n, f)
  BY <1>1, <1>2 DEF Segment, Sits, AtPart, AtClaim
<1>4. CASE Before(t, n, f)
  BY <1>1, <1>2, <1>4 DEF Before, Unstarted, Outside, Released, Leaving, Waits, Converted,
                         Obeying
<1>5. CASE After(t, n, f)
  BY <1>1, <1>2, <1>5 DEF After, Waits, NodeDone, AllDone
<1> QED
  BY <1>2, <1>3, <1>4, <1>5

LEMMA AllComputed ==
  ASSUME PoolTypes, NEW n \in Nodes, NEW f \in {1, 2}, Segment(n, f),
         \A t \in Threads : After(t, n, f)
  PROVE  Complete(n)
<1>1. \A t \in Threads : \A p : ~Owes(t, p, n, f)
  BY OwesNothing
<1>2. Computing(n, f) /\ AllClaimed(n, f)
  BY Bounds DEF After
<1>3. ASSUME NEW p \in Parts(n)
      PROVE  p < Limit(f)
  <2>1. CASE f = 1
    BY <2>1, <1>2, Bounds DEF Computing, Parts, Limit
  <2>2. CASE f = 2
    <3>1. /\ n \in MatMul /\ chunk >= NThreads /\ chunk \in Nat
          /\ NChunks[n] = NThreads \/ chunk >= NChunks[n]
      BY <2>2, <1>2 DEF Segment, AllClaimed, PoolTypes
    <3>2. p \in 0 .. NChunks[n] - 1 /\ NChunks[n] \in Nat
      BY <3>1, ChunksAssumption DEF Parts
    <3> QED
      BY <2>2, <3>1, <3>2, Bounds DEF Limit
  <2> QED
    BY <2>1, <2>2
<1>4. Partial(n, f)
  BY Bounds DEF Segment, DataInv
<1> QED
  BY <1>1, <1>3, <1>4 DEF Partial, Complete

\* With every part of it still owed, a node is untouched.
LEMMA NoneComputed ==
  ASSUME NEW n \in Nodes, Partial(n, 1), \A t \in Threads : Before(t, n, 1)
  PROVE  Untouched(n)
<1>1. ASSUME NEW p \in Parts(n), p < NThreads
      PROVE  p \in Threads /\ Owes(p, p, n, 1)
  <2>1. p \in Threads
    BY <1>1, Bounds, ChunksAssumption DEF Parts
  <2> QED
    BY <2>1, OwesOwn
<1> QED
  BY <1>1 DEF Partial, Untouched, Limit

\* Into the next segment: what was computed up to there.
LEMMA IntoParts ==
  ASSUME NEW n \in Nodes, Segment(n, 1), \A u \in Threads : Before(u, n, 1),
         UNCHANGED computed, chunk' = NThreads,
         \A u \in Threads : \A p : Owes(u, p, n, 2)' <=> p = u
  PROVE  DataInv(n, 2)'
<1> USE Bounds
<1>1. Limit(2)' = Limit(1)
  BY DEF Limit
<1>2. /\ Partial(n, 1)
      /\ \A m \in Nodes : m < n => Complete(m)
      /\ \A m \in Nodes : m > n => Untouched(m)
  BY DEF Segment, DataInv
<1>3. \A u \in Threads : \A p : Owes(u, p, n, 2)' <=> Owes(u, p, n, 1)
  BY OwesOwn
<1>4. Partial(n, 2)'
  BY <1>1, <1>2, <1>3 DEF Partial, Parts
<1>5. OwedOnce(n, 2)'
  BY DEF OwedOnce
<1> QED
  BY <1>2, <1>4, <1>5 DEF DataInv, Complete, Untouched, Parts

LEMMA IntoNode ==
  ASSUME PoolTypes, NEW n \in Nodes, NEW f \in {1, 2}, Segment(n, f),
         \A u \in Threads : After(u, n, f), n + 1 < NNodes,
         UNCHANGED computed,
         \A u \in Threads : \A p : Owes(u, p, n + 1, 1)' <=> p = u
  PROVE  DataInv(n + 1, 1)'
<1> USE Bounds
<1>1. /\ n + 1 \in Nodes /\ n + 1 # NNodes
      /\ \A m \in Nodes : m < n + 1 => m < n \/ m = n
      /\ \A m \in Nodes : m >= n + 1 => m > n
  OBVIOUS
<1>2. Complete(n)
  BY AllComputed
<1>3. /\ \A m \in Nodes : m < n + 1 => Complete(m)
      /\ \A m \in Nodes : m >= n + 1 => Untouched(m)
  BY <1>1, <1>2 DEF Segment, DataInv
<1>4. Partial(n + 1, 1)'
  <2>1. \A p \in Parts(n + 1) : computed'[n + 1][p] = 0
    BY <1>1, <1>3 DEF Untouched
  <2>2. \A p \in Parts(n + 1) : p < NThreads => p \in Threads
    BY <1>1, ChunksAssumption DEF Parts
  <2>3. \A p \in Parts(n + 1) : p < Limit(1)' => p \in Threads /\ Owes(p, p, n + 1, 1)'
    BY <2>2 DEF Limit
  <2> QED
    BY <2>1, <2>3 DEF Partial, Parts
<1>5. OwedOnce(n + 1, 1)'
  BY DEF OwedOnce
<1>6. /\ \A m \in Nodes : m < n + 1 => Complete(m)'
      /\ \A m \in Nodes : m > n + 1 => Untouched(m)'
  BY <1>1, <1>3 DEF Complete, Untouched, Parts
<1> QED
  BY <1>1, <1>4, <1>5, <1>6 DEF DataInv

LEMMA IntoEnd ==
  ASSUME PoolTypes, NEW n \in Nodes, NEW f \in {1, 2}, Segment(n, f),
         \/ \A u \in Threads : After(u, n, f) /\ n + 1 = NNodes
         \/ \A u \in Threads : Before(u, n, f) /\ f = 1 /\ abort = n,
         UNCHANGED <<computed, ec, abort>>
  PROVE  DataInv(NNodes, 1)'
<1> USE Bounds
<1>1. CASE \A u \in Threads : After(u, n, f) /\ n + 1 = NNodes
  <2>1. \A m \in Nodes : Complete(m)
    <3>1. Complete(n)
      BY <1>1, AllComputed
    <3>2. \A m \in Nodes : m < n \/ m = n
      BY <1>1
    <3> QED
      BY <3>1, <3>2 DEF Segment, DataInv
  <2>2. abort # n
    BY <1>1 DEF After
  <2>3. /\ ec = "aborted" => abort = NNodes /\ abort \in 1 .. NNodes
        /\ \A m \in Nodes : m < NNodes
    BY <1>1, <2>2 DEF Segment
  <2> QED
    BY <2>1, <2>3 DEF DataInv, Complete, Untouched, Parts
<1>2. CASE \A u \in Threads : Before(u, n, f) /\ f = 1 /\ abort = n
  <2>1. Untouched(n)
    BY <1>2, NoneComputed DEF Segment, DataInv
  <2>2. abort \in 1 .. NNodes /\ ec = "aborted" /\ abort = n
    BY <1>2 DEF Segment, PoolTypes
  <2>3. \A m \in Nodes : IF m < abort THEN Complete(m) ELSE Untouched(m)
    BY <2>1, <2>2 DEF Segment, DataInv
  <2> QED
    BY <2>2, <2>3 DEF DataInv, Complete, Untouched, Parts
<1> QED
  BY <1>1, <1>2

LEMMA ReleaseStep ==
  ASSUME PoolTypes, TakingInv, BarrierInv, NEW n, NEW f, Segment(n, f),
         NEW t \in Threads, Release(t)
  PROVE  TakingInv' /\ BarrierInv' /\ \E m \in 0 .. NNodes, g \in {1, 2} : Segment(m, g)'
<1> USE Bounds
<1>1. /\ tpc[t] = "release" /\ nPassed' = nPassed + 1 /\ tpc' = [tpc EXCEPT ![t] = after[t]]
      /\ UNCHANGED <<nBarrier, seen, after, wakeVars, workVars>>
  BY DEF Release, Moves
<1>2. /\ tpc'[t] = after[t]
      /\ \A u \in Threads \ {t} : tpc'[u] = tpc[u]
      /\ nPassed \in Nat
  BY <1>1 DEF PoolTypes
<1>3. /\ nBarrier = 0
      /\ \A u \in Threads \ {t} : tpc[u] = "spin" /\ seen[u] = nPassed
      /\ \A u \in Threads : Waiting(u)
  BY <1>1 DEF BarrierInv, Waiters, Waiting
<1>4. \A u \in Threads \ {t} : Leaving(u)'
  BY <1>1, <1>2, <1>3 DEF Leaving
<1>5. /\ n \in 0 .. NNodes - 1 /\ n \in Nodes /\ f \in {1, 2}
      /\ f = 2 => n \in MatMul
  BY <1>3, WhereWaiting DEF Segment
<1>6. after[t] \in {"loop", "part", Exit(t)}
  BY <1>3, WhereWaiting DEF Converted, Obeying, NodeDone, AllDone
<1>7. TakingInv'
  BY <1>1, <1>6, TakingKept DEF ComputingPlaces
<1>8. BarrierInv'
  <2>1. tpc'[t] \notin {"count", "spin", "release"}
    BY <1>2, <1>6 DEF Exit
  <2>2. Waiters' = {}
    BY <2>1, <1>4 DEF Waiters, Leaving
  <2>3. nBarrier' = Cardinality(Waiters')
    BY <2>2, <1>1, <1>3, FS_EmptySet
  <2>4. \A u \in Threads : tpc'[u] \notin {"count", "release"}
    BY <2>1, <1>2, <1>3
  <2> QED
    BY <2>3, <2>4 DEF BarrierInv
<1>9. UNCHANGED <<node, mine, chunk, abort, ec, prepared, computed, after, seen, pending, last>>
  BY <1>1 DEF workVars, wakeVars
<1>10. CASE \A u \in Threads : /\ f = 1 /\ n \in MatMul /\ abort # n
                               /\ Before(u, n, f) /\ Converted(u, n)
  <2>1. prepared[n] = Threads /\ chunk = NThreads
    BY <1>10 DEF Converted, PoolTypes
  <2>2. /\ Before(t, n, 2)' \/ AtPart(t, n, 2)'
        /\ \A p : Owes(t, p, n, 2)' <=> p = t
    <3>1. tpc'[t] = "part" /\ node'[t] = n /\ mine'[t] = t /\ abort' # n
      BY <1>2, <1>9, <1>10 DEF Converted
    <3>2. t \in Parts(n) /\ t < NThreads
      BY <1>5, PartOfThread
    <3>3. Limit(2)' = NThreads
      BY <2>1, <1>9 DEF Limit
    <3>4. AtPart(t, n, 2)'
      BY <3>1, <3>2, <3>3 DEF AtPart, Computing
    <3>5. ~Before(t, n, 2)'
      BY <3>1 DEF Before, Released, Leaving
    <3> QED
      BY <3>1, <3>4, <3>5 DEF Owes
  <2>3. ASSUME NEW u \in Threads \ {t}
        PROVE  /\ Before(u, n, 2)'
               /\ \A p : Owes(u, p, n, 2)' <=> p = u
    <3>1. node'[u] = n /\ mine'[u] = u /\ abort' # n /\ after'[u] = "part"
      BY <1>9, <1>10 DEF Converted
    <3>2. Before(u, n, 2)'
      BY <3>1, <1>4 DEF Before, Released
    <3>3. ~AtPart(u, n, 2)'
      BY <1>2, <1>3 DEF AtPart
    <3> QED
      BY <3>2, <3>3 DEF Owes, AtPart
  <2>4. \A u \in Threads : Sits(u, n, 2)'
    BY <2>2, <2>3, <1>5 DEF Sits
  <2>5. DataInv(n, 2)'
    BY <2>1, <2>2, <2>3, <1>5, <1>9, <1>10, IntoParts
  <2>6. Segment(n, 2)'
    BY <2>1, <2>4, <2>5, <1>9, <1>5, <1>10 DEF Segment
  <2> QED
    BY <2>6, <1>5, <1>7, <1>8
<1>11. CASE \A u \in Threads : f = 1 /\ abort = n /\ Before(u, n, f) /\ Obeying(u, n)
  <2>1. \A u \in Threads : Sits(u, NNodes, 1)'
    <3>1. tpc'[t] = Exit(t) /\ (t # 0 => Took(t)')
      BY <1>1, <1>2, <1>9, <1>11 DEF Obeying, TakingInv, Took, Outside, Workers
    <3>2. Ended(t)'
      BY <3>1 DEF Ended, Exit, Outside
    <3>3. \A u \in Threads \ {t} : Ended(u)'
      BY <1>4, <1>9, <1>11 DEF Ended, Released, Obeying, Exit
    <3> QED
      BY <3>2, <3>3 DEF Sits
  <2>2. DataInv(NNodes, 1)'
    BY <1>5, <1>9, <1>11, IntoEnd
  <2>3. Segment(NNodes, 1)'
    BY <2>1, <2>2, <1>9 DEF Segment
  <2> QED
    BY <2>3, <1>7, <1>8
<1>12. CASE \A u \in Threads : /\ Computing(n, f) /\ abort # n /\ After(u, n, f)
                               /\ n + 1 < NNodes /\ NodeDone(u, n)
  <2>1. \A u \in Threads : Before(u, n + 1, 1)'
    <3>1. tpc'[t] = "loop" /\ node'[t] = n + 1
      BY <1>2, <1>9, <1>12 DEF NodeDone
    <3>2. \A u \in Threads \ {t} : Released(u, "loop")' /\ node'[u] = n + 1
      BY <1>4, <1>9, <1>12 DEF NodeDone, Released
    <3> QED
      BY <3>1, <3>2 DEF Before
  <2>2. \A u \in Threads : \A p : Owes(u, p, n + 1, 1)' <=> p = u
    <3>1. \A u \in Threads : tpc'[u] # "part"
      BY <1>2, <1>3, <1>12 DEF NodeDone
    <3> QED
      BY <2>1, <3>1 DEF Owes, AtPart
  <2>3. DataInv(n + 1, 1)'
    BY <2>2, <1>5, <1>9, <1>12, IntoNode
  <2>4. n + 1 \in 0 .. NNodes /\ n + 1 # NNodes
    BY <1>5, <1>12
  <2>5. /\ abort' \in {-1, n + 1, n + 1 + 1} /\ abort' # 0
        /\ ec' = "success" <=> abort' = -1
    BY <1>5, <1>9, <1>12 DEF Segment
  <2>6. Segment(n + 1, 1)'
    BY <2>1, <2>3, <2>4, <2>5 DEF Segment, Sits
  <2> QED
    BY <2>4, <2>6, <1>7, <1>8
<1>13. CASE \A u \in Threads : /\ Computing(n, f) /\ abort # n /\ After(u, n, f)
                               /\ n + 1 = NNodes /\ AllDone(u)
  <2>1. \A u \in Threads : Sits(u, NNodes, 1)'
    <3>1. tpc'[t] = Exit(t) /\ (t # 0 => Took(t)')
      BY <1>1, <1>2, <1>9, <1>13 DEF AllDone, TakingInv, Took, Outside, Workers
    <3>2. Ended(t)'
      BY <3>1 DEF Ended, Exit, Outside
    <3>3. \A u \in Threads \ {t} : Ended(u)'
      BY <1>4, <1>9, <1>13 DEF Ended, Released, AllDone, Exit
    <3> QED
      BY <3>2, <3>3 DEF Sits
  <2>2. DataInv(NNodes, 1)'
    BY <1>5, <1>9, <1>13, IntoEnd
  <2>3. Segment(NNodes, 1)'
    BY <2>1, <2>2, <1>9 DEF Segment
  <2> QED
    BY <2>3, <1>7, <1>8
<1> QED
  BY <1>3, <1>5, <1>10, <1>11, <1>12, <1>13, WhereWaiting
     DEF Computing, Converted, Obeying, NodeDone, AllDone
-----------------------------------------------------------------------------
(* The steps of a thread that computes, between barriers *)

LEMMA ConvertStep ==
  ASSUME NThreads > 1, PoolTypes, TakingInv, BarrierInv, NEW n, NEW f, Segment(n, f),
         NEW t \in Threads, Convert(t)
  PROVE  TakingInv' /\ BarrierInv' /\ Segment(n, f)'
<1> USE Bounds
<1>1. /\ tpc[t] = "convert" /\ tpc' = [tpc EXCEPT ![t] = "enter"]
      /\ after' = [after EXCEPT ![t] = "part"]
      /\ prepared' = [prepared EXCEPT ![node[t]] = prepared[node[t]] \cup {t}]
      /\ chunk' = IF t = 0 THEN NThreads ELSE chunk
      /\ UNCHANGED <<node, mine, abort, ec, computed, nBarrier, nPassed, seen, wakeVars>>
  BY DEF Convert, Meet, Moves, FirstClaimed
<1>2. /\ n # NNodes /\ f = 1 /\ n \in MatMul /\ node[t] = n /\ mine[t] = t /\ abort # n
  BY <1>1, WhereActive
<1>3. /\ tpc'[t] = "enter" /\ after'[t] = "part"
      /\ \A u \in Threads \ {t} : tpc'[u] = tpc[u] /\ after'[u] = after[u]
      /\ prepared'[n] = prepared[n] \cup {t}
  BY <1>1, <1>2 DEF PoolTypes
<1>4. TakingInv'
  BY <1>1, TakingKept DEF ComputingPlaces
<1>5. BarrierInv'
  BY <1>1, <1>3, BarrierKept
<1>6. \A u \in Threads : Before(u, n, f)
  BY <1>2 DEF Segment, Sits, AtPart, AtClaim, After, Computing
<1>7. Before(t, n, f)'
  BY <1>1, <1>2, <1>3 DEF Before, Waits, Waiting
<1>8. ASSUME NEW u \in Threads \ {t}
      PROVE  Before(u, n, f)'
  <2>0. /\ tpc'[u] = tpc[u] /\ after'[u] = after[u] /\ seen'[u] = seen[u]
        /\ pending'[u] = pending[u] /\ last'[u] = last[u] /\ nPassed' = nPassed
        /\ node'[u] = node[u] /\ mine'[u] = mine[u] /\ abort' = abort
    BY <1>1, <1>3 DEF wakeVars
  <2>1. /\ Unstarted(u)' <=> Unstarted(u)
        /\ Waiting(u)' <=> Waiting(u)
        /\ Leaving(u)' <=> Leaving(u)
    BY <2>0 DEF Unstarted, Took, Waiting, Leaving, Waiters
  <2>2. u = 0 => chunk' = chunk
    BY <1>1
  <2>3. u \in prepared[n] => u \in prepared'[n]
    BY <1>3
  <2>4. CASE f = 1 /\ n = 0 /\ Unstarted(u)
    BY <2>1, <2>4 DEF Before
  <2>5. CASE f = 1 /\ node[u] = n /\ (tpc[u] = "loop" \/ Released(u, "loop"))
    BY <2>0, <2>1, <2>5 DEF Before, Released
  <2>6. CASE /\ f = 1 /\ n \in MatMul /\ node[u] = n /\ mine[u] = u /\ abort # n
             /\ \/ tpc[u] = "convert"
                \/ Waits(u, "part") /\ u \in prepared[n] /\ (u = 0 => chunk = NThreads)
    BY <2>0, <2>1, <2>2, <2>3, <2>6 DEF Before, Waits
  <2> QED
    BY <1>2, <1>6, <2>4, <2>5, <2>6 DEF Before
<1>9. \A u \in Threads : \A p : /\ Owes(u, p, n, f) <=> p = u
                                /\ Owes(u, p, n, f)' <=> p = u
  <2>1. \A u \in Threads : tpc'[u] # "part"
    <3>1. \A u \in Threads : tpc[u] # "part"
      BY <1>2, WhereActive DEF AtPart, Computing
    <3> QED
      BY <3>1, <1>3
  <2> QED
    BY <2>1, <1>6, <1>7, <1>8, OwesOwn DEF Owes, AtPart
<1>10. Segment(n, f)'
  <2>1. \A u \in Threads : Sits(u, n, f)'
    BY <1>2, <1>7, <1>8 DEF Sits
  <2>2. \A u \in Threads : \A p \in Nat : Owes(u, p, n, f)' <=> Owes(u, p, n, f)
    BY <1>9
  <2>3. f # 2 /\ UNCHANGED <<computed, ec, abort>>
    BY <1>1, <1>2
  <2> QED
    BY <2>1, <2>2, <2>3, QuietSegment
<1> QED
  BY <1>4, <1>5, <1>10

\* How many parts a node has, against the threads.
LEMMA WhenOnlyPart ==
  ASSUME NEW n \in Nodes
  PROVE  /\ n \notin MatMul => NThreads >= Cardinality(Parts(n))
         /\ n \in MatMul => (NThreads >= Cardinality(Parts(n)) => NChunks[n] = NThreads)
<1>1. CASE n \notin MatMul
  <2>1. Parts(n) = 0 .. NThreads - 1
    BY <1>1 DEF Parts
  <2>2. Cardinality(0 .. NThreads - 1) = NThreads
    BY FS_Interval, Bounds
  <2> QED
    BY <1>1, <2>1, <2>2, Bounds
<1>2. CASE n \in MatMul
  <2>1. /\ NChunks[n] \in Nat
        /\ NChunks[n] = NThreads \/ NChunks[n] >= 4 * NThreads
    BY <1>2, ChunksAssumption
  <2>2. Parts(n) = 0 .. NChunks[n] - 1
    BY <1>2 DEF Parts
  <2>3. Cardinality(0 .. NChunks[n] - 1) = NChunks[n]
    BY <2>1, FS_Interval
  <2> QED
    BY <1>2, <2>1, <2>2, <2>3, Bounds
<1> QED
  BY <1>1, <1>2

LEMMA PartStep ==
  ASSUME PoolTypes, TakingInv, BarrierInv, NEW n, NEW f, Segment(n, f),
         NEW t \in Threads, Part(t)
  PROVE  TakingInv' /\ BarrierInv' /\ Segment(n, f)'
<1> USE Bounds
<1>1. /\ tpc[t] = "part"
      /\ computed' = [computed EXCEPT ![node[t]] =
                        [computed[node[t]] EXCEPT ![mine[t]] = computed[node[t]][mine[t]] + 1]]
      /\ tpc' = [tpc EXCEPT ![t] = IF OnlyPart(t) THEN "end" ELSE "claim"]
      /\ UNCHANGED <<node, mine, chunk, abort, ec, prepared, barrierVars, wakeVars>>
  BY DEF Part, Moves
<1> DEFINE q == mine[t]
<1>2. /\ n # NNodes /\ Computing(n, f) /\ node[t] = n /\ abort # n
      /\ q \in Parts(n) /\ q < Limit(f) /\ AtPart(t, n, f)
  BY <1>1, WhereActive DEF AtPart
<1>3. n \in Nodes /\ n \in 0 .. NNodes - 1 /\ f \in {1, 2} /\ (f = 2 => n \in MatMul)
  BY <1>2 DEF Segment
<1>4. /\ tpc'[t] = IF OnlyPart(t) THEN "end" ELSE "claim"
      /\ \A u \in Threads \ {t} : tpc'[u] = tpc[u]
  BY <1>1 DEF PoolTypes
<1>5. TakingInv'
  <2>1. PICK s \in {"end", "claim"} : tpc' = [tpc EXCEPT ![t] = s]
    BY <1>1
  <2> QED
    BY <2>1, <1>1, TakingKept DEF ComputingPlaces
<1>6. BarrierInv'
  <2>1. \A u \in Threads : \/ tpc'[u] = tpc[u]
                           \/ /\ tpc[u] \notin {"count", "spin", "release"}
                              /\ tpc'[u] \notin {"count", "spin", "release"}
    BY <1>1, <1>4
  <2> QED
    BY <2>1, <1>1, BarrierKept DEF barrierVars
<1>7. ASSUME NEW u \in Threads \ {t}
      PROVE  Sits(u, n, f)' /\ \A p : Owes(u, p, n, f)' <=> Owes(u, p, n, f)
  <2>1. Still(u) /\ mine'[u] = mine[u]
    BY <1>1, <1>4 DEF Still, barrierVars, wakeVars
  <2>2. /\ Before(u, n, f)' <=> Before(u, n, f)
        /\ AtPart(u, n, f)' <=> AtPart(u, n, f)
        /\ AtClaim(u, n, f)' <=> AtClaim(u, n, f)
        /\ After(u, n, f)' <=> After(u, n, f)
    BY <2>1, <1>1, StillSits DEF barrierVars
  <2> QED
    BY <2>1, <2>2, <1>2 DEF Sits, Owes, Segment
<1>8. AtClaim(t, n, f)' \/ After(t, n, f)'
  <2>1. CASE OnlyPart(t)
    <3>1. f = 2 => NChunks[n] = NThreads
      BY <2>1, <1>2, <1>3, WhenOnlyPart DEF OnlyPart
    <3>2. tpc'[t] = "end" /\ node'[t] = n /\ abort' # n
      BY <2>1, <1>1, <1>2, <1>4
    <3> QED
      BY <3>1, <3>2, <1>2 DEF After, AllClaimed, Computing
  <2>2. CASE ~OnlyPart(t)
    <3>1. f = 2
      BY <2>2, <1>2, <1>3, WhenOnlyPart DEF OnlyPart, Computing
    <3> QED
      BY <2>2, <3>1, <1>1, <1>2, <1>4 DEF AtClaim
  <2> QED
    BY <2>1, <2>2
<1>9. \A p : ~Owes(t, p, n, f)'
  <2>1. tpc'[t] \in {"end", "claim"}
    BY <1>4
  <2> QED
    BY <2>1 DEF Owes, Before, AtPart, Unstarted, Outside, Waits, Waiting, Waiters, Released,
                Leaving
<1>10. \A p : Owes(t, p, n, f) <=> p = q
  BY <1>1, <1>2 DEF Owes, Before, Unstarted, Outside, Waits, Waiting, Waiters, Released,
                    Leaving
<1>11. /\ Partial(n, f) /\ OwedOnce(n, f)
       /\ \A m \in Nodes : m < n => Complete(m)
       /\ \A m \in Nodes : m > n => Untouched(m)
  BY <1>2 DEF Segment, DataInv
<1>12. /\ computed[n] \in [Parts(n) -> Nat]
       /\ computed'[n] = [computed[n] EXCEPT ![q] = computed[n][q] + 1]
       /\ \A m \in Nodes \ {n} : computed'[m] = computed[m]
  BY <1>1, <1>2, <1>3 DEF PoolTypes
<1>13. q \in Nat
  BY <1>2 DEF Parts
<1>14. computed[n][q] = 0
  BY <1>2, <1>10, <1>11 DEF Partial
<1>15. Partial(n, f)'
  <2> SUFFICES ASSUME NEW p \in Parts(n)
               PROVE  computed'[n][p] = IF p < Limit(f) /\ \A u \in Threads : ~Owes(u, p, n, f)'
                                        THEN 1 ELSE 0
    BY <1>1 DEF Partial, Limit, Parts
  <2>1. CASE p = q
    <3>1. computed'[n][p] = 1
      BY <2>1, <1>2, <1>12, <1>14
    <3>2. \A u \in Threads \ {t} : ~Owes(u, q, n, f)
      BY <1>10, <1>11, <1>13 DEF OwedOnce
    <3>3. \A u \in Threads : ~Owes(u, p, n, f)'
      BY <2>1, <3>2, <1>7, <1>9
    <3> QED
      BY <2>1, <3>1, <3>3, <1>2
  <2>2. CASE p # q
    <3>1. computed'[n][p] = computed[n][p]
      BY <2>2, <1>12
    <3>2. \A u \in Threads : Owes(u, p, n, f)' <=> Owes(u, p, n, f)
      BY <2>2, <1>7, <1>9, <1>10
    <3> QED
      BY <3>1, <3>2, <1>11 DEF Partial
  <2> QED
    BY <2>1, <2>2
<1>16. OwedOnce(n, f)'
  BY <1>7, <1>9, <1>11 DEF OwedOnce
<1>17. DataInv(n, f)'
  <2>1. \A m \in Nodes : m < n \/ m > n => computed'[m] = computed[m]
    BY <1>3, <1>12
  <2>2. /\ \A m \in Nodes : m < n => Complete(m)'
        /\ \A m \in Nodes : m > n => Untouched(m)'
    BY <2>1, <1>11 DEF Complete, Untouched, Parts
  <2> QED
    BY <2>2, <1>2, <1>15, <1>16 DEF DataInv
<1>18. \A u \in Threads : Sits(u, n, f)'
  BY <1>2, <1>7, <1>8 DEF Sits
<1>19. Segment(n, f)'
  BY <1>1, <1>17, <1>18 DEF Segment
<1> QED
  BY <1>5, <1>6, <1>19

LEMMA ClaimStep ==
  ASSUME PoolTypes, TakingInv, BarrierInv, NEW n, NEW f, Segment(n, f),
         NEW t \in Threads, Claim(t)
  PROVE  TakingInv' /\ BarrierInv' /\ Segment(n, f)'
<1> USE Bounds
<1>1. /\ tpc[t] = "claim"
      /\ mine' = [mine EXCEPT ![t] = chunk] /\ chunk' = chunk + 1
      /\ tpc' = [tpc EXCEPT ![t] = IF chunk \in Parts(node[t]) THEN "part" ELSE "end"]
      /\ UNCHANGED <<node, abort, ec, prepared, computed, barrierVars, wakeVars>>
  BY DEF Claim, Moves
<1>2. n # NNodes /\ f = 2 /\ node[t] = n /\ abort # n /\ AtClaim(t, n, f)
  BY <1>1, WhereActive DEF AtClaim
<1>3. /\ n \in Nodes /\ n \in MatMul /\ prepared[n] = Threads
      /\ chunk \in Nat /\ chunk >= NThreads /\ chunk' \in Nat
      /\ NChunks[n] \in Nat /\ Parts(n) = 0 .. NChunks[n] - 1
  <2>1. n \in MatMul /\ prepared[n] = Threads /\ chunk >= NThreads
    BY <1>2 DEF Segment
  <2>2. n \in Nodes
    BY <2>1, NodesAssumption
  <2>3. chunk \in Nat
    BY DEF PoolTypes
  <2>4. NChunks[n] \in Nat
    BY <2>1, ChunksAssumption
  <2> QED
    BY <2>1, <2>2, <2>3, <2>4, <1>1 DEF Parts
<1>4. /\ tpc'[t] = IF chunk \in Parts(n) THEN "part" ELSE "end"
      /\ mine'[t] = chunk
      /\ \A u \in Threads \ {t} : tpc'[u] = tpc[u] /\ mine'[u] = mine[u]
  BY <1>1, <1>2 DEF PoolTypes
<1>5. TakingInv'
  <2>1. PICK s \in {"end", "part"} : tpc' = [tpc EXCEPT ![t] = s]
    BY <1>1
  <2> QED
    BY <2>1, <1>1, TakingKept DEF ComputingPlaces
<1>6. BarrierInv'
  <2>1. \A u \in Threads : \/ tpc'[u] = tpc[u]
                           \/ /\ tpc[u] \notin {"count", "spin", "release"}
                              /\ tpc'[u] \notin {"count", "spin", "release"}
    BY <1>1, <1>4
  <2> QED
    BY <2>1, <1>1, BarrierKept DEF barrierVars
<1>7. ASSUME NEW u \in Threads \ {t}
      PROVE  /\ Sits(u, n, f)'
             /\ \A p \in Nat : Owes(u, p, n, f)' <=> Owes(u, p, n, f)
             /\ \A p \in Nat : Owes(u, p, n, f) => p < chunk
  <2>0. /\ tpc'[u] = tpc[u] /\ after'[u] = after[u] /\ seen'[u] = seen[u]
        /\ nPassed' = nPassed /\ abort' = abort
        /\ node'[u] = node[u] /\ mine'[u] = mine[u] /\ mine[u] \in Nat
    BY <1>1, <1>4 DEF barrierVars, PoolTypes
  <2>1. /\ Waiting(u)' <=> Waiting(u)
        /\ Leaving(u)' <=> Leaving(u)
    BY <2>0 DEF Waiting, Leaving, Waiters
  <2>2. Before(u, n, f)' <=> Before(u, n, f)
    BY <2>0, <2>1, <1>2 DEF Before, Released
  <2>3. AtPart(u, n, f) => AtPart(u, n, f)'
    <3>1. mine[u] < chunk => mine'[u] < chunk'
      BY <2>0, <1>1, <1>3
    <3> QED
      BY <2>0, <3>1, <1>2 DEF AtPart, Limit, Computing
  <2>4. AtClaim(u, n, f) => AtClaim(u, n, f)'
    BY <2>0 DEF AtClaim
  <2>5. After(u, n, f) => After(u, n, f)'
    <3>1. AllClaimed(n, f) => AllClaimed(n, f)'
      BY <1>1, <1>3 DEF AllClaimed
    <3> QED
      BY <2>0, <2>1, <3>1 DEF After, Computing, Waits, Exit
  <2>6. Before(u, n, f) \/ AtPart(u, n, f) \/ AtClaim(u, n, f) \/ After(u, n, f)
    BY <1>2 DEF Segment, Sits
  <2>7. AtPart(u, n, f)' => AtPart(u, n, f)
    BY <2>0, <2>6 DEF AtPart, AtClaim, After, Before, Unstarted, Outside, Waits, Waiting,
                      Waiters, Released, Leaving
  <2>8. Sits(u, n, f)'
    BY <1>2, <2>2, <2>3, <2>4, <2>5, <2>6 DEF Sits
  <2>9. ASSUME NEW p \in Nat
        PROVE  Owes(u, p, n, f)' <=> Owes(u, p, n, f)
    BY <2>0, <2>2, <2>3, <2>7 DEF Owes
  <2>10. ASSUME NEW p \in Nat, Owes(u, p, n, f)
         PROVE  p < chunk
    <3>1. CASE Before(u, n, f) /\ p = u
      BY <3>1, <1>3
    <3>2. CASE AtPart(u, n, f) /\ p = mine[u]
      BY <3>2, <1>2 DEF AtPart, Limit
    <3> QED
      BY <2>10, <3>1, <3>2 DEF Owes
  <2> QED
    BY <2>8, <2>9, <2>10
<1>8. \A p : ~Owes(t, p, n, f)
  BY <1>2, <1>3, OwesNothing
<1>9. AtPart(t, n, f)' \/ After(t, n, f)'
  <2>1. CASE chunk \in Parts(n)
    <3>1. /\ tpc'[t] = "part" /\ node'[t] = n /\ abort' # n /\ mine'[t] = chunk
          /\ chunk < chunk'
      BY <2>1, <1>1, <1>2, <1>3, <1>4
    <3> QED
      BY <2>1, <3>1, <1>2 DEF AtPart, Limit, Computing
  <2>2. CASE chunk \notin Parts(n)
    <3>1. tpc'[t] = "end" /\ node'[t] = n /\ abort' # n
      BY <2>2, <1>1, <1>2, <1>4
    <3>2. chunk' >= NChunks[n]
      BY <2>2, <1>1, <1>3
    <3> QED
      BY <3>1, <3>2, <1>2 DEF After, AllClaimed, Computing
  <2> QED
    BY <2>1, <2>2
<1>10. \A p \in Parts(n) : Owes(t, p, n, f)' <=> p = chunk
  <2>1. ~Before(t, n, f)'
    BY <1>2, <1>4 DEF Before, Released, Leaving
  <2>2. CASE chunk \in Parts(n)
    <3>1. tpc'[t] = "part"
      BY <2>2, <1>4
    <3>2. AtPart(t, n, f)'
      BY <3>1, <1>9 DEF After, Waits, Waiting, Waiters
    <3> QED
      BY <2>1, <3>2, <1>4 DEF Owes
  <2>3. CASE chunk \notin Parts(n)
    <3>1. ~AtPart(t, n, f)'
      BY <2>3, <1>4 DEF AtPart
    <3> QED
      BY <2>1, <2>3, <3>1 DEF Owes
  <2> QED
    BY <2>2, <2>3
<1>11. \A p \in Nat : Owes(t, p, n, f)' => p = chunk
  <2>1. ~Before(t, n, f)'
    BY <1>2, <1>4 DEF Before, Released, Leaving
  <2> QED
    BY <2>1, <1>4 DEF Owes
<1>12. /\ Partial(n, f) /\ OwedOnce(n, f)
       /\ \A m \in Nodes : m < n => Complete(m)
       /\ \A m \in Nodes : m > n => Untouched(m)
  BY <1>2 DEF Segment, DataInv
<1>13. Partial(n, f)'
  <2> SUFFICES ASSUME NEW p \in Parts(n)
               PROVE  computed[n][p] = IF p < chunk + 1 /\ \A u \in Threads : ~Owes(u, p, n, f)'
                                       THEN 1 ELSE 0
    BY <1>1, <1>2 DEF Partial, Limit, Parts
  <2>0. p \in Nat
    BY DEF Parts
  <2>1. CASE p = chunk
    BY <2>1, <1>2, <1>3, <1>10, <1>12 DEF Partial, Limit
  <2>2. CASE p # chunk
    <3>1. \A u \in Threads : Owes(u, p, n, f)' <=> Owes(u, p, n, f)
      BY <2>0, <2>2, <1>7, <1>8, <1>10
    <3>2. p < chunk + 1 <=> p < chunk
      BY <2>0, <2>2, <1>3
    <3> QED
      BY <3>1, <3>2, <1>2, <1>12 DEF Partial, Limit
  <2> QED
    BY <2>1, <2>2
<1>14. OwedOnce(n, f)'
  <2> SUFFICES ASSUME NEW u \in Threads, NEW v \in Threads, NEW p \in Nat,
                      Owes(u, p, n, f)', Owes(v, p, n, f)'
               PROVE  u = v
    BY DEF OwedOnce
  <2>1. \A w \in Threads : Owes(w, p, n, f)' => IF w = t THEN p = chunk
                                               ELSE Owes(w, p, n, f) /\ p < chunk
    BY <1>7, <1>11
  <2>2. ~(chunk < chunk)
    BY <1>3
  <2> QED
    BY <2>1, <2>2, <1>12 DEF OwedOnce
<1>15. DataInv(n, f)'
  BY <1>1, <1>2, <1>12, <1>13, <1>14 DEF DataInv, Complete, Untouched, Parts
<1>16. \A u \in Threads : Sits(u, n, f)'
  BY <1>2, <1>7, <1>9 DEF Sits
<1>17. Segment(n, f)'
  <2>1. prepared'[n] = Threads /\ chunk' >= NThreads
    BY <1>1, <1>3
  <2> QED
    BY <2>1, <1>1, <1>15, <1>16 DEF Segment
<1> QED
  BY <1>5, <1>6, <1>17

LEMMA EndStep ==
  ASSUME PoolTypes, TakingInv, BarrierInv, NEW n, NEW f, Segment(n, f),
         NEW t \in Threads, End(t),
         NThreads > 1 \/ ~(node[t] + 1 < NNodes)
  PROVE  TakingInv' /\ BarrierInv' /\ Segment(n, f)'
<1> USE Bounds
<1>1. /\ tpc[t] = "end"
      /\ node' = [node EXCEPT ![t] = node[t] + 1]
      /\ IF node[t] + 1 < NNodes
         THEN tpc' = [tpc EXCEPT ![t] = "enter"] /\ after' = [after EXCEPT ![t] = "loop"]
         ELSE tpc' = [tpc EXCEPT ![t] = "loop"] /\ after' = after
      /\ \/ abort' = abort /\ ec' = ec
         \/ abort' = node[t] + 1 /\ ec' = "aborted"
      /\ UNCHANGED <<mine, chunk, prepared, computed, nBarrier, nPassed, seen, wakeVars>>
  BY DEF End, Meet, Moves
<1>2. n # NNodes /\ After(t, n, f) /\ node[t] = n
  BY <1>1, WhereActive
<1>3. /\ n \in Nodes /\ n \in 0 .. NNodes - 1 /\ f \in {1, 2} /\ (f = 2 => n \in MatMul)
      /\ abort # n /\ abort' # n /\ Computing(n, f) /\ AllClaimed(n, f)
  BY <1>1, <1>2 DEF Segment, After
<1>4. PICK s \in {"enter", "loop"} : tpc' = [tpc EXCEPT ![t] = s]
  BY <1>1
<1>5. /\ tpc'[t] = s /\ node'[t] = n + 1
      /\ \A u \in Threads \ {t} :
           tpc'[u] = tpc[u] /\ after'[u] = after[u] /\ node'[u] = node[u]
  BY <1>1, <1>2, <1>4 DEF PoolTypes
<1>6. TakingInv'
  BY <1>1, <1>4, TakingKept DEF ComputingPlaces
<1>7. BarrierInv'
  <2>1. \A u \in Threads : \/ tpc'[u] = tpc[u]
                           \/ /\ tpc[u] \notin {"count", "spin", "release"}
                              /\ tpc'[u] \notin {"count", "spin", "release"}
    BY <1>1, <1>5
  <2> QED
    BY <2>1, <1>1, BarrierKept
<1>8. After(t, n, f)'
  <2>1. AllClaimed(n, f)'
    BY <1>1, <1>3 DEF AllClaimed
  <2>2. CASE n + 1 < NNodes
    <3>1. tpc'[t] = "enter" /\ after'[t] = "loop"
      BY <2>2, <1>1, <1>2 DEF PoolTypes
    <3> QED
      BY <2>1, <2>2, <3>1, <1>3, <1>5 DEF After, Computing, Waits, Waiting
  <2>3. CASE ~(n + 1 < NNodes)
    <3>1. tpc' = [tpc EXCEPT ![t] = "loop"] /\ n + 1 = NNodes
      BY <2>3, <1>1, <1>2, <1>3
    <3>2. tpc'[t] = "loop"
      BY <3>1 DEF PoolTypes
    <3> QED
      BY <2>1, <3>1, <3>2, <1>3, <1>5 DEF After, Computing
  <2> QED
    BY <2>2, <2>3
<1>9. ASSUME NEW u \in Threads \ {t}
      PROVE  Sits(u, n, f)' /\ \A p : Owes(u, p, n, f)' <=> Owes(u, p, n, f)
  <2>0. /\ tpc'[u] = tpc[u] /\ after'[u] = after[u] /\ seen'[u] = seen[u]
        /\ pending'[u] = pending[u] /\ last'[u] = last[u] /\ nPassed' = nPassed
        /\ node'[u] = node[u] /\ mine'[u] = mine[u] /\ chunk' = chunk /\ prepared' = prepared
    BY <1>1, <1>5 DEF wakeVars
  <2>1. /\ Unstarted(u)' <=> Unstarted(u)
        /\ Waiting(u)' <=> Waiting(u)
        /\ Leaving(u)' <=> Leaving(u)
    BY <2>0 DEF Unstarted, Took, Waiting, Leaving, Waiters
  <2>2. Before(u, n, f)' <=> Before(u, n, f)
    BY <2>0, <2>1, <1>3 DEF Before, Waits, Released, Exit
  <2>3. /\ AtPart(u, n, f)' <=> AtPart(u, n, f)
        /\ AtClaim(u, n, f)' <=> AtClaim(u, n, f)
    BY <2>0, <1>3 DEF AtPart, AtClaim, Limit, Computing
  <2>4. After(u, n, f)' <=> After(u, n, f)
    BY <2>0, <2>1, <1>3 DEF After, Waits, AllClaimed, Computing, Exit
  <2> QED
    BY <2>0, <2>2, <2>3, <2>4, <1>2 DEF Segment, Sits, Owes
<1>10. \A p : ~Owes(t, p, n, f) /\ ~Owes(t, p, n, f)'
  <2>1. \A p : ~Owes(t, p, n, f)
    BY <1>2, <1>3, OwesNothing
  <2>2. ~AtPart(t, n, f)'
    BY <1>5 DEF AtPart
  <2>3. ~Before(t, n, f)'
    <3>1. node'[t] # n /\ tpc'[t] \in {"enter", "loop"}
      BY <1>3, <1>5
    <3> QED
      BY <3>1 DEF Before, Unstarted, Outside
  <2> QED
    BY <2>1, <2>2, <2>3 DEF Owes
<1>11. /\ Partial(n, f) /\ OwedOnce(n, f)
       /\ \A m \in Nodes : m < n => Complete(m)
       /\ \A m \in Nodes : m > n => Untouched(m)
  BY <1>2 DEF Segment, DataInv
<1>12. \A u \in Threads : \A p : Owes(u, p, n, f)' <=> Owes(u, p, n, f)
  BY <1>9, <1>10
<1>13. Partial(n, f)' /\ OwedOnce(n, f)'
  <2>1. Limit(f)' = Limit(f)
    BY <1>1 DEF Limit
  <2>2. Partial(n, f)'
    BY <2>1, <1>1, <1>11, <1>12 DEF Partial, Parts
  <2>3. OwedOnce(n, f)'
    BY <1>11, <1>12 DEF OwedOnce
  <2> QED
    BY <2>2, <2>3
<1>14. DataInv(n, f)'
  BY <1>1, <1>2, <1>11, <1>13 DEF DataInv, Complete, Untouched, Parts
<1>15. \A u \in Threads : Sits(u, n, f)'
  BY <1>2, <1>8, <1>9 DEF Sits
<1>16. /\ ec' = "success" <=> abort' = -1
       /\ abort' \in {-1, n, n + 1} /\ abort' # 0
  BY <1>1, <1>2, <1>3 DEF Segment
<1>17. Segment(n, f)'
  BY <1>1, <1>3, <1>14, <1>15, <1>16 DEF Segment
<1> QED
  BY <1>6, <1>7, <1>17

\* One thread alone does not wait at the barriers: it crosses at once.
LEMMA AloneStep ==
  ASSUME NThreads = 1, PoolTypes, TakingInv, BarrierInv, NEW n, NEW f, Segment(n, f),
         \/ Loop(0) /\ ~(node[0] < NNodes /\ abort # node[0])
         \/ Convert(0)
         \/ End(0) /\ node[0] + 1 < NNodes
  PROVE  TakingInv' /\ BarrierInv' /\ \E m \in 0 .. NNodes, g \in {1, 2} : Segment(m, g)'
<1> USE Bounds
<1>1. Threads = {0}
  OBVIOUS
<1>2. \E s \in {"free", "part", "loop"} : tpc' = [tpc EXCEPT ![0] = s]
  BY DEF Loop, Convert, End, Aborts, Meet, Moves
<1>3. /\ tpc[0] \in {"loop", "convert", "end"}
      /\ UNCHANGED <<nBarrier, nPassed, seen, wakeVars, computed, after>>
  BY DEF Loop, Convert, End, Aborts, Meet
<1>4. TakingInv'
  BY <1>2, <1>3, TakingKept DEF ComputingPlaces, Exit
<1>5. tpc'[0] \in {"free", "part", "loop"}
  BY <1>2 DEF PoolTypes
<1>6. BarrierInv'
  BY <1>1, <1>3, <1>5, BarrierKept
<1>7. n # NNodes => n \in Nodes /\ f \in {1, 2}
  BY DEF Segment
<1>8. CASE Loop(0) /\ ~(node[0] < NNodes /\ abort # node[0])
  <2>1. /\ tpc[0] = "loop" /\ tpc' = [tpc EXCEPT ![0] = "free"]
        /\ UNCHANGED <<node, chunk, abort, ec, prepared>>
    BY <1>8 DEF Loop, Aborts, Meet, Moves
  <2>2. n # NNodes
    BY <2>1, WhereLoop
  <2>3. \/ \A u \in Threads : After(u, n, f) /\ n + 1 = NNodes
        \/ \A u \in Threads : Before(u, n, f) /\ f = 1 /\ abort = n
    BY <1>1, <1>7, <1>8, <2>1, <2>2, WhereLoop
  <2>4. DataInv(NNodes, 1)'
    BY <1>3, <1>7, <2>1, <2>2, <2>3, IntoEnd
  <2>5. tpc'[0] = "free"
    BY <2>1 DEF PoolTypes
  <2>6. \A u \in Threads : Sits(u, NNodes, 1)'
    BY <1>1, <2>5 DEF Sits, Ended
  <2>7. Segment(NNodes, 1)'
    BY <2>1, <2>4, <2>6 DEF Segment
  <2> QED
    BY <1>4, <1>6, <2>7
<1>9. CASE Convert(0)
  <2>1. /\ tpc[0] = "convert" /\ tpc' = [tpc EXCEPT ![0] = "part"]
        /\ prepared' = [prepared EXCEPT ![node[0]] = prepared[node[0]] \cup {0}]
        /\ chunk' = NThreads
        /\ UNCHANGED <<node, mine, abort, ec>>
    BY <1>9 DEF Convert, Meet, Moves, FirstClaimed
  <2>2. n # NNodes /\ f = 1 /\ n \in MatMul /\ node[0] = n /\ mine[0] = 0 /\ abort # n
    BY <2>1, WhereActive
  <2>3. prepared'[n] = Threads /\ tpc'[0] = "part"
    BY <2>1, <2>2, <1>1 DEF PoolTypes
  <2>4. \A u \in Threads : Before(u, n, 1)
    BY <1>1, <2>1, <2>2 DEF Before
  <2>5. AtPart(0, n, 2)'
    <3>1. 0 \in Parts(n) /\ 0 < Limit(2)'
      BY <1>7, <2>1, <2>2, PartOfThread DEF Limit
    <3> QED
      BY <2>1, <2>2, <2>3, <3>1 DEF AtPart, Computing
  <2>6. \A u \in Threads : \A p : Owes(u, p, n, 2)' <=> p = u
    <3>1. ~Before(0, n, 2)'
      BY <2>3 DEF Before, Released, Leaving
    <3> QED
      BY <1>1, <2>1, <2>2, <2>5, <3>1 DEF Owes
  <2>7. DataInv(n, 2)'
    BY <1>3, <1>7, <2>1, <2>2, <2>4, <2>6, IntoParts
  <2>8. Segment(n, 2)'
    BY <1>1, <2>1, <2>2, <2>3, <2>5, <2>7 DEF Segment, Sits
  <2> QED
    BY <1>4, <1>6, <2>8 DEF Segment
<1>10. CASE End(0) /\ node[0] + 1 < NNodes
  <2>1. /\ tpc[0] = "end" /\ tpc' = [tpc EXCEPT ![0] = "loop"]
        /\ node' = [node EXCEPT ![0] = node[0] + 1]
        /\ \/ abort' = abort /\ ec' = ec
           \/ abort' = node[0] + 1 /\ ec' = "aborted"
    BY <1>10 DEF End, Meet, Moves
  <2>2. n # NNodes /\ After(0, n, f) /\ node[0] = n
    BY <2>1, WhereActive
  <2>3. n \in Nodes /\ f \in {1, 2} /\ n + 1 \in 0 .. NNodes /\ n + 1 < NNodes /\ abort # n
    BY <1>7, <1>10, <2>2 DEF After
  <2>4. tpc'[0] = "loop" /\ node'[0] = n + 1
    BY <2>1, <2>2 DEF PoolTypes
  <2>5. \A u \in Threads : Before(u, n + 1, 1)' /\ \A p : Owes(u, p, n + 1, 1)' <=> p = u
    BY <1>1, <2>4 DEF Before, Owes, AtPart
  <2>6. DataInv(n + 1, 1)'
    BY <1>1, <1>3, <2>2, <2>3, <2>5, IntoNode
  <2>7. /\ abort' \in {-1, n + 1, n + 1 + 1} /\ abort' # 0
        /\ ec' = "success" <=> abort' = -1
    BY <2>1, <2>2, <2>3 DEF Segment
  <2>8. Segment(n + 1, 1)'
    BY <2>3, <2>5, <2>6, <2>7 DEF Segment, Sits
  <2> QED
    BY <1>4, <1>6, <2>3, <2>8
<1> QED
  BY <1>8, <1>9, <1>10
-----------------------------------------------------------------------------
(* Waking, taking the graph, and stopping *)

\* A worker that does not compute stays outside, or leaves a pool that stops.
LEMMA OutsideStep ==
  ASSUME PoolTypes, TakingInv, BarrierInv, NEW n, NEW f, Segment(n, f),
         NEW t \in Workers, tpc[t] \in Outside,
         UNCHANGED <<stop, nGraph, workVars, barrierVars>>,
         NEW s \in Outside \cup {"gone"}, tpc' = [tpc EXCEPT ![t] = s],
         s = "gone" => stop,
         s = "work" => pending'[t],
         Took(t)' <=> Took(t),
         last'[t] \in {0, 1}, last'[t] <= nGraph, pending'[t] => last'[t] = 1,
         \A u \in Threads \ {t} : pending'[u] = pending[u] /\ last'[u] = last[u]
  PROVE  TakingInv' /\ BarrierInv' /\ Segment(n, f)'
<1> USE Bounds
<1>1. /\ t \in Threads /\ t # 0 /\ tpc'[t] = s
      /\ \A u \in Threads \ {t} : tpc'[u] = tpc[u]
      /\ tpc'[0] = tpc[0]
  BY DEF PoolTypes
<1>2. \A u \in Threads \ {t} : Still(u)
  BY <1>1 DEF Still, workVars, barrierVars
<1>3. stop => n = NNodes
  <2>1. stop => tpc[0] \in {"free_wake", "join", "returned"}
    BY DEF TakingInv
  <2>2. tpc[0] \in {"free_wake", "join", "returned"} => ~Before(0, n, f)
    BY DEF Before, Unstarted, Released, Leaving, Waits, Waiting, Waiters
  <2>3. tpc[0] \in {"free_wake", "join", "returned"} =>
          ~AtPart(0, n, f) /\ ~AtClaim(0, n, f) /\ ~After(0, n, f)
    BY DEF AtPart, AtClaim, After, Waits, Waiting, Waiters
  <2> QED
    BY <2>1, <2>2, <2>3 DEF Segment, Sits
<1>4. /\ \A m : ~Released(t, m) /\ ~Waits(t, m)
      /\ \A m : ~Released(t, m)' /\ ~Waits(t, m)'
      /\ ~AtPart(t, n, f) /\ ~AtPart(t, n, f)' /\ ~AtClaim(t, n, f) /\ ~After(t, n, f)
  BY <1>1 DEF Released, Leaving, Waits, Waiting, Waiters, AtPart, AtClaim, After, Outside
<1>5. n # NNodes => Before(t, n, f) /\ Before(t, n, f)' /\ f = 1 /\ n = 0 /\ ~Took(t)
  <2>1. n # NNodes => Before(t, n, f)
    BY <1>4 DEF Segment, Sits
  <2>2. Before(t, n, f) => f = 1 /\ n = 0 /\ ~Took(t)
    BY <1>1, <1>4 DEF Before, Unstarted, Outside
  <2>3. n # NNodes => s \in Outside
    BY <1>3
  <2>4. n # NNodes => Unstarted(t)'
    BY <2>1, <2>2, <2>3, <1>1 DEF Unstarted
  <2> QED
    BY <2>1, <2>2, <2>4 DEF Before
<1>6. n = NNodes => Took(t) /\ Ended(t)'
  <2>1. n = NNodes => Took(t)
    BY <1>1, <1>4 DEF Segment, Sits, Ended
  <2> QED
    BY <2>1, <1>1 DEF Ended
<1>7. Segment(n, f)'
  <2>1. Sits(t, n, f)'
    BY <1>5, <1>6 DEF Sits
  <2>2. n # NNodes => \A p \in Nat : Owes(t, p, n, f)' <=> Owes(t, p, n, f)
    BY <1>4, <1>5 DEF Owes
  <2>3. UNCHANGED <<computed, ec, abort, chunk, prepared, nPassed>>
    BY DEF workVars, barrierVars
  <2> QED
    BY <1>1, <1>2, <2>1, <2>2, <2>3, QuietStep
<1>8. BarrierInv'
  <2>1. \A u \in Threads : \/ tpc'[u] = tpc[u]
                           \/ /\ tpc[u] \notin {"count", "spin", "release"}
                              /\ tpc'[u] \notin {"count", "spin", "release"}
    BY <1>1 DEF Outside
  <2> QED
    BY <2>1, BarrierKept DEF barrierVars
<1>9. TakingInv'
  <2>1. \A u \in Workers \ {t} : Took(u)' <=> Took(u)
    BY DEF Took
  <2>2. tpc'[t] \notin Outside => Took(t)'
    BY <1>1, <1>3, <1>6
  <2>3. tpc[0] # "returned"
    BY DEF TakingInv, Outside
  <2> QED
    BY <2>1, <2>2, <2>3, <1>1 DEF TakingInv, Outside
<1> QED
  BY <1>7, <1>8, <1>9

\* Taking the graph: what was noted as pending is begun at the first node.
LEMMA WorkStep ==
  ASSUME PoolTypes, TakingInv, BarrierInv, NEW n, NEW f, Segment(n, f),
         NEW t \in Workers, Work(t)
  PROVE  PoolTypes' /\ TakingInv' /\ BarrierInv' /\ Segment(n, f)'
<1> USE Bounds
<1>1. /\ tpc[t] = "work" /\ tpc' = [tpc EXCEPT ![t] = "loop"]
      /\ pending' = [pending EXCEPT ![t] = FALSE]
      /\ node' = [node EXCEPT ![t] = 0]
      /\ UNCHANGED <<mutex, stop, nGraph, last, mine, chunk, abort, ec,
                     prepared, computed, nBarrier, nPassed, seen, after>>
  BY DEF Work, Moves, barrierVars
<1>2. /\ t \in Threads /\ t # 0 /\ tpc'[t] = "loop" /\ ~pending'[t] /\ node'[t] = 0
      /\ \A u \in Threads \ {t} :
           tpc'[u] = tpc[u] /\ pending'[u] = pending[u] /\ node'[u] = node[u]
      /\ tpc'[0] = tpc[0]
  BY <1>1 DEF PoolTypes
<1>3. pending[t] /\ last[t] = 1 /\ ~Took(t) /\ Took(t)'
  BY <1>1, <1>2 DEF TakingInv, Took
<1>4. /\ \A u \in Threads \ {t} : Still(u)
      /\ \A u \in Workers \ {t} : Took(u)' <=> Took(u)
  BY <1>1, <1>2 DEF Still, Took
<1>5. PoolTypes'
  <2>1. tpc' \in [Threads -> Places]
    BY <1>1 DEF PoolTypes, Places
  <2>2. pending' \in [Threads -> BOOLEAN] /\ node' \in [Threads -> Nat]
    BY <1>1 DEF PoolTypes
  <2> QED
    BY <1>1, <2>1, <2>2 DEF PoolTypes
<1>6. TakingInv'
  <2>1. tpc[0] # "returned"
    BY <1>1 DEF TakingInv
  <2> QED
    BY <1>1, <1>2, <1>3, <1>4, <2>1 DEF TakingInv
<1>7. BarrierInv'
  <2>1. \A u \in Threads : \/ tpc'[u] = tpc[u]
                           \/ /\ tpc[u] \notin {"count", "spin", "release"}
                              /\ tpc'[u] \notin {"count", "spin", "release"}
    BY <1>1, <1>2
  <2> QED
    BY <2>1, <1>1, BarrierKept
<1>8. n # NNodes /\ f = 1 /\ n = 0 /\ Before(t, n, f)
  <2>1. \A m : ~Released(t, m) /\ ~Waits(t, m)
    BY <1>1 DEF Released, Leaving, Waits, Waiting, Waiters
  <2>2. ~Ended(t) /\ ~AtPart(t, n, f) /\ ~AtClaim(t, n, f) /\ ~After(t, n, f)
    BY <1>1, <1>2, <1>3, <2>1 DEF Ended, AtPart, AtClaim, After
  <2>3. n # NNodes /\ Before(t, n, f)
    BY <2>2 DEF Segment, Sits
  <2> QED
    BY <2>1, <2>3, <1>1 DEF Before
<1>9. Before(t, n, f)'
  BY <1>2, <1>8 DEF Before
<1>10. \A p : Owes(t, p, n, f)' <=> Owes(t, p, n, f)
  BY <1>1, <1>2, <1>8, <1>9 DEF Owes, AtPart
<1>11. Segment(n, f)'
  BY <1>1, <1>2, <1>4, <1>8, <1>9, <1>10, QuietStep DEF Sits
<1> QED
  BY <1>5, <1>6, <1>7, <1>11

\* Looking for work, sleeping, and being told to go.
LEMMA WorkerStep ==
  ASSUME PoolTypes, TakingInv, BarrierInv, NEW n, NEW f, Segment(n, f),
         NEW t \in Workers, Wakes(t) \/ WakeSpuriously(t)
  PROVE  PoolTypes' /\ TakingInv' /\ BarrierInv' /\ Segment(n, f)'
<1> USE Bounds
<1>1. CASE Work(t)
  BY <1>1, WorkStep
<1>2. CASE ~Work(t)
  <2>0. /\ last[t] \in {0, 1} /\ last[t] <= nGraph /\ nGraph \in {0, 1}
        /\ pending[t] => last[t] = 1
        /\ pending \in [Threads -> BOOLEAN] /\ last \in [Threads -> Nat] /\ nGraph \in Nat
        /\ stop \in BOOLEAN /\ t \in Threads /\ tpc \in [Threads -> Places]
    BY DEF TakingInv, PoolTypes
  <2>1. /\ UNCHANGED <<stop, nGraph, workVars, barrierVars>>
        /\ tpc[t] \in Outside
    BY <1>2 DEF Wakes, WakeSpuriously, Top, Poll, Lock, Check, Wait, Outside, wakeVars
  <2>2. Poll(t) \/ Check(t) => Notice(t)
    BY DEF Poll, Check
  <2>3. ~Poll(t) /\ ~Check(t) => pending' = pending /\ last' = last
    BY <1>2 DEF Wakes, WakeSpuriously, Top, Lock, Wait, wakeVars
  <2>4. /\ pending' \in [Threads -> BOOLEAN] /\ last' \in [Threads -> Nat]
        /\ \A u \in Threads \ {t} : pending'[u] = pending[u] /\ last'[u] = last[u]
    BY <2>0, <2>2, <2>3, NoticeFacts
  <2>5. /\ Took(t)' <=> Took(t)
        /\ last'[t] \in {0, 1} /\ last'[t] <= nGraph
        /\ pending'[t] => last'[t] = 1
    <3>1. CASE Notice(t)
      <4>1. IF ~pending[t] /\ ~stop /\ nGraph # last[t]
            THEN pending'[t] /\ last'[t] = nGraph
            ELSE pending'[t] = pending[t] /\ last'[t] = last[t]
        BY <3>1, <2>0, NoticeFacts
      <4>2. CASE ~pending[t] /\ ~stop /\ nGraph # last[t]
        BY <4>1, <4>2, <2>0 DEF Took
      <4>3. CASE ~(~pending[t] /\ ~stop /\ nGraph # last[t])
        BY <4>1, <4>3, <2>0 DEF Took
      <4> QED
        BY <4>2, <4>3
    <3>2. CASE ~Notice(t)
      BY <3>2, <2>0, <2>2, <2>3 DEF Took
    <3> QED
      BY <3>1, <3>2
  <2>6. PICK s \in Outside \cup {"gone"} : /\ tpc' = [tpc EXCEPT ![t] = s]
                                           /\ s = "gone" => stop
                                           /\ s = "work" => pending'[t]
    <3>1. CASE Poll(t) \/ Check(t)
      <4>1. Answered(t) = "work" => pending'[t]
        BY <3>1, <2>0, <2>2, NoticeFacts DEF Answered
      <4>2. Answered(t) \in {"work", "top"}
        BY DEF Answered
      <4> QED
        BY <3>1, <4>1, <4>2 DEF Poll, Check, Moves, Outside
    <3>2. CASE ~Poll(t) /\ ~Check(t)
      BY <3>2, <1>2 DEF Wakes, WakeSpuriously, Top, Lock, Wait, Moves, Outside
    <3> QED
      BY <3>1, <3>2
  <2>7. PoolTypes'
    <3>1. tpc' \in [Threads -> Places]
      BY <2>0, <2>6 DEF Places, Outside
    <3> QED
      BY <3>1, <2>0, <2>1, <2>4, WakingTypes
  <2>8. TakingInv' /\ BarrierInv' /\ Segment(n, f)'
    BY <2>1, <2>4, <2>5, <2>6, OutsideStep
  <2> QED
    BY <2>7, <2>8
<1> QED
  BY <1>1, <1>2

\* What the calling thread does with the mutex and for the workers to join.
LEMMA MainStep ==
  ASSUME PoolTypes, TakingInv, BarrierInv, NEW n, NEW f, Segment(n, f), Main
  PROVE  PoolTypes' /\ TakingInv' /\ BarrierInv' /\ Segment(n, f)'
<1> USE Bounds
<1>1. /\ tpc \in [Threads -> Places] /\ pending \in [Threads -> BOOLEAN]
      /\ last \in [Threads -> Nat] /\ nGraph \in Nat /\ stop \in BOOLEAN
  BY DEF PoolTypes
<1>2. /\ UNCHANGED <<workVars, barrierVars, pending, last>>
      /\ stop' \in BOOLEAN /\ nGraph' \in Nat
  <2>1. UNCHANGED <<workVars, barrierVars, pending, last>>
    BY DEF Main, KickLock, KickWake, FreeLock, FreeWake, Join, wakeVars
  <2>2. /\ stop' = stop \/ stop' = TRUE
        /\ nGraph' = nGraph \/ nGraph' = nGraph + 1
    BY DEF Main, KickLock, KickWake, FreeLock, FreeWake, Join, wakeVars
  <2>3. nGraph' \in Nat
    BY <2>2, <1>1
  <2>4. stop' \in BOOLEAN
    BY <2>2, <1>1, Zenon
  <2> QED
    BY <2>1, <2>3, <2>4
<1>3. \/ /\ tpc[0] = "kick" /\ tpc'[0] = "kick_wake"
         /\ stop' = stop /\ nGraph' = nGraph + 1
      \/ /\ tpc[0] = "kick_wake" /\ tpc'[0] = "loop"
         /\ stop' = stop /\ nGraph' = nGraph
      \/ /\ tpc[0] = "free" /\ tpc'[0] = "free_wake"
         /\ stop' = TRUE /\ nGraph' = nGraph
      \/ /\ tpc[0] = "free_wake" /\ tpc'[0] = "join"
         /\ stop' = stop /\ nGraph' = nGraph
      \/ /\ tpc[0] = "join" /\ tpc'[0] = "returned"
         /\ \A u \in Workers : tpc[u] = "gone"
         /\ stop' = stop /\ nGraph' = nGraph
  BY <1>1 DEF Main, KickLock, KickWake, FreeLock, FreeWake, Join, Moves, WakeAll, wakeVars
<1>4. /\ tpc' \in [Threads -> Places]
      /\ \A u \in Workers : tpc'[u] = tpc[u] \/ (tpc[u] = "asleep" /\ tpc'[u] = "lock")
  <2>1. CASE KickWake \/ FreeWake
    <3>1. \E s \in {"loop", "join"} : WakeAll(s)
      BY <2>1 DEF KickWake, FreeWake
    <3> QED
      BY <3>1, <1>1 DEF WakeAll, Places
  <2>2. CASE KickLock \/ FreeLock \/ Join
    <3>1. \E s \in {"kick_wake", "free_wake", "returned"} : tpc' = [tpc EXCEPT ![0] = s]
      BY <2>2 DEF KickLock, FreeLock, Join, Moves
    <3> QED
      BY <3>1, <1>1 DEF Places
  <2> QED
    BY <2>1, <2>2 DEF Main
<1>5. PoolTypes'
  BY <1>2, <1>1, <1>4, WakingTypes
<1>6. \A u \in Threads \ {0} : Still(u)
  BY <1>2, <1>4 DEF Still, Workers, workVars, barrierVars
<1>7. TakingInv'
  <2>1. \A u \in Workers : Took(u)' <=> Took(u)
    BY <1>2 DEF Took
  <2>2. \A u \in Workers : /\ tpc'[u] = "work" <=> tpc[u] = "work"
                           /\ tpc'[u] \in Outside <=> tpc[u] \in Outside
                           /\ tpc'[u] = "gone" <=> tpc[u] = "gone"
    BY <1>4 DEF Outside
  <2>3. \A u \in Workers : last'[u] = last[u] /\ pending'[u] = pending[u]
    BY <1>2
  <2>4. nGraph' = (IF tpc'[0] = "kick" THEN 0 ELSE 1) /\ nGraph <= nGraph'
    BY <1>1, <1>3 DEF TakingInv
  <2>5. stop' => tpc'[0] \in {"free_wake", "join", "returned"}
    BY <1>3 DEF TakingInv
  <2>6. stop => stop'
    BY <1>3
  <2>7. \A u \in Workers : last'[u] <= nGraph'
    <3>1. \A u \in Workers : last[u] \in {0, 1} /\ last[u] <= nGraph
      BY DEF TakingInv
    <3>2. nGraph \in {0, 1} /\ nGraph' \in {0, 1}
      BY <2>4 DEF TakingInv
    <3> QED
      BY <3>1, <3>2, <2>3, <2>4
  <2>8. tpc'[0] = "returned" => \A u \in Workers : tpc'[u] = "gone"
    BY <1>3, <1>4
  <2>9. tpc'[0] \in {"kick_wake", "loop", "free_wake", "join", "returned"}
    BY <1>3
  <2> QED
    BY <2>1, <2>2, <2>3, <2>4, <2>5, <2>6, <2>7, <2>8, <2>9 DEF TakingInv
<1>8. BarrierInv'
  <2>1. \A u \in Threads : \/ tpc'[u] = tpc[u]
                           \/ /\ tpc[u] \notin {"count", "spin", "release"}
                              /\ tpc'[u] \notin {"count", "spin", "release"}
    BY <1>3, <1>4 DEF Workers
  <2> QED
    BY <2>1, <1>2, BarrierKept DEF barrierVars
<1>9. /\ Sits(0, n, f)'
      /\ n # NNodes => \A p \in Nat : Owes(0, p, n, f)' <=> Owes(0, p, n, f)
  <2>1. \A m : /\ ~Released(0, m) /\ ~Waits(0, m)
               /\ ~Released(0, m)' /\ ~Waits(0, m)'
    BY <1>3 DEF Released, Leaving, Waits, Waiting, Waiters
  <2>2. /\ ~AtPart(0, n, f) /\ ~AtPart(0, n, f)'
        /\ ~AtClaim(0, n, f) /\ ~After(0, n, f)
    BY <1>3, <2>1 DEF AtPart, AtClaim, After
  <2>3. node'[0] = node[0]
    BY <1>2 DEF workVars
  <2>4. CASE tpc[0] \in {"kick", "kick_wake"}
    <3>1. n # NNodes /\ f = 1 /\ n = 0 /\ Unstarted(0) /\ Before(0, n, f)
      BY <2>1, <2>2, <2>4 DEF Segment, Sits, Ended, Before
    <3>2. node[0] = 0
      BY <3>1 DEF Unstarted
    <3>3. Before(0, n, f)'
      BY <1>3, <2>3, <2>4, <3>1, <3>2 DEF Before, Unstarted
    <3> QED
      BY <2>2, <3>1, <3>3 DEF Sits, Owes
  <2>5. CASE tpc[0] \notin {"kick", "kick_wake"}
    <3>1. ~Before(0, n, f)
      BY <1>3, <2>1, <2>5 DEF Before, Unstarted
    <3>2. n = NNodes
      BY <3>1, <2>2 DEF Segment, Sits
    <3>3. Ended(0)'
      BY <1>3, <2>5 DEF Ended
    <3> QED
      BY <3>2, <3>3 DEF Sits
  <2> QED
    BY <2>4, <2>5
<1>10. Segment(n, f)'
  BY <1>2, <1>6, <1>9, QuietStep DEF workVars, barrierVars
<1> QED
  BY <1>5, <1>7, <1>8, <1>10
-----------------------------------------------------------------------------
(* Graph after graph *)

LEMMA RunStep ==
  ASSUME PoolTypes, Running, Runs
  PROVE  PoolTypes' /\ Running'
<1>1. TakingInv /\ BarrierInv
  BY DEF Running
<1>2. PICK n \in 0 .. NNodes, f \in {1, 2} : Segment(n, f)
  BY DEF Running
<1>3. ASSUME PoolTypes', TakingInv', BarrierInv', Segment(n, f)'
      PROVE  PoolTypes' /\ Running'
  BY <1>3 DEF Running
<1>4. CASE Main
  BY <1>1, <1>2, <1>3, <1>4, MainStep
<1>5. ASSUME NEW t \in Workers, Wakes(t) \/ WakeSpuriously(t)
      PROVE  PoolTypes' /\ Running'
  BY <1>1, <1>2, <1>3, <1>5, WorkerStep
<1>6. ASSUME NEW t \in Threads, Computes(t)
      PROVE  PoolTypes' /\ Running'
  <2>1. PoolTypes'
    BY <1>6, ComputingTypes
  <2>2. CASE Enter(t)
    BY <1>1, <1>2, <1>3, <2>1, <2>2, EnterStep
  <2>3. CASE Count(t)
    BY <1>1, <1>2, <1>3, <2>1, <2>3, CountStep
  <2>4. CASE Release(t)
    <3>1. TakingInv' /\ BarrierInv' /\ \E m \in 0 .. NNodes, g \in {1, 2} : Segment(m, g)'
      BY <1>1, <1>2, <2>4, ReleaseStep
    <3> QED
      BY <2>1, <3>1 DEF Running
  <2>5. CASE Spin(t)
    BY <1>1, <1>2, <1>3, <2>1, <2>5, SpinStep
  <2>6. CASE Loop(t) \/ Convert(t) \/ End(t)
    <3>1. CASE NThreads > 1
      BY <1>1, <1>2, <1>3, <2>1, <2>6, <3>1, LoopStep, ConvertStep, EndStep
    <3>2. CASE NThreads = 1
      <4>1. t = 0
        BY <3>2, Bounds
      <4>2. CASE Loop(0) /\ node[0] < NNodes /\ abort # node[0]
        BY <1>1, <1>2, <1>3, <2>1, <4>1, <4>2, LoopStep
      <4>3. CASE End(0) /\ ~(node[0] + 1 < NNodes)
        BY <1>1, <1>2, <1>3, <2>1, <4>1, <4>3, EndStep
      <4>4. CASE \/ Loop(0) /\ ~(node[0] < NNodes /\ abort # node[0])
                 \/ Convert(0)
                 \/ End(0) /\ node[0] + 1 < NNodes
        <5>1. TakingInv' /\ BarrierInv' /\ \E m \in 0 .. NNodes, g \in {1, 2} : Segment(m, g)'
          BY <1>1, <1>2, <3>2, <4>4, AloneStep
        <5> QED
          BY <2>1, <5>1 DEF Running
      <4> QED
        BY <2>6, <4>1, <4>2, <4>3, <4>4
    <3> QED
      BY <3>1, <3>2, Bounds
  <2>7. CASE Part(t)
    BY <1>1, <1>2, <1>3, <2>1, <2>7, PartStep
  <2>8. CASE Claim(t)
    BY <1>1, <1>2, <1>3, <2>1, <2>8, ClaimStep
  <2> QED
    BY <1>6, <2>2, <2>3, <2>4, <2>5, <2>6, <2>7, <2>8 DEF Computes
<1> QED
  BY <1>4, <1>5, <1>6 DEF Runs

\* The pool begins with every thread before the first node.
LEMMA StartStep ==
  ASSUME StartPool
  PROVE  Running'
<1> USE Bounds
<1>1. /\ stop' = FALSE /\ nGraph' = 0 /\ nBarrier' = 0 /\ abort' = -1 /\ ec' = "success"
      /\ \A t \in Threads : /\ pending'[t] = FALSE /\ last'[t] = 0 /\ node'[t] = 0
                            /\ tpc'[t] = IF t = 0 THEN "kick" ELSE "top"
      /\ \A n \in Nodes : \A p \in Parts(n) : computed'[n][p] = 0
  BY DEF StartPool
<1>2. TakingInv'
  <2>1. tpc'[0] = "kick"
    BY <1>1
  <2>2. \A t \in Workers : tpc'[t] = "top" /\ last'[t] = 0 /\ ~pending'[t]
    BY <1>1
  <2> QED
    BY <1>1, <2>1, <2>2 DEF TakingInv, Outside
<1>3. BarrierInv'
  <2>1. Waiters' = {}
    BY <1>1 DEF Waiters
  <2>2. nBarrier' = Cardinality(Waiters')
    BY <1>1, <2>1, FS_EmptySet
  <2>3. \A t \in Threads : tpc'[t] \notin {"count", "release"}
    BY <1>1
  <2> QED
    BY <2>2, <2>3 DEF BarrierInv
<1>4. \A t \in Threads : Before(t, 0, 1)'
  <2>1. \A t \in Threads : Unstarted(t)'
    BY <1>1 DEF Unstarted, Outside, Took
  <2> QED
    BY <2>1 DEF Before
<1>5. \A t \in Threads : \A p : Owes(t, p, 0, 1)' <=> p = t
  <2>1. \A t \in Threads : ~AtPart(t, 0, 1)'
    BY <1>1 DEF AtPart
  <2> QED
    BY <1>4, <2>1 DEF Owes
<1>6. Segment(0, 1)'
  <2>1. \A t \in Threads : Sits(t, 0, 1)'
    BY <1>4 DEF Sits
  <2>2. Partial(0, 1)'
    <3>1. \A p \in Parts(0) : p \in Nat /\ (p < NThreads => p \in Threads)
      BY DEF Parts
    <3>2. Limit(1)' = NThreads
      BY DEF Limit
    <3>3. 0 \in Nodes
      OBVIOUS
    <3> QED
      BY <1>1, <1>5, <3>1, <3>2, <3>3 DEF Partial
  <2>3. OwedOnce(0, 1)'
    BY <1>5 DEF OwedOnce
  <2>4. DataInv(0, 1)'
    BY <1>1, <2>2, <2>3 DEF DataInv, Untouched, Parts
  <2> QED
    BY <1>1, <2>1, <2>4 DEF Segment
<1> QED
  BY <1>2, <1>3, <1>6 DEF Running

\* When the call returns every thread is behind the last barrier.
LEMMA WhenReturned ==
  ASSUME Running, tpc[0] = "returned"
  PROVE  /\ \E f : Segment(NNodes, f)
         /\ \A t \in Workers : tpc[t] = "gone"
<1>1. PICK n \in 0 .. NNodes, f \in {1, 2} : Segment(n, f)
  BY DEF Running
<1>2. /\ ~Before(0, n, f) /\ ~AtPart(0, n, f) /\ ~AtClaim(0, n, f) /\ ~After(0, n, f)
  BY DEF Before, Unstarted, Released, Leaving, Waits, Waiting, Waiters, AtPart, AtClaim, After
<1>3. n = NNodes
  BY <1>1, <1>2, Bounds DEF Segment, Sits
<1> QED
  BY <1>1, <1>3 DEF Running, TakingInv

LEMMA ReturnStep ==
  ASSUME PoolTypes, Running, NEW status, Return(status)
  PROVE  PoolTypes' /\ tpc'[0] = "idle" /\ Resting'
<1> USE Bounds
<1>1. /\ tpc[0] = "returned" /\ tpc' = [tpc EXCEPT ![0] = "idle"]
      /\ UNCHANGED <<wakeVars, workVars, barrierVars>>
  BY DEF Return, Moves
<1>2. tpc'[0] = "idle" /\ \A t \in Workers : tpc'[t] = tpc[t]
  BY <1>1 DEF PoolTypes
<1>3. PoolTypes'
  <2>1. tpc' \in [Threads -> Places]
    BY <1>1 DEF PoolTypes, Places
  <2>2. UNCHANGED <<stop, nGraph, pending, last>>
    BY <1>1 DEF wakeVars
  <2>3. /\ stop' \in BOOLEAN /\ nGraph' \in Nat /\ pending' \in [Threads -> BOOLEAN]
        /\ last' \in [Threads -> Nat]
    BY <2>2 DEF PoolTypes
  <2> QED
    BY <1>1, <2>1, <2>3, WakingTypes
<1>4. PICK f : Segment(NNodes, f)
  BY <1>1, WhenReturned
<1>5. ec \in {"success", "aborted"}
  BY DEF PoolTypes
<1>6. \A n \in Nodes : Complete(n) \/ Untouched(n)
  BY <1>4, <1>5 DEF Segment, DataInv
<1>7. \A n \in Nodes : \A p \in Parts(n) : computed'[n][p] \in {0, 1}
  BY <1>1, <1>6 DEF Complete, Untouched, workVars
<1>8. \A t \in Workers : tpc'[t] = "gone"
  BY <1>1, <1>2, WhenReturned
<1> QED
  BY <1>2, <1>3, <1>7, <1>8 DEF Resting, Parts

LEMMA IdleStep ==
  ASSUME Running, UNCHANGED <<workVars, barrierVars, wakeVars, tpc>>
  PROVE  Running'
<1> USE Bounds
<1>1. \A u \in Threads : Still(u)
  BY DEF Still, workVars, barrierVars, wakeVars
<1>2. TakingInv'
  BY DEF Running, TakingInv, Took, wakeVars
<1>3. BarrierInv'
  BY BarrierKept DEF Running, barrierVars
<1>4. PICK n \in 0 .. NNodes, f \in {1, 2} : Segment(n, f)
  BY DEF Running
<1>5. /\ Sits(0, n, f)' <=> Sits(0, n, f)
      /\ \A p : Owes(0, p, n, f)' <=> Owes(0, p, n, f)
  <2>1. /\ Before(0, n, f)' <=> Before(0, n, f)
        /\ AtPart(0, n, f)' <=> AtPart(0, n, f)
        /\ AtClaim(0, n, f)' <=> AtClaim(0, n, f)
        /\ After(0, n, f)' <=> After(0, n, f)
        /\ Ended(0)' <=> Ended(0)
    BY <1>1, StillSits DEF workVars, barrierVars
  <2> QED
    BY <2>1 DEF Sits, Owes, workVars
<1>6. Segment(n, f)'
  BY <1>1, <1>4, <1>5, QuietStep DEF Segment, workVars, barrierVars
<1> QED
  BY <1>2, <1>3, <1>6 DEF Running

\* The invariant: between graphs the pool rests, else all are in one segment.
LEMMA LockstepInvariant == PoolSpec => []LockstepInv
<1> USE Bounds
<1>1. InitPool => LockstepInv
  <2> SUFFICES ASSUME InitPool PROVE LockstepInv
    OBVIOUS
  <2>1. tpc[0] = "idle" /\ Resting
    BY DEF InitPool, Resting, Workers
  <2> QED
    BY <2>1, StartTypes DEF LockstepInv
<1>2. LockstepInv /\ [NextPool]_poolVars => LockstepInv'
  <2> SUFFICES ASSUME LockstepInv, [NextPool]_poolVars PROVE LockstepInv'
    OBVIOUS
  <2>1. PoolTypes
    BY DEF LockstepInv
  <2>2. CASE StartPool
    <3>1. PoolTypes' /\ Running'
      BY <2>2, StartTypes, StartStep
    <3>2. tpc'[0] = "kick"
      BY <2>2 DEF StartPool
    <3> QED
      BY <3>1, <3>2 DEF LockstepInv
  <2>3. CASE Runs
    <3>1. tpc[0] # "idle"
      <4> SUFFICES ASSUME tpc[0] = "idle" PROVE FALSE
        OBVIOUS
      <4>1. \A t \in Workers : tpc[t] = "gone"
        BY DEF LockstepInv, Resting
      <4>2. ~Main
        BY DEF Main, KickLock, KickWake, FreeLock, FreeWake, Join
      <4>3. \A t \in Workers : ~Wakes(t) /\ ~WakeSpuriously(t)
        BY <4>1 DEF Wakes, WakeSpuriously, Top, Poll, Lock, Check, Wait, Work
      <4>4. \A t \in Threads : tpc[t] \in {"idle", "gone"}
        BY <4>1 DEF Workers
      <4>5. \A t \in Threads : ~Computes(t)
        BY <4>4 DEF Computes, Enter, Count, Release, Spin, Loop, Convert, Part, Claim, End
      <4> QED
        BY <2>3, <4>2, <4>3, <4>5 DEF Runs
    <3>2. PoolTypes' /\ Running'
      BY <2>1, <2>3, <3>1, RunStep DEF LockstepInv
    <3>3. tpc'[0] # "idle"
      BY <3>2 DEF Running, TakingInv
    <3> QED
      BY <3>2, <3>3 DEF LockstepInv
  <2>4. CASE \E status \in {"success", "aborted"} : Return(status)
    <3>1. tpc[0] # "idle"
      BY <2>4 DEF Return
    <3> QED
      BY <2>1, <2>4, <3>1, ReturnStep DEF LockstepInv
  <2>5. CASE UNCHANGED poolVars
    <3>1. UNCHANGED <<workVars, barrierVars, wakeVars, tpc>>
      BY <2>5 DEF poolVars, workVars, barrierVars, wakeVars
    <3>2. PoolTypes'
      BY <2>1, <2>5 DEF poolVars, PoolTypes
    <3>3. Resting => Resting'
      BY <3>1 DEF Resting, workVars, Parts
    <3>4. Running => Running'
      BY <2>1, <3>1, IdleStep
    <3> QED
      BY <3>1, <3>2, <3>3, <3>4 DEF LockstepInv
  <2> QED
    BY <2>2, <2>3, <2>4, <2>5 DEF NextPool
<1> QED
  BY <1>1, <1>2, PTL DEF PoolSpec

\* The barriers are enough: whatever the pace of the threads, each part of each
\* node is computed at most once, after all nodes before it and, for a product,
\* after its conversion.
THEOREM InOrder == PoolSpec => []PartsInOrder
<1>1. LockstepInv => PartsInOrder
  <2> SUFFICES ASSUME LockstepInv PROVE PartsInOrder
    OBVIOUS
  <2>1. CASE tpc[0] = "idle"
    <3>1. \A t \in Threads : tpc[t] \in {"idle", "gone"}
      BY <2>1 DEF LockstepInv, Resting, Workers
    <3> QED
      BY <2>1, <3>1 DEF LockstepInv, Resting, PartsInOrder
  <2>2. CASE tpc[0] # "idle"
    <3>1. PICK n \in 0 .. NNodes, f \in {1, 2} : Segment(n, f)
      BY <2>2 DEF LockstepInv, Running
    <3>2. ASSUME NEW m \in Nodes, NEW p \in Parts(m)
          PROVE  computed[m][p] <= 1
      <4>1. m \in Nat /\ n \in Nat
        BY Bounds
      <4>2. Complete(m) \/ Untouched(m) \/ (m = n /\ n # NNodes /\ Partial(n, f))
        <5>1. CASE n = NNodes
          BY <3>1, <5>1 DEF Segment, DataInv, LockstepInv, PoolTypes
        <5>2. CASE n # NNodes
          BY <3>1, <4>1, <5>2 DEF Segment, DataInv
        <5> QED
          BY <5>1, <5>2
      <4>3. computed[m][p] \in {0, 1}
        BY <4>2 DEF Complete, Untouched, Partial
      <4> QED
        BY <4>3
    <3>3. ASSUME NEW t \in Threads, tpc[t] \in {"convert", "part", "claim"}
          PROVE  /\ n # NNodes /\ node[t] = n
                 /\ tpc[t] # "convert" /\ n \in MatMul => f = 2
      BY <3>1, <3>3, WhereActive DEF AtPart, AtClaim, Computing
    <3>4. ASSUME NEW t \in Threads, tpc[t] \in {"convert", "part", "claim"}
          PROVE  /\ \A m \in Nodes : m < node[t] => Complete(m)
                 /\ tpc[t] # "convert" /\ node[t] \in MatMul => prepared[node[t]] = Threads
      BY <3>1, <3>3, <3>4 DEF Segment, DataInv
    <3> QED
      BY <3>2, <3>4 DEF PartsInOrder
  <2> QED
    BY <2>1, <2>2
<1> QED
  BY <1>1, LockstepInvariant, PTL

\* What is returned is the whole graph or, aborted, its nodes up to one.
THEOREM Whole == PoolSpec => []WholeNodes
<1>1. LockstepInv => WholeNodes
  <2> SUFFICES ASSUME LockstepInv, tpc[0] = "returned"
               PROVE  /\ ec = "success" => \A n \in Nodes : Complete(n)
                      /\ \E k \in 1 .. NNodes : \A n \in Nodes :
                           IF n < k THEN Complete(n) ELSE Untouched(n)
    BY DEF WholeNodes
  <2>1. PICK f : Segment(NNodes, f)
    BY WhenReturned DEF LockstepInv
  <2>2. CASE ec = "success"
    <3>1. \A n \in Nodes : Complete(n)
      BY <2>1, <2>2 DEF Segment, DataInv
    <3>2. NNodes \in 1 .. NNodes /\ \A n \in Nodes : n < NNodes
      BY Bounds
    <3> QED
      BY <3>1, <3>2
  <2>3. CASE ec = "aborted"
    BY <2>1, <2>3 DEF Segment, DataInv
  <2> QED
    BY <2>2, <2>3 DEF LockstepInv, PoolTypes
<1> QED
  BY <1>1, LockstepInvariant, PTL

-----------------------------------------------------------------------------
(* The decode on its threads *)

LEMMA ContextAlone == DecodeSpec => Spec
<1>1. DecodeInit => Init
  BY DEF DecodeInit
<1>2. [DecodeNext]_decodeVars => [Next]_contextVars
  <2> SUFFICES ASSUME DecodeNext \/ UNCHANGED decodeVars
               PROVE  Next \/ UNCHANGED contextVars
    BY DEF decodeVars
  <2>1. CASE TakeResult
    BY <2>1 DEF TakeResult, Next, Fatal
  <2>2. CASE GraphFails
    BY <2>2 DEF GraphFails, Next, Fatal
  <2>3. CASE CallOrStep /\ UNCHANGED poolVars
    BY <2>3 DEF Next
  <2>4. CASE GiveGraph \/ (Runs /\ UNCHANGED contextVars) \/ UNCHANGED decodeVars
    BY <2>4 DEF GiveGraph, decodeVars
  <2> QED
    BY <2>1, <2>2, <2>3, <2>4 DEF DecodeNext
<1> QED
  BY <1>1, <1>2, PTL DEF DecodeSpec, Spec

LEMMA PoolAlone == DecodeSpec => PoolSpec
<1>1. DecodeInit => InitPool
  BY DEF DecodeInit
<1>2. [DecodeNext]_decodeVars => [NextPool]_poolVars
  <2> SUFFICES ASSUME DecodeNext \/ UNCHANGED decodeVars
               PROVE  NextPool \/ UNCHANGED poolVars
    BY DEF decodeVars
  <2>1. CASE TakeResult
    BY <2>1 DEF TakeResult, NextPool
  <2>2. CASE GiveGraph \/ (Runs /\ UNCHANGED contextVars)
    BY <2>2 DEF GiveGraph, NextPool
  <2>3. CASE (CallOrStep /\ UNCHANGED poolVars) \/ GraphFails \/ UNCHANGED decodeVars
    BY <2>3 DEF GraphFails, decodeVars
  <2> QED
    BY <2>1, <2>2, <2>3 DEF DecodeNext
<1> QED
  BY <1>1, <1>2, PTL DEF DecodeSpec, PoolSpec

\* Whatever the threads do, what a decode tells of the cache is true, ubatch by
\* ubatch, and the cache keeps its order (llama_decode, process_ubatch).
THEOREM DecodeTells == DecodeSpec => []MemoryGapless /\ []ReturnTells
  BY ContextAlone, ContextGapless, ContextTells, PTL

\* With its threads and their pools too, a decode is to its callers a memory that
\* takes what there is room for.
THEOREM DecodeIsMemory == DecodeSpec => ImplementsMemory
  BY ContextAlone, ContextIsMemory, PTL

\* Each graph of each ubatch is computed node by node, every part once, and no
\* thread of a pool sleeps on (ggml_graph_compute_thread).
THEOREM DecodeComputes == DecodeSpec => []PartsInOrder /\ []WholeNodes /\ []NoLostWakeup
  BY PoolAlone, InOrder, Whole, NoWakeupLost, PTL
=============================================================================
