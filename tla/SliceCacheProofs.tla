-------------------------- MODULE SliceCacheProofs ---------------------------
(***************************************************************************)
(* Theorems about SliceCache, for every source, slice size, bound on the   *)
(* caches, set of requests and ranges.                                     *)
(*                                                                         *)
(* The size of the memory cache is a sum over a set, which the library     *)
(* defines by recursion.  What holds of it is shown by choosing a smallest *)
(* set of which it would not, from WFMin: no operator is a parameter.      *)
(***************************************************************************)
EXTENDS SliceCache, FiniteSetTheorems, WellFoundedInduction, TLAPS

-----------------------------------------------------------------------------
(* Induction. *)

NatLess == {ss \in Nat \X Nat : ss[1] < ss[2]}

\* A set of natural numbers has a least one.
LEMMA Least ==
    ASSUME NEW T \in SUBSET Nat, T # {}
    PROVE  \E x \in T : \A y \in T : x <= y
<1>1. IsWellFoundedOn(NatLess, Nat)
  BY NatLessThanWellFounded DEF OpToRel, NatLess
<1>2. PICK x \in T : \A y \in T : ~ (<<y, x>> \in NatLess)
  BY <1>1, WFMin
<1>3. \A y \in T : <<y, x>> \in NatLess <=> y < x
  BY DEF NatLess
<1>4. ASSUME NEW y \in T
      PROVE  x <= y
  <2>1. x \in Nat /\ y \in Nat /\ ~ (y < x)
    BY <1>2, <1>3
  <2> QED
    BY <2>1
<1> QED
  BY <1>4

\* Of some finite sets, one is smallest.
LEMMA Smallest ==
    ASSUME NEW F, F # {}, \A S \in F : IsFiniteSet(S)
    PROVE  \E S \in F : \A T \in F : Cardinality(S) <= Cardinality(T)
<1> DEFINE N == {Cardinality(S) : S \in F}
<1>1. N \in SUBSET Nat /\ N # {}
  BY FS_CardinalityType
<1>2. PICK n \in N : \A m \in N : n <= m
  BY <1>1, Least
<1> QED
  BY <1>2

\* A set of integers that is not empty and bounded has a greatest element.
LEMMA Greatest ==
    ASSUME NEW T \in SUBSET Int, T # {}, NEW b \in Int, \A x \in T : x <= b
    PROVE  Max(T) \in T /\ \A x \in T : x <= Max(T)
<1> DEFINE N == {b - x : x \in T}
<1>1. N \in SUBSET Nat /\ N # {}
  OBVIOUS
<1>2. PICK n \in N : \A m \in N : n <= m
  BY <1>1, Least
<1>3. PICK x \in T : n = b - x
  OBVIOUS
<1>4. \A y \in T : x >= y
  <2> TAKE y \in T
  <2>1. n <= b - y
    BY <1>2
  <2>2. b - x <= b - y /\ x \in Int /\ y \in Int
    BY <1>3, <2>1
  <2> HIDE DEF N
  <2> QED
    BY <2>2
<1>5. Max(T) \in T /\ \A y \in T : Max(T) >= y
  BY <1>4 DEF Max
<1> QED
  BY <1>5

\* The greatest and the least of two numbers.
LEMMA OfTwo ==
    ASSUME NEW a \in Int, NEW b \in Int
    PROVE  /\ Max({a, b}) = IF a >= b THEN a ELSE b
           /\ Min({a, b}) = IF a <= b THEN a ELSE b
<1>1. \E x \in {a, b} : \A y \in {a, b} : x >= y
  OBVIOUS
<1>2. \E x \in {a, b} : \A y \in {a, b} : x <= y
  OBVIOUS
<1>3. Max({a, b}) \in {a, b} /\ \A y \in {a, b} : Max({a, b}) >= y
  BY <1>1 DEF Max
<1>4. Min({a, b}) \in {a, b} /\ \A y \in {a, b} : Min({a, b}) <= y
  BY <1>2 DEF Min
<1> QED
  BY <1>3, <1>4

-----------------------------------------------------------------------------
(* The bytes that a set of entries holds. *)

\* The element that a fold takes first.
First(s) == CHOOSE x \in s : TRUE

\* h sums up the sizes of each subset of S, element by element.
Sums(h, S) ==
    h = [s \in SUBSET S |-> IF s = {} THEN 0 ELSE Size(First(s)) + h[s \ {First(s)}]]

Sum(S) == CHOOSE h : Sums(h, S)

LEMMA HeldIsSum ==
    ASSUME NEW S
    PROVE  Held(S) = Sum(S)[S]
BY DEF Held, MapThenSumSet, MapThenFoldSet, Sum, Sums, First

LEMMA SumsAt ==
    ASSUME NEW h, NEW S, Sums(h, S), NEW s \in SUBSET S
    PROVE  h[s] = IF s = {} THEN 0 ELSE Size(First(s)) + h[s \ {First(s)}]
BY DEF Sums

LEMMA FirstIn ==
    ASSUME NEW s, s # {}
    PROVE  First(s) \in s
BY DEF First

\* Two such functions agree on the subsets of both.
LEMMA SumsAgree ==
    ASSUME NEW S, IsFiniteSet(S), NEW T \in SUBSET S, NEW g, NEW h, Sums(g, S), Sums(h, T)
    PROVE  \A s \in SUBSET T : g[s] = h[s]
<1> DEFINE F == {s \in SUBSET T : g[s] # h[s]}
<1> SUFFICES ASSUME F # {} PROVE FALSE
  OBVIOUS
<1>1. \A s \in SUBSET S : IsFiniteSet(s)
  BY FS_Subset
<1>2. PICK s \in F : \A t \in F : Cardinality(s) <= Cardinality(t)
  BY <1>1, Smallest
<1>3. s # {}
  BY SumsAt
<1> DEFINE u == s \ {First(s)}
<1>4. IsFiniteSet(s) /\ First(s) \in s
  BY <1>1, <1>3, FirstIn
<1>5. Cardinality(u) = Cardinality(s) - 1 /\ Cardinality(s) \in Nat /\ Cardinality(u) \in Nat
  BY <1>4, FS_RemoveElement, FS_CardinalityType
<1>6. u \notin F
  BY <1>2, <1>5
<1>7. g[u] = h[u]
  BY <1>6
<1> QED
  BY <1>3, <1>7, SumsAt

\* Every finite set has one.
LEMMA SumsExist ==
    ASSUME NEW S, IsFiniteSet(S)
    PROVE  Sums(Sum(S), S)
<1> DEFINE F == {s \in SUBSET S : ~ \E h : Sums(h, s)}
<1> SUFFICES ASSUME F # {} PROVE FALSE
  BY DEF Sum
<1>1. \A s \in SUBSET S : IsFiniteSet(s)
  BY FS_Subset
<1>2. PICK s \in F : \A t \in F : Cardinality(s) <= Cardinality(t)
  BY <1>1, Smallest
<1>3. \A u \in SUBSET s : u # s => Sums(Sum(u), u)
  <2> SUFFICES ASSUME NEW u \in SUBSET s, u # s PROVE Sums(Sum(u), u)
    OBVIOUS
  <2>1. Cardinality(u) <= Cardinality(s) /\ Cardinality(u) # Cardinality(s)
    BY <1>1, FS_Subset
  <2>2. Cardinality(u) \in Nat /\ Cardinality(s) \in Nat
    BY <1>1, FS_CardinalityType
  <2>3. u \notin F
    BY <1>2, <2>1, <2>2
  <2> QED
    BY <2>3 DEF Sum
<1> DEFINE h == [v \in SUBSET s |-> IF v = {} THEN 0 ELSE Size(First(v)) + Held(v \ {First(v)})]
<1>4. \A v \in SUBSET s : v # {} => h[v \ {First(v)}] = Held(v \ {First(v)})
  <2> SUFFICES ASSUME NEW v \in SUBSET s, v # {}
               PROVE  h[v \ {First(v)}] = Held(v \ {First(v)})
    OBVIOUS
  <2> DEFINE u == v \ {First(v)}
             w == u \ {First(u)}
  <2>1. u \in SUBSET s /\ u # s
    BY FirstIn
  <2>2. Held(u) = IF u = {} THEN 0 ELSE Size(First(u)) + Sum(u)[w]
    BY <1>3, <2>1, SumsAt, HeldIsSum
  <2>3. CASE u = {}
    BY <2>1, <2>2, <2>3
  <2>4. CASE u # {}
    <3>1. w \in SUBSET u /\ w # u
      BY <2>4, FirstIn
    <3>2. Sums(Sum(w), w) /\ Sums(Sum(u), u)
      BY <1>3, <2>1, <3>1
    <3>3. IsFiniteSet(u)
      BY <1>1
    <3>4. Sum(u)[w] = Held(w)
      <4> HIDE DEF u, w
      <4>1. \A t \in SUBSET w : Sum(u)[t] = Sum(w)[t]
        BY <3>1, <3>2, <3>3, SumsAgree
      <4> QED
        BY <4>1, HeldIsSum
    <3> QED
      BY <2>1, <2>2, <2>4, <3>4
  <2> QED
    BY <2>3, <2>4
<1>5. h = [v \in SUBSET s |-> IF v = {} THEN 0 ELSE Size(First(v)) + h[v \ {First(v)}]]
  BY <1>4
<1>6. Sums(h, s)
  BY <1>5 DEF Sums
<1> QED
  BY <1>6


\* What no entry holds, and what one more adds to whatever is first.
LEMMA HeldStep ==
    ASSUME NEW S, IsFiniteSet(S)
    PROVE  /\ Held({}) = 0
           /\ S # {} => Held(S) = Size(First(S)) + Held(S \ {First(S)})
<1>1. Sums(Sum({}), {})
  BY FS_EmptySet, SumsExist
<1>2. Held({}) = 0
  BY <1>1, SumsAt, HeldIsSum
<1>3. ASSUME S # {}
      PROVE  Held(S) = Size(First(S)) + Held(S \ {First(S)})
  <2> DEFINE u == S \ {First(S)}
  <2>1. Sums(Sum(S), S)
    BY SumsExist
  <2>2. IsFiniteSet(u) /\ u \in SUBSET S
    BY FS_RemoveElement
  <2>3. Sums(Sum(u), u)
    BY <2>2, SumsExist
  <2>4. \A t \in SUBSET u : Sum(S)[t] = Sum(u)[t]
    BY <2>1, <2>2, <2>3, SumsAgree
  <2>5. Held(S) = Size(First(S)) + Sum(S)[u]
    BY <1>3, <2>1, SumsAt, HeldIsSum
  <2> HIDE DEF u
  <2>6. Sum(S)[u] = Held(u)
    BY <2>4, HeldIsSum
  <2>7. Held(S) = Size(First(S)) + Held(u)
    BY <2>5, <2>6
  <2> QED
    BY <2>7 DEF u
<1> QED
  BY <1>2, <1>3

LEMMA HeldNone == Held({}) = 0
BY HeldStep, FS_EmptySet

Source == 0 .. Total - 1

LEMMA SizeOfSource ==
    ASSUME NEW k \in Source
    PROVE  Size(k) \in Nat /\ Size(k) > 0 /\ Size(k) <= SliceSize /\ Size(k) <= Total - k
<1>1. SliceSize \in Int /\ Total - k \in Int
  BY SizesAreSane DEF Source
<1>2. Size(k) = IF SliceSize <= Total - k THEN SliceSize ELSE Total - k
  BY <1>1, OfTwo DEF Size
<1> QED
  BY <1>2, SizesAreSane DEF Source

LEMMA SourceFinite ==
    ASSUME NEW S \in SUBSET Source
    PROVE  IsFiniteSet(S) /\ Cardinality(S) \in Nat
<1>1. IsFiniteSet(Source)
  BY SizesAreSane, FS_Interval DEF Source
<1> QED
  BY <1>1, FS_Subset, FS_CardinalityType

LEMMA HeldType ==
    ASSUME NEW S \in SUBSET Source
    PROVE  Held(S) \in Nat
<1> DEFINE F == {T \in SUBSET Source : Held(T) \notin Nat}
<1> SUFFICES ASSUME F # {} PROVE FALSE
  OBVIOUS
<1>1. PICK T \in F : \A U \in F : Cardinality(T) <= Cardinality(U)
  BY SourceFinite, Smallest
<1> DEFINE U == T \ {First(T)}
<1>2. T # {}
  <2>1. Held(T) \notin Nat
    OBVIOUS
  <2> QED
    BY <2>1, HeldNone
<1>3. First(T) \in T /\ U \in SUBSET Source
  BY <1>2, FirstIn
<1>4. Cardinality(U) = Cardinality(T) - 1 /\ Cardinality(U) \in Nat /\ Cardinality(T) \in Nat
  BY <1>3, SourceFinite, FS_RemoveElement
<1>5. Held(U) \in Nat
  BY <1>1, <1>3, <1>4
<1>6. Held(T) = Size(First(T)) + Held(U) /\ Size(First(T)) \in Nat
  BY <1>2, <1>3, SourceFinite, HeldStep, SizeOfSource
<1> QED
  BY <1>5, <1>6

\* One more entry adds its size.
LEMMA HeldAdd ==
    ASSUME NEW S \in SUBSET Source, NEW k \in Source \ S
    PROVE  Held(S \cup {k}) = Held(S) + Size(k)
<1> DEFINE F == {T \in SUBSET Source : \E x \in Source \ T : Held(T \cup {x}) # Held(T) + Size(x)}
<1> SUFFICES ASSUME F # {} PROVE FALSE
  OBVIOUS
<1>1. PICK T \in F : \A U \in F : Cardinality(T) <= Cardinality(U)
  BY SourceFinite, Smallest
<1>2. PICK x \in Source \ T : Held(T \cup {x}) # Held(T) + Size(x)
  OBVIOUS
<1> DEFINE All == T \cup {x}
           p == First(All)
<1>3. All \in SUBSET Source /\ All # {} /\ p \in All
  BY FirstIn
<1>4. Held(All) = Size(p) + Held(All \ {p})
  BY <1>3, SourceFinite, HeldStep
<1> HIDE DEF p
<1>5. Size(p) \in Nat /\ Size(x) \in Nat /\ Held(T) \in Nat /\ Held(T \ {p}) \in Nat
  BY <1>3, SizeOfSource, HeldType
<1>6. CASE p = x
  <2>1. All \ {p} = T
    BY <1>6
  <2>2. Held(All) # Held(T) + Size(x)
    BY <1>2
  <2> HIDE DEF All, F
  <2>3. Held(All) = Size(x) + Held(T)
    BY <1>4, <1>6, <2>1
  <2> QED
    BY <1>5, <2>2, <2>3
<1>7. CASE p # x
  <2>1. p \in T /\ T \ {p} \in SUBSET Source
    <3>1. p \in T
      BY <1>3, <1>7
    <3>2. T \in SUBSET Source
      OBVIOUS
    <3> HIDE DEF F, All
    <3> QED
      BY <3>1, <3>2
  <2>2. Cardinality(T \ {p}) = Cardinality(T) - 1 /\ Cardinality(T \ {p}) \in Nat
        /\ Cardinality(T) \in Nat
    BY <2>1, SourceFinite, FS_RemoveElement
  <2>3. T \ {p} \notin F
    BY <1>1, <2>2
  <2>4. Held((T \ {p}) \cup {x}) = Held(T \ {p}) + Size(x)
    BY <2>1, <2>3
  <2>5. Held((T \ {p}) \cup {p}) = Held(T \ {p}) + Size(p)
    BY <1>3, <2>1, <2>3
  <2>6. (T \ {p}) \cup {p} = T /\ All \ {p} = (T \ {p}) \cup {x}
    BY <1>7, <2>1
  <2> QED
    BY <1>2, <1>4, <1>5, <2>4, <2>5, <2>6
<1> QED
  BY <1>6, <1>7

\* What some of the entries hold, and the others.
LEMMA HeldApart ==
    ASSUME NEW S \in SUBSET Source, NEW T \in SUBSET S
    PROVE  Held(S) = Held(S \ T) + Held(T)
<1> DEFINE F == {U \in SUBSET S : Held(S) # Held(S \ U) + Held(U)}
<1> SUFFICES ASSUME F # {} PROVE FALSE
  OBVIOUS
<1>1. PICK U \in F : \A V \in F : Cardinality(U) <= Cardinality(V)
  BY SourceFinite, Smallest
<1> DEFINE p == First(U)
           V == U \ {p}
<1>2. U # {}
  <2>1. Held({}) = 0 /\ Held(S) \in Nat
    BY HeldType, HeldNone
  <2>2. S \ {} = S
    OBVIOUS
  <2> QED
    BY <2>1, <2>2
<1>3. p \in U /\ p \in Source
  BY <1>2, FirstIn
<1>4. Cardinality(V) = Cardinality(U) - 1 /\ Cardinality(V) \in Nat /\ Cardinality(U) \in Nat
  BY <1>3, SourceFinite, FS_RemoveElement
<1>5. Held(S) = Held(S \ V) + Held(V)
  <2>1. V \notin F
    BY <1>1, <1>4
  <2> QED
    BY <2>1
<1>6. Held(U) = Held(V) + Size(p)
  <2>1. V \cup {p} = U /\ p \notin V /\ V \in SUBSET Source
    BY <1>3
  <2> HIDE DEF p, V
  <2> QED
    BY <1>3, <2>1, HeldAdd
<1>7. Held(S \ V) = Held(S \ U) + Size(p)
  <2>1. (S \ U) \cup {p} = S \ V /\ p \notin S \ U /\ S \ U \in SUBSET Source
    BY <1>3
  <2> HIDE DEF p, V
  <2> QED
    BY <1>3, <2>1, HeldAdd
<1>8. Held(S \ U) \in Nat /\ Held(V) \in Nat /\ Size(p) \in Nat
  BY <1>3, HeldType, SizeOfSource
<1> HIDE DEF p, V
<1> QED
  BY <1>5, <1>6, <1>7, <1>8

-----------------------------------------------------------------------------
(* The inductive invariant. *)

Pcs == {"idle", "lock", "get", "touch", "open", "fetch", "keep", "set", "create",
        "write", "done", "failed"}

\* A response that is under way has all bytes before the slice it is at, and
\* lacks some, or has none yet.
Progress(r) ==
    \/ r.out = <<>> /\ r.at = Aligned(r.first)
    \/ /\ r.out # <<>> /\ r.at = r.first + Len(r.out)
       /\ Len(r.out) < Length(r.first, r.last)

Request == [pc : Pcs, first : Nat, last : Nat \cup {-1}, at : Slices, out : Seq(Nat)]

\* What a request has written is the beginning of what it was asked for.
RequestOK(r) ==
    /\ r.last = -1 \/ r.first <= r.last
    /\ r.pc \in {"touch", "keep", "set", "create", "write"} => r.at < Total
    /\ \A i \in 1 .. Len(r.out) : r.out[i] = r.first + i - 1
    /\ r.out = <<>> \/ Len(r.out) <= Length(r.first, r.last)
    /\ r.pc \notin {"idle", "done", "failed"} => Progress(r)
    /\ r.pc = "done" => Length(r.first, r.last) <= Len(r.out)

RequestsOK == req \in [Requests -> Request] /\ \A t \in Requests : RequestOK(req[t])

\* Two goroutines never hold the lock of a slice.
OneHolder ==
    \A t, u \in Requests : t # u /\ Holding(t) /\ Holding(u) => req[t].at # req[u].at

\* The slices of the source.
Stored == {k \in Slices : k < Total}

\* Only slices of the source have files, and the cleaner counts at least what
\* the files it has listed held.
FilesOK ==
    /\ files \in [Slices -> {"absent", "torn", "whole"}]
    /\ Present \subseteq Stored
    /\ old \subseteq Present
    /\ cleaner \in [on : BOOLEAN, listed : SUBSET Stored, size : Int]
    /\ Held(cleaner.listed) <= cleaner.size

\* A file that is not written to the end is being written, or something failed.
TornIsWritten ==
    \A k \in Slices : files[k] = "torn" =>
        hurt \/ \E u \in Requests : req[u].pc = "write" /\ req[u].at = k

\* The list holds slices of the source, none of them twice.
LruOK ==
    /\ lru \in Seq(Stored)
    /\ \A i, j \in 1 .. Len(lru) : lru[i] = lru[j] => i = j

Counts == asked \in 0 .. MaxRequests /\ troubles \in 0 .. MaxTroubles /\ hurt \in BOOLEAN

-----------------------------------------------------------------------------
(* Slices. *)

LEMMA AlignedBelow ==
    ASSUME NEW p \in Nat
    PROVE  Aligned(p) \in Nat /\ Aligned(p) <= p /\ p < Aligned(p) + SliceSize
<1> DEFINE q == p \div SliceSize
<1>1. q \in Nat
  BY SizesAreSane
<1>2. q * SliceSize <= p /\ p < q * SliceSize + SliceSize
  BY SizesAreSane
<1> HIDE DEF q
<1>3. q * SliceSize \in Nat
  BY <1>1, SizesAreSane
<1> QED
  BY <1>2, <1>3 DEF Aligned, q

\* Aligned(p) is the only multiple of the slice size so near below p.
LEMMA AlignedOnly ==
    ASSUME NEW p \in Nat, NEW n \in Nat, n * SliceSize <= p, p < n * SliceSize + SliceSize
    PROVE  Aligned(p) = n * SliceSize
<1> DEFINE q == p \div SliceSize
<1>1. q \in Nat /\ q * SliceSize <= p /\ p < q * SliceSize + SliceSize
  BY AlignedBelow, SizesAreSane DEF Aligned
<1> HIDE DEF q
<1>2. ~ (q + 1 <= n)
  <2> SUFFICES ASSUME q + 1 <= n PROVE FALSE
    OBVIOUS
  <2>1. (q + 1) * SliceSize <= n * SliceSize
    BY <1>1, SizesAreSane
  <2> QED
    BY <1>1, <2>1, SizesAreSane
<1>3. ~ (n + 1 <= q)
  <2> SUFFICES ASSUME n + 1 <= q PROVE FALSE
    OBVIOUS
  <2>1. (n + 1) * SliceSize <= q * SliceSize
    BY <1>1, SizesAreSane
  <2> QED
    BY <1>1, <2>1, SizesAreSane
<1>4. q = n
  BY <1>1, <1>2, <1>3
<1> QED
  BY <1>4 DEF Aligned, q

LEMMA AlignedNext ==
    ASSUME NEW p \in Nat
    PROVE  /\ Aligned(Aligned(p)) = Aligned(p)
           /\ Aligned(Aligned(p) + SliceSize) = Aligned(p) + SliceSize
<1> DEFINE q == p \div SliceSize
<1>1. q \in Nat /\ Aligned(p) = q * SliceSize
  BY SizesAreSane DEF Aligned
<1> HIDE DEF q
<1>2. /\ q * SliceSize \in Nat
      /\ (q + 1) * SliceSize = q * SliceSize + SliceSize
      /\ SliceSize \in Nat /\ SliceSize > 0
  BY <1>1, SizesAreSane
<1>3. Aligned(q * SliceSize) = q * SliceSize
  BY <1>1, <1>2, AlignedOnly
<1>4. Aligned((q + 1) * SliceSize) = (q + 1) * SliceSize
  <2>1. q + 1 \in Nat /\ (q + 1) * SliceSize \in Nat
    BY <1>1, <1>2
  <2> HIDE DEF Aligned
  <2> QED
    BY <1>2, <2>1, AlignedOnly
<1> QED
  BY <1>1, <1>2, <1>3, <1>4

\* Slices begin at natural numbers, and the next one after a slice of the
\* source is a slice.
LEMMA SlicesNext ==
    /\ Slices \subseteq Nat
    /\ \A k \in Slices : k < Total => k + SliceSize \in Slices
    /\ 0 \in Slices
    /\ \A r \in Ranges : Aligned(r[1]) \in Slices
<1>1. \A r \in Ranges : r[1] \in Nat
  BY SizesAreSane
<1>2. ASSUME NEW k \in Slices
      PROVE  \E p \in Nat : k = Aligned(p)
  BY <1>1, SizesAreSane DEF Slices
<1>3. Slices \subseteq Nat
  BY <1>2, AlignedBelow
<1>4. ASSUME NEW k \in Slices, k < Total
      PROVE  k + SliceSize \in Slices
  <2>1. k + SliceSize = Aligned(k + SliceSize)
    BY <1>2, AlignedNext
  <2>2. k + SliceSize \in 0 .. Total + SliceSize
    BY <1>3, <1>4, SizesAreSane
  <2> QED
    BY <2>1, <2>2 DEF Slices
<1>5. 0 \in Slices
  <2>1. Aligned(0) = 0 /\ 0 \in 0 .. Total + SliceSize
    BY AlignedBelow, SizesAreSane
  <2> QED
    BY <2>1 DEF Slices
<1>6. \A r \in Ranges : Aligned(r[1]) \in Slices
  BY DEF Slices
<1> QED
  BY <1>3, <1>4, <1>5, <1>6

LEMMA StoredInSource == Stored \subseteq Source
<1> SUFFICES ASSUME NEW k \in Stored PROVE k \in Source
  OBVIOUS
<1>1. k \in Nat /\ k < Total /\ Total \in Nat
  BY SlicesNext, SizesAreSane DEF Stored
<1> QED
  BY <1>1 DEF Source

LEMMA SizesTyped ==
    SliceSize \in Nat /\ SliceSize > 0 /\ Total \in Nat /\ Total > 0
BY SizesAreSane

-----------------------------------------------------------------------------
(* A response. *)

LEMMA LengthType ==
    ASSUME NEW first \in Nat, NEW last \in Nat \cup {-1}
    PROVE  Length(first, last) \in Int /\ Length(first, last) <= Total - first
BY SizesTyped DEF Length

\* The piece that a slice gives continues the response, and unless it ends it,
\* reaches to the next slice.
LEMMA PieceContinues ==
    ASSUME NEW r \in Request, RequestOK(r), Progress(r), r.at < Total
    PROVE  LET all   == Length(r.first, r.last)
               done  == Len(r.out)
               piece == Piece(r.at, r.first, all - done)
           IN  /\ piece \in Seq(Nat)
               /\ \A i \in 1 .. Len(piece) : piece[i] = r.first + done + i - 1
               /\ Len(piece) = 0 \/ done + Len(piece) <= all
               /\ all - done > Len(piece) =>
                      /\ Len(piece) > 0
                      /\ r.at + SliceSize = r.first + done + Len(piece)
<1> DEFINE all   == Length(r.first, r.last)
           done  == Len(r.out)
           size  == Size(r.at)
           from  == Max({r.at, r.first})
           n     == Min({r.at + size - from, all - done})
           m     == Max({0, n})
           piece == Piece(r.at, r.first, all - done)
<1>1. r.first \in Nat /\ r.at \in Nat /\ done \in Nat /\ r.at \in Source
  <2>1. r.first \in Nat /\ r.at \in Slices /\ r.out \in Seq(Nat)
    BY DEF Request
  <2>2. done \in Nat
    BY <2>1
  <2>3. r.at \in Nat
    BY <2>1, SlicesNext
  <2>4. r.at \in Source
    BY <2>1, StoredInSource DEF Stored
  <2> QED
    BY <2>1, <2>2, <2>3, <2>4
<1>2. all \in Int /\ all <= Total - r.first
  BY LengthType DEF Request
<1>3. /\ size \in Nat /\ size > 0 /\ size <= SliceSize
      /\ size < SliceSize => size = Total - r.at
  <2>1. SliceSize \in Int /\ Total - r.at \in Int
    BY <1>1, SizesTyped
  <2>2. size = IF SliceSize <= Total - r.at THEN SliceSize ELSE Total - r.at
    BY <2>1, OfTwo DEF Size
  <2> HIDE DEF size
  <2> QED
    BY <1>1, <2>2, SizesTyped
<1>4. \/ done = 0 /\ r.at <= r.first /\ r.first < r.at + SliceSize
      \/ done > 0 /\ r.at = r.first + done /\ done < all
  <2>1. CASE r.out = <<>> /\ r.at = Aligned(r.first)
    BY <1>1, <2>1, AlignedBelow
  <2>2. CASE r.out # <<>> /\ r.at = r.first + done /\ done < all
    <3>1. r.out \in Seq(Nat)
      BY DEF Request
    <3> QED
      BY <1>1, <2>2, <3>1
  <2> QED
    BY <2>1, <2>2 DEF Progress
<1>5. from = r.first + done
  <2>1. from = IF r.at >= r.first THEN r.at ELSE r.first
    BY <1>1, OfTwo
  <2> HIDE DEF from, done, all
  <2> QED
    BY <1>1, <1>4, <2>1
<1> HIDE DEF size, from, all, done
<1>6. n = IF r.at + size - from <= all - done THEN r.at + size - from ELSE all - done
  <2>1. r.at + size - from \in Int /\ all - done \in Int
    BY <1>1, <1>2, <1>3, <1>5
  <2> QED
    BY <2>1, OfTwo
<1> HIDE DEF n
<1>7. n \in Int
  BY <1>1, <1>2, <1>3, <1>5, <1>6
<1>8. m = IF 0 >= n THEN 0 ELSE n
  BY <1>7, OfTwo
<1> HIDE DEF m
<1>9. piece = [i \in 1 .. m |-> from + i - 1] /\ m \in Nat
  BY <1>7, <1>8 DEF Piece, m, n, from, size
<1>10. piece \in Seq(Nat) /\ Len(piece) = m /\ \A i \in 1 .. m : piece[i] = r.first + done + i - 1
  <2> HIDE DEF piece
  <2> QED
    BY <1>1, <1>5, <1>9
<1>11. m = 0 \/ done + m <= all
  BY <1>1, <1>2, <1>3, <1>5, <1>6, <1>8
<1>12. all - done > m => m > 0 /\ r.at + SliceSize = r.first + done + m
  BY <1>1, <1>2, <1>3, <1>4, <1>5, <1>6, <1>8, SizesTyped
<1> QED
  BY <1>10, <1>11, <1>12 DEF all, done

\* What becomes of a request when a slice is written to its response.
After(r) ==
    LET left  == Length(r.first, r.last) - Len(r.out)
        piece == Piece(r.at, r.first, left)
    IN  [r EXCEPT !.out = @ \o piece,
                  !.at  = @ + SliceSize,
                  !.pc  = IF left > Len(piece) THEN "lock" ELSE "done"]

LEMMA WritesIsAfter ==
    ASSUME NEW t \in Requests, Writes(t)
    PROVE  req' = [req EXCEPT ![t] = After(req[t])]
BY DEF Writes, After, Lacking

LEMMA AfterOK ==
    ASSUME NEW r \in Request, RequestOK(r), Progress(r), r.at < Total
    PROVE  After(r) \in Request /\ RequestOK(After(r)) /\ After(r).pc \in {"lock", "done"}
<1> DEFINE all   == Length(r.first, r.last)
           piece == Piece(r.at, r.first, all - Len(r.out))
           out   == r.out \o piece
           new   == After(r)
<1>1. /\ piece \in Seq(Nat)
      /\ \A i \in 1 .. Len(piece) : piece[i] = r.first + Len(r.out) + i - 1
      /\ Len(piece) = 0 \/ Len(r.out) + Len(piece) <= all
      /\ all - Len(r.out) > Len(piece) =>
            Len(piece) > 0 /\ r.at + SliceSize = r.first + Len(r.out) + Len(piece)
  BY PieceContinues
<1>2. /\ r.pc \in Pcs /\ r.first \in Nat /\ r.last \in Nat \cup {-1}
      /\ r.at \in Slices /\ r.out \in Seq(Nat)
  BY DEF Request
<1>3. all \in Int
  BY <1>2, LengthType
<1>5. new = [pc |-> IF all - Len(r.out) > Len(piece) THEN "lock" ELSE "done",
             first |-> r.first, last |-> r.last, at |-> r.at + SliceSize, out |-> out]
  <2>1. new = [r EXCEPT !.out = @ \o piece,
                        !.at  = @ + SliceSize,
                        !.pc  = IF all - Len(r.out) > Len(piece) THEN "lock" ELSE "done"]
    BY DEF After
  <2> HIDE DEF piece, new, all
  <2> QED
    BY <2>1 DEF Request
<1> HIDE DEF piece, new, all
<1>6. /\ out \in Seq(Nat) /\ Len(out) = Len(r.out) + Len(piece)
      /\ \A i \in 1 .. Len(out) :
            out[i] = IF i <= Len(r.out) THEN r.out[i] ELSE piece[i - Len(r.out)]
  BY <1>1, <1>2
<1>7. r.at + SliceSize \in Slices
  BY <1>2, SlicesNext
<1>8. new \in Request
  BY <1>2, <1>5, <1>6, <1>7 DEF Request, Pcs
<1>9. /\ Len(r.out) \in Nat /\ Len(piece) \in Nat
      /\ \A i \in 1 .. Len(r.out) : r.out[i] = r.first + i - 1
      /\ r.out = <<>> \/ Len(r.out) <= all
      /\ r.out = <<>> <=> Len(r.out) = 0
  BY <1>1, <1>2 DEF RequestOK, all
<1> HIDE DEF out
<1>10. \A i \in 1 .. Len(out) : out[i] = r.first + i - 1
  <2> SUFFICES ASSUME NEW i \in 1 .. Len(out) PROVE out[i] = r.first + i - 1
    OBVIOUS
  <2>1. CASE i <= Len(r.out)
    BY <1>6, <1>9, <2>1
  <2>2. CASE ~ (i <= Len(r.out))
    <3>1. i - Len(r.out) \in 1 .. Len(piece)
      BY <1>6, <1>9, <2>2
    <3>2. out[i] = r.first + Len(r.out) + (i - Len(r.out)) - 1
      BY <1>1, <1>6, <2>2, <3>1
    <3> QED
      BY <1>2, <1>9, <3>1, <3>2
  <2> QED
    BY <2>1, <2>2
<1>11. out = <<>> \/ Len(out) <= all
  BY <1>1, <1>3, <1>6, <1>9
<1>12. all - Len(r.out) > Len(piece) =>
          out # <<>> /\ r.at + SliceSize = r.first + Len(out) /\ Len(out) < all
  <2> SUFFICES ASSUME all - Len(r.out) > Len(piece)
               PROVE  out # <<>> /\ r.at + SliceSize = r.first + Len(out) /\ Len(out) < all
    OBVIOUS
  <2>1. Len(piece) > 0 /\ r.at + SliceSize = r.first + Len(r.out) + Len(piece)
    BY <1>1
  <2>2. Len(out) = Len(r.out) + Len(piece) /\ Len(r.out) \in Nat /\ Len(piece) \in Nat
    BY <1>6, <1>9
  <2>3. Len(out) > 0 /\ Len(out) < all
    BY <1>3, <2>1, <2>2
  <2>4. r.at + SliceSize = r.first + Len(out)
    BY <1>2, <2>1, <2>2
  <2> QED
    BY <2>3, <2>4
<1>13. ~ (all - Len(r.out) > Len(piece)) => all <= Len(out)
  BY <1>3, <1>6, <1>9
<1>14. RequestOK(new)
  <2>1. /\ new.first = r.first /\ new.last = r.last /\ new.out = out
        /\ new.at = r.at + SliceSize
        /\ new.pc = IF all - Len(r.out) > Len(piece) THEN "lock" ELSE "done"
    BY <1>5
  <2>2. r.last = -1 \/ r.first <= r.last
    BY DEF RequestOK
  <2>3. new.pc = "lock" => Progress(new)
    BY <1>12, <2>1 DEF Progress, all
  <2>4. new.pc = "done" => all <= Len(out)
    BY <1>13, <2>1
  <2>5. new.pc \in {"lock", "done"}
    BY <2>1
  <2> QED
    BY <1>10, <1>11, <2>1, <2>2, <2>3, <2>4, <2>5 DEF RequestOK, all
<1> QED
  BY <1>5, <1>8, <1>14 DEF new

-----------------------------------------------------------------------------
(* The requests. *)

\* A request changes and stays what it should be.
LEMMA OneChanges ==
    ASSUME RequestsOK, NEW t \in Requests, NEW r \in Request, RequestOK(r),
           req' = [req EXCEPT ![t] = r]
    PROVE  RequestsOK'
<1>1. req' \in [Requests -> Request]
  BY DEF RequestsOK
<1>2. \A u \in Requests : req'[u] = IF u = t THEN r ELSE req[u]
  BY DEF RequestsOK
<1>3. \A u \in Requests : RequestOK(req'[u])
  BY <1>2 DEF RequestsOK
<1> QED
  BY <1>1, <1>3 DEF RequestsOK

\* A goroutine goes on to another step.
LEMMA GoesOK ==
    ASSUME RequestsOK, NEW t \in Requests, NEW pc \in Pcs \ {"done"}, Goes(t, pc),
           req[t].pc \notin {"idle", "done", "failed"},
           pc \in {"touch", "keep", "set", "create", "write"} => req[t].at < Total
    PROVE  RequestsOK'
<1> DEFINE r == req[t]
           new == [r EXCEPT !.pc = pc]
<1>1. r \in Request /\ RequestOK(r) /\ Progress(r)
  BY DEF RequestsOK, RequestOK
<1>2. req' = [req EXCEPT ![t] = new]
  BY DEF Goes
<1>3. /\ new \in Request
      /\ new.pc = pc /\ new.first = r.first /\ new.last = r.last
      /\ new.at = r.at /\ new.out = r.out
  <2> HIDE DEF r
  <2> QED
    BY <1>1 DEF Request
<1> HIDE DEF r, new
<1>4. Progress(new)
  BY <1>1, <1>3 DEF Progress
<1>5. new.pc \in {"touch", "keep", "set", "create", "write"} => new.at < Total
  BY <1>3 DEF r
<1>6. RequestOK(new)
  BY <1>1, <1>3, <1>4, <1>5 DEF RequestOK
<1> QED
  BY <1>2, <1>3, <1>6, OneChanges

\* A slice of the source is written to a response.
LEMMA WritesOK ==
    ASSUME RequestsOK, NEW t \in Requests, Writes(t), req[t].at < Total,
           req[t].pc \notin {"idle", "done", "failed"}
    PROVE  RequestsOK'
<1>1. req[t] \in Request /\ RequestOK(req[t]) /\ Progress(req[t])
  BY DEF RequestsOK, RequestOK
<1>2. After(req[t]) \in Request /\ RequestOK(After(req[t]))
  BY <1>1, AfterOK
<1> QED
  BY <1>2, WritesIsAfter, OneChanges

\* The kind of step a Next step is.
LEMMA NextCases ==
    ASSUME Next
    PROVE  \/ \E t \in Requests : Ask(t) \/ Lock(t) \/ Step(t)
           \/ CleanList \/ CleanRemove \/ CleanEnd \/ Age
           \/ Restart \/ UNCHANGED vars
BY DEF Next, Done

LEMMA NewRequestOK ==
    /\ NoRequest \in Request /\ RequestOK(NoRequest)
    /\ \A r \in Ranges :
          LET new == [pc |-> "lock", first |-> r[1], last |-> r[2], at |-> Aligned(r[1]),
                      out |-> <<>>]
          IN  new \in Request /\ RequestOK(new)
<1>1. NoRequest \in Request /\ RequestOK(NoRequest)
  BY SlicesNext DEF NoRequest, Request, RequestOK, Pcs
<1>2. ASSUME NEW r \in Ranges
      PROVE  LET new == [pc |-> "lock", first |-> r[1], last |-> r[2], at |-> Aligned(r[1]),
                         out |-> <<>>]
             IN  new \in Request /\ RequestOK(new)
  <2>1. r[1] \in Nat /\ r[2] \in Nat \cup {-1} /\ (r[2] = -1 \/ r[1] <= r[2])
    BY SizesAreSane
  <2>2. Aligned(r[1]) \in Slices
    BY SlicesNext
  <2> QED
    BY <2>1, <2>2 DEF Request, RequestOK, Progress, Pcs
<1> QED
  BY <1>1, <1>2

LEMMA RequestsStep ==
    ASSUME RequestsOK, FilesOK, LruOK, [Next]_vars
    PROVE  RequestsOK'
<1>1. ASSUME NEW t \in Requests, Ask(t)
      PROVE  RequestsOK'
  BY <1>1, NewRequestOK, OneChanges DEF Ask
<1>2. ASSUME NEW t \in Requests, Lock(t)
      PROVE  RequestsOK'
  BY <1>2, GoesOK DEF Lock, Pcs
<1>3. ASSUME NEW t \in Requests, Lookup(t)
      PROVE  RequestsOK'
  <2>1. req[t].at \in Range(lru) => req[t].at < Total
    BY DEF LruOK, Range, Stored
  <2> QED
    BY <1>3, <2>1, GoesOK DEF Lookup, Pcs
<1>4. ASSUME NEW t \in Requests, Touch(t)
      PROVE  RequestsOK'
  BY <1>4, WritesOK DEF Touch, RequestsOK, RequestOK
<1>5. ASSUME NEW t \in Requests, Open(t)
      PROVE  RequestsOK'
  <2>1. req[t].pc = "open" /\ req[t].at \in Slices
    BY <1>5 DEF Open, RequestsOK, Request
  <2>2. files[req[t].at] # "absent" => req[t].at < Total
    BY <2>1 DEF FilesOK, Present, Stored
  <2>3. \/ Goes(t, "fetch") \/ Goes(t, "failed")
        \/ files[req[t].at] = "whole" /\ Goes(t, "keep")
    BY <1>5, <2>1 DEF Open, Fails, FilesOK
  <2> QED
    BY <2>1, <2>2, <2>3, GoesOK DEF Pcs
<1>6. ASSUME NEW t \in Requests, Keep(t)
      PROVE  RequestsOK'
  BY <1>6, WritesOK DEF Keep, RequestsOK, RequestOK
<1>7. ASSUME NEW t \in Requests, Fetch(t)
      PROVE  RequestsOK'
  BY <1>7, GoesOK DEF Fetch, Fails, Pcs
<1>8. ASSUME NEW t \in Requests, FetchFails(t)
      PROVE  RequestsOK'
  BY <1>8, GoesOK DEF FetchFails, Fails, Pcs
<1>9. ASSUME NEW t \in Requests, Set(t)
      PROVE  RequestsOK'
  <2>1. req[t].at < Total
    BY <1>9 DEF Set, RequestsOK, RequestOK
  <2> QED
    BY <1>9, <2>1, GoesOK DEF Set, Pcs
<1>10. ASSUME NEW t \in Requests, Create(t)
       PROVE  RequestsOK'
  <2>1. req[t].at < Total
    BY <1>10 DEF Create, RequestsOK, RequestOK
  <2> QED
    BY <1>10, <2>1, GoesOK DEF Create, Pcs
<1>11. ASSUME NEW t \in Requests, WriteFile(t)
       PROVE  RequestsOK'
  BY <1>11, WritesOK DEF WriteFile, RequestsOK, RequestOK
<1>12. ASSUME NEW t \in Requests, WriteFails(t)
       PROVE  RequestsOK'
  BY <1>12, GoesOK DEF WriteFails, Fails, Pcs
<1>13. CASE CleanList \/ CleanRemove \/ CleanEnd \/ Age \/ UNCHANGED vars
  BY <1>13 DEF CleanList, CleanRemove, CleanEnd, Age, vars, RequestsOK
<1>14. CASE Restart
  <2>1. req' = [t \in Requests |-> NoRequest]
    BY <1>14 DEF Restart
  <2> QED
    BY <2>1, NewRequestOK DEF RequestsOK
<1> QED
  BY <1>1, <1>2, <1>3, <1>4, <1>5, <1>6, <1>7, <1>8, <1>9, <1>10, <1>11, <1>12, <1>13,
     <1>14, NextCases DEF Step

-----------------------------------------------------------------------------
(* The locks. *)

\* What a step that only goes on changes.
LEMMA GoesChanges ==
    ASSUME RequestsOK, NEW t \in Requests, NEW pc, Goes(t, pc)
    PROVE  /\ req'[t].pc = pc /\ req'[t].at = req[t].at
           /\ req'[t].first = req[t].first /\ req'[t].out = req[t].out
           /\ \A u \in Requests : u # t => req'[u] = req[u]
BY DEF Goes, RequestsOK, Request

\* What a step that writes a slice to the response changes.
LEMMA WritesChanges ==
    ASSUME RequestsOK, NEW t \in Requests, Writes(t), req[t].at < Total,
           req[t].pc \notin {"idle", "done", "failed"}
    PROVE  /\ req'[t].pc \in {"lock", "done"} /\ req'[t].first = req[t].first
           /\ \A u \in Requests : u # t => req'[u] = req[u]
<1>1. req[t] \in Request /\ RequestOK(req[t]) /\ Progress(req[t])
  BY DEF RequestsOK, RequestOK
<1>2. After(req[t]).pc \in {"lock", "done"}
  BY <1>1, AfterOK
<1>3. After(req[t]).first = req[t].first
  BY <1>1 DEF After, Request
<1>4. req'[t] = After(req[t]) /\ \A u \in Requests : u # t => req'[u] = req[u]
  BY WritesIsAfter DEF RequestsOK
<1> QED
  BY <1>2, <1>3, <1>4

\* Whoever holds a lock after a step held it before, unless it is taken.
LEMMA NobodyTakes ==
    ASSUME OneHolder,
           \A u \in Requests : Holding(u)' => Holding(u) /\ req'[u].at = req[u].at
    PROVE  OneHolder'
BY DEF OneHolder

\* Every step of a goroutine that writes or goes on, by what becomes of it.
LEMMA StepChanges ==
    ASSUME RequestsOK, FilesOK, LruOK, NEW t \in Requests, Step(t)
    PROVE  /\ Holding(t)
           /\ req'[t].first = req[t].first
           /\ \A u \in Requests : u # t => req'[u] = req[u]
           /\ \/ req'[t].pc \in {"lock", "done", "failed"}
              \/ /\ req'[t].at = req[t].at
                 /\ req'[t].pc \in {"touch", "open", "fetch", "keep", "set", "create", "write"}
<1> USE DEF Holding
<1>1. CASE Touch(t)
  BY <1>1, WritesChanges DEF Touch, RequestsOK, RequestOK
<1>2. CASE Keep(t)
  BY <1>2, WritesChanges DEF Keep, RequestsOK, RequestOK
<1>3. CASE WriteFile(t)
  BY <1>3, WritesChanges DEF WriteFile, RequestsOK, RequestOK
<1>4. CASE Lookup(t)
  BY <1>4, GoesChanges DEF Lookup
<1>5. CASE Open(t)
  <2>1. req[t].at \in Slices
    BY DEF RequestsOK, Request
  <2>2. req[t].pc = "open" /\ (Goes(t, "fetch") \/ Goes(t, "failed") \/ Goes(t, "keep"))
    BY <1>5, <2>1 DEF Open, Fails, FilesOK
  <2> QED
    BY <2>2, GoesChanges
<1>6. CASE Fetch(t) \/ FetchFails(t)
  BY <1>6, GoesChanges DEF Fetch, FetchFails, Fails
<1>7. CASE Set(t) \/ Create(t)
  BY <1>7, GoesChanges DEF Set, Create
<1>8. CASE WriteFails(t)
  BY <1>8, GoesChanges DEF WriteFails, Fails
<1> QED
  BY <1>1, <1>2, <1>3, <1>4, <1>5, <1>6, <1>7, <1>8 DEF Step

\* Asking changes nobody else and holds no lock.
LEMMA AskChanges ==
    ASSUME RequestsOK, NEW t \in Requests, Ask(t)
    PROVE  req'[t].pc = "lock" /\ \A u \in Requests : u # t => req'[u] = req[u]
BY DEF Ask, RequestsOK

LEMMA OneHolderStep ==
    ASSUME RequestsOK, FilesOK, LruOK, OneHolder, [Next]_vars
    PROVE  OneHolder'
<1>1. ASSUME NEW t \in Requests, Ask(t)
      PROVE  OneHolder'
  BY <1>1, AskChanges, NobodyTakes DEF Holding
<1>2. ASSUME NEW t \in Requests, Lock(t)
      PROVE  OneHolder'
  <2>1. /\ req'[t].at = req[t].at
        /\ \A u \in Requests : u # t => req'[u] = req[u]
        /\ \A u \in Requests : Holding(u) => req[u].at # req[t].at
    BY <1>2, GoesChanges DEF Lock
  <2> QED
    BY <2>1 DEF OneHolder, Holding
<1>3. ASSUME NEW t \in Requests, Step(t)
      PROVE  OneHolder'
  BY <1>3, StepChanges, NobodyTakes DEF Holding
<1>4. CASE CleanList \/ CleanRemove \/ CleanEnd \/ Age \/ UNCHANGED vars
  BY <1>4 DEF CleanList, CleanRemove, CleanEnd, Age, vars, OneHolder, Holding
<1>5. CASE Restart
  BY <1>5 DEF Restart, NoRequest, OneHolder, Holding
<1> QED
  BY <1>1, <1>2, <1>3, <1>4, <1>5, NextCases

-----------------------------------------------------------------------------
(* The files. *)

LEMMA FilesStep ==
    ASSUME RequestsOK, FilesOK, [Next]_vars
    PROVE  FilesOK'
<1> USE DEF FilesOK, Present
<1>1. ASSUME NEW t \in Requests, Open(t)
      PROVE  FilesOK'
  <2>1. req[t].at \in Slices
    BY DEF RequestsOK, Request
  <2>2. /\ UNCHANGED cleaner
        /\ \/ UNCHANGED <<files, old>>
           \/ /\ files' = [files EXCEPT ![req[t].at] = "absent"]
              /\ old' = old \ {req[t].at}
    BY <1>1, <2>1 DEF Open
  <2> QED
    BY <2>1, <2>2
<1>2. ASSUME NEW t \in Requests, Create(t)
      PROVE  FilesOK'
  <2>1. req[t].at \in Stored
    BY <1>2 DEF Create, RequestsOK, RequestOK, Request, Stored
  <2> QED
    BY <1>2, <2>1 DEF Create
<1>3. ASSUME NEW t \in Requests, WriteFile(t)
      PROVE  FilesOK'
  BY <1>3 DEF WriteFile
<1>4. CASE CleanList
  <2> DEFINE fresh == Present \ old
  <2>1. /\ files' = [k \in Slices |-> IF k \in old THEN "absent" ELSE files[k]]
        /\ old' = {}
        /\ cleaner' = IF Held(fresh) > MaxDisk
                      THEN [on |-> TRUE, listed |-> fresh, size |-> Held(fresh)]
                      ELSE Resting
    BY <1>4 DEF CleanList
  <2>2. fresh \in SUBSET Stored
    OBVIOUS
  <2>3. Held(fresh) \in Nat
    BY <2>2, HeldType, StoredInSource
  <2> HIDE DEF fresh
  <2>4. cleaner' \in [on : BOOLEAN, listed : SUBSET Stored, size : Int]
    BY <2>1, <2>2, <2>3 DEF Resting
  <2>5. Held(cleaner'.listed) <= cleaner'.size
    BY <2>1, <2>3, HeldNone DEF Resting
  <2>6. files' \in [Slices -> {"absent", "torn", "whole"}]
    BY <2>1
  <2>7. Present' \subseteq Stored
    BY <2>1
  <2> QED
    BY <2>1, <2>4, <2>5, <2>6, <2>7
<1>5. CASE CleanRemove
  <2>1. PICK k \in cleaner.listed :
          /\ files' = [files EXCEPT ![k] = "absent"]
          /\ old' = old \ {k}
          /\ cleaner' = [cleaner EXCEPT
                !.listed = @ \ {k},
                !.size = IF k \in Present THEN @ - Size(k) ELSE @]
    BY <1>5 DEF CleanRemove
  <2> DEFINE rest == cleaner.listed \ {k}
  <2>2. k \in Stored /\ rest \in SUBSET Stored
    OBVIOUS
  <2>3. Held(cleaner.listed) = Held(rest) + Size(k) /\ Held(rest) \in Nat
    <3>1. rest \cup {k} = cleaner.listed /\ k \in Source \ rest /\ rest \in SUBSET Source
      BY <2>2, StoredInSource
    <3> HIDE DEF rest
    <3> QED
      BY <3>1, HeldAdd, HeldType
  <2>4. Size(k) \in Nat
    BY <2>2, StoredInSource, SizeOfSource
  <2> HIDE DEF rest
  <2>5. /\ cleaner'.listed = rest
        /\ cleaner'.size = IF k \in Present THEN cleaner.size - Size(k) ELSE cleaner.size
        /\ cleaner.size \in Int /\ Held(rest) <= cleaner'.size
    <3>1. cleaner'.listed = rest /\ cleaner.size \in Int
      BY <2>1 DEF rest
    <3>2. cleaner'.size = IF k \in Present THEN cleaner.size - Size(k) ELSE cleaner.size
      BY <2>1
    <3>3. Held(cleaner.listed) <= cleaner.size
      OBVIOUS
    <3>4. cleaner.size \in Int /\ Held(rest) + Size(k) <= cleaner.size
      BY <2>3, <3>1, <3>3
    <3>5. \/ cleaner'.size = cleaner.size - Size(k)
          \/ cleaner'.size = cleaner.size
      BY <3>2
    <3>6. Held(rest) <= cleaner'.size
      BY <2>3, <2>4, <3>4, <3>5
    <3> QED
      BY <3>1, <3>2, <3>6
  <2>6. cleaner' \in [on : BOOLEAN, listed : SUBSET Stored, size : Int]
    <3> DEFINE size == IF k \in Present THEN cleaner.size - Size(k) ELSE cleaner.size
    <3>1. cleaner \in [on : BOOLEAN, listed : SUBSET Stored, size : Int]
      OBVIOUS
    <3>2. size \in Int
      BY <2>4, <3>1
    <3>3. cleaner' = [cleaner EXCEPT !.listed = rest, !.size = size]
      BY <2>1 DEF rest
    <3> HIDE DEF size, FilesOK, Present
    <3> QED
      BY <2>2, <3>1, <3>2, <3>3
  <2>7. files' \in [Slices -> {"absent", "torn", "whole"}] /\ Present' \subseteq Stored
        /\ old' \subseteq Present'
    <3>1. files' = [files EXCEPT ![k] = "absent"] /\ old' = old \ {k}
      BY <2>1
    <3>2. \A j \in Slices : files'[j] = IF j = k THEN "absent" ELSE files[j]
      BY <3>1
    <3>3. Present' = Present \ {k}
      BY <3>2
    <3> QED
      BY <3>1, <3>3
  <2> QED
    BY <2>5, <2>6, <2>7
<1>6. CASE CleanEnd \/ Restart
  <2>1. cleaner' = Resting /\ UNCHANGED <<files, old>>
    BY <1>6 DEF CleanEnd, Restart
  <2> QED
    BY <2>1, HeldNone DEF Resting
<1>7. CASE Age
  BY <1>7 DEF Age
<1>8. ASSUME NEW t \in Requests, \/ Ask(t) \/ Lock(t) \/ Lookup(t) \/ Touch(t) \/ Keep(t)
                                 \/ Fetch(t) \/ FetchFails(t) \/ Set(t) \/ WriteFails(t)
      PROVE  FilesOK'
  BY <1>8 DEF Ask, Lock, Lookup, Touch, Keep, Fetch, FetchFails, Set, WriteFails
<1>9. CASE UNCHANGED vars
  BY <1>9 DEF vars
<1> QED
  BY <1>1, <1>2, <1>3, <1>4, <1>5, <1>6, <1>7, <1>8, <1>9, NextCases DEF Step

-----------------------------------------------------------------------------
(* Why requests fail. *)

Causes == TornIsWritten /\ FailsForCause

\* Nothing that a step of others changes takes a cause away.
LEMMA CausesStay ==
    ASSUME Causes, hurt => hurt',
           \A k \in Slices : files'[k] = "torn" => files[k] = "torn",
           \A u \in Requests :
              /\ req[u].pc = "write" => req'[u] = req[u]
              /\ req'[u].pc = "failed" => req'[u] = req[u]
    PROVE  Causes'
BY DEF Causes, TornIsWritten, FailsForCause

LEMMA CausesStep ==
    ASSUME RequestsOK, FilesOK, LruOK, OneHolder, Causes, [Next]_vars
    PROVE  Causes'
<1>1. ASSUME NEW t \in Requests, Ask(t)
      PROVE  Causes'
  <2>1. req[t].pc # "write" /\ UNCHANGED <<files, hurt>>
    BY <1>1 DEF Ask
  <2> QED
    BY <1>1, <2>1, AskChanges, CausesStay
<1>2. ASSUME NEW t \in Requests, Lock(t) \/ Lookup(t) \/ Set(t)
      PROVE  Causes'
  <2>1. /\ req[t].pc # "write" /\ UNCHANGED <<files, hurt>>
        /\ \E pc \in Pcs \ {"failed"} : Goes(t, pc)
    BY <1>2 DEF Lock, Lookup, Set, Pcs
  <2> QED
    BY <2>1, GoesChanges, CausesStay
<1>3. ASSUME NEW t \in Requests, Touch(t) \/ Keep(t)
      PROVE  Causes'
  <2>1. req[t].pc \in {"touch", "keep"} /\ Writes(t) /\ UNCHANGED <<files, hurt>>
    BY <1>3 DEF Touch, Keep
  <2>2. req[t].at < Total
    BY <2>1 DEF RequestsOK, RequestOK
  <2> QED
    BY <2>1, <2>2, WritesChanges, CausesStay
<1>4. ASSUME NEW t \in Requests, Open(t)
      PROVE  Causes'
  <2>1. req[t].pc = "open" /\ req[t].at \in Slices /\ UNCHANGED hurt
    BY <1>4 DEF Open, RequestsOK, Request
  <2>2. CASE files[req[t].at] = "torn" /\ req[t].at \notin old
    <3>1. Goes(t, "failed") /\ UNCHANGED files
      BY <1>4, <2>2 DEF Open, Fails
    <3>2. hurt
      <4>1. ASSUME NEW u \in Requests, req[u].pc = "write", req[u].at = req[t].at
            PROVE  FALSE
        <5>1. u # t /\ Holding(u) /\ Holding(t)
          BY <2>1, <4>1 DEF Holding
        <5> QED
          BY <4>1, <5>1 DEF OneHolder
      <4> QED
        BY <2>1, <2>2, <4>1 DEF Causes, TornIsWritten
    <3> QED
      BY <2>1, <3>1, <3>2 DEF Causes, TornIsWritten, FailsForCause
  <2>3. CASE ~ (files[req[t].at] = "torn" /\ req[t].at \notin old)
    <3>1. Goes(t, "fetch") \/ Goes(t, "keep")
      BY <1>4, <2>1, <2>3 DEF Open, FilesOK
    <3>2. \A k \in Slices : files'[k] = "torn" => files[k] = "torn"
      BY <1>4, <2>1, <2>3 DEF Open, FilesOK
    <3> QED
      BY <2>1, <3>1, <3>2, GoesChanges, CausesStay
  <2> QED
    BY <2>2, <2>3
<1>5. ASSUME NEW t \in Requests, Fetch(t)
      PROVE  Causes'
  <2>1. req[t].pc = "fetch" /\ UNCHANGED <<files, hurt>>
    BY <1>5 DEF Fetch
  <2>2. CASE req[t].at < Total
    <3>1. Goes(t, "set")
      BY <1>5, <2>2 DEF Fetch
    <3> QED
      BY <2>1, <3>1, GoesChanges, CausesStay
  <2>3. CASE ~ (req[t].at < Total)
    <3> DEFINE r == req[t]
    <3>1. Goes(t, "failed")
      BY <1>5, <2>3 DEF Fetch, Fails
    <3>2. r \in Request /\ RequestOK(r) /\ Progress(r)
      BY <2>1 DEF RequestsOK, RequestOK
    <3>3. r.at = Aligned(r.first)
      <4>1. /\ r.first \in Nat /\ r.last \in Nat \cup {-1} /\ r.out \in Seq(Nat)
            /\ r.at \in Slices
        BY <3>2 DEF Request
      <4>2. Length(r.first, r.last) \in Int /\ Length(r.first, r.last) <= Total - r.first
        BY <4>1, LengthType
      <4>3. ~ (r.at = r.first + Len(r.out) /\ Len(r.out) < Length(r.first, r.last))
        <5>1. Len(r.out) \in Nat
          BY <4>1
        <5> HIDE DEF r
        <5> QED
          BY <2>3, <4>1, <4>2, <5>1, SizesTyped DEF r
      <4> QED
        BY <3>2, <4>3 DEF Progress
    <3>4. r.at \in Nat
      BY <3>2, SlicesNext DEF Request
    <3>5. Aligned(r.first) >= Total
      BY <2>3, <3>3, <3>4, SizesTyped
    <3>6. /\ req'[t].pc = "failed" /\ req'[t].first = r.first
          /\ \A u \in Requests : u # t => req'[u] = req[u]
      BY <3>1, GoesChanges
    <3>7. FailsForCause'
      BY <2>1, <3>5, <3>6 DEF Causes, FailsForCause
    <3>8. TornIsWritten'
      BY <2>1, <3>6 DEF Causes, TornIsWritten
    <3> QED
      BY <3>7, <3>8 DEF Causes
  <2> QED
    BY <2>2, <2>3
<1>6. ASSUME NEW t \in Requests, Create(t)
      PROVE  Causes'
  <2>1. req[t].pc = "create" /\ req[t].at \in Slices /\ UNCHANGED hurt /\ Goes(t, "write")
    BY <1>6 DEF Create, RequestsOK, Request
  <2>2. \A k \in Slices : files'[k] = "torn" => files[k] = "torn" \/ k = req[t].at
    BY <1>6 DEF Create, FilesOK
  <2>3. /\ req'[t].pc = "write" /\ req'[t].at = req[t].at
        /\ \A u \in Requests : u # t => req'[u] = req[u]
    BY <2>1, GoesChanges
  <2>4. TornIsWritten'
    <3> SUFFICES ASSUME NEW k \in Slices, files'[k] = "torn", ~ hurt'
                 PROVE  \E u \in Requests : req'[u].pc = "write" /\ req'[u].at = k
      BY DEF TornIsWritten
    <3>1. CASE k = req[t].at
      BY <2>3, <3>1
    <3>2. CASE k # req[t].at
      <4>1. PICK u \in Requests : req[u].pc = "write" /\ req[u].at = k
        BY <2>1, <2>2, <3>2 DEF Causes, TornIsWritten
      <4> QED
        BY <2>1, <2>3, <4>1
    <3> QED
      BY <3>1, <3>2
  <2>5. FailsForCause'
    BY <2>1, <2>3 DEF Causes, FailsForCause
  <2> QED
    BY <2>4, <2>5 DEF Causes
<1>7. ASSUME NEW t \in Requests, WriteFile(t)
      PROVE  Causes'
  <2>1. /\ req[t].pc = "write" /\ req[t].at \in Slices /\ req[t].at < Total
        /\ UNCHANGED hurt /\ Writes(t)
    BY <1>7 DEF WriteFile, RequestsOK, RequestOK, Request
  <2>2. /\ files'[req[t].at] # "torn"
        /\ \A k \in Slices : k # req[t].at => files'[k] = files[k]
    BY <1>7, <2>1 DEF WriteFile, FilesOK
  <2>3. /\ req'[t].pc \in {"lock", "done"}
        /\ \A u \in Requests : u # t => req'[u] = req[u]
    BY <2>1, WritesChanges
  <2>4. TornIsWritten'
    <3> SUFFICES ASSUME NEW k \in Slices, files'[k] = "torn", ~ hurt'
                 PROVE  \E u \in Requests : req'[u].pc = "write" /\ req'[u].at = k
      BY DEF TornIsWritten
    <3>1. files[k] = "torn" /\ k # req[t].at /\ ~ hurt
      BY <2>1, <2>2
    <3>2. PICK u \in Requests : req[u].pc = "write" /\ req[u].at = k
      BY <3>1 DEF Causes, TornIsWritten
    <3> QED
      BY <2>3, <3>1, <3>2
  <2>5. FailsForCause'
    BY <2>1, <2>3 DEF Causes, FailsForCause
  <2> QED
    BY <2>4, <2>5 DEF Causes
<1>8. ASSUME NEW t \in Requests, FetchFails(t) \/ WriteFails(t)
      PROVE  Causes'
  BY <1>8 DEF FetchFails, WriteFails, Causes, TornIsWritten, FailsForCause
<1>9. CASE CleanList \/ CleanRemove \/ CleanEnd \/ Age \/ UNCHANGED vars
  <2>1. UNCHANGED <<req, hurt>>
    BY <1>9 DEF CleanList, CleanRemove, CleanEnd, Age, vars
  <2>2. \A k \in Slices : files'[k] = "torn" => files[k] = "torn"
    BY <1>9 DEF CleanList, CleanRemove, CleanEnd, Age, vars, FilesOK
  <2> QED
    BY <2>1, <2>2, CausesStay
<1>10. CASE Restart
  BY <1>10 DEF Restart, Causes, TornIsWritten, FailsForCause
<1> QED
  BY <1>1, <1>2, <1>3, <1>4, <1>5, <1>6, <1>7, <1>8, <1>9, <1>10, NextCases DEF Step

-----------------------------------------------------------------------------
(* The memory cache. *)

\* No key twice.
Distinct(s) == \A i, j \in 1 .. Len(s) : s[i] = s[j] => i = j

LEMMA RangeIs ==
    ASSUME NEW s \in Seq(Stored)
    PROVE  /\ Range(s) = {s[i] : i \in 1 .. Len(s)}
           /\ Range(s) \in SUBSET Stored /\ Range(s) \in SUBSET Source
BY StoredInSource DEF Range

\* The list with an element moved to its front.
LEMMA MovedToFrontOK ==
    ASSUME LruOK, NEW k \in Stored
    PROVE  /\ MovedToFront(k) \in Seq(Stored) /\ Distinct(MovedToFront(k))
           /\ Range(MovedToFront(k)) = Range(lru) /\ Len(MovedToFront(k)) = Len(lru)
<1> DEFINE n == Len(lru)
           p == Place(k)
           new == MovedToFront(k)
<1>1. lru \in Seq(Stored) /\ n \in Nat /\ Distinct(lru)
  BY DEF LruOK, Distinct
<1>2. CASE k \notin Range(lru)
  BY <1>1, <1>2 DEF MovedToFront
<1>3. CASE k \in Range(lru)
  <2>1. p \in 1 .. n /\ lru[p] = k
    <3>1. \E i \in DOMAIN lru : lru[i] = k
      BY <1>3 DEF Range
    <3>2. p \in DOMAIN lru /\ lru[p] = k
      BY <3>1 DEF Place
    <3> QED
      BY <1>1, <3>2
  <2> HIDE DEF p
  <2> DEFINE left == SubSeq(lru, 1, p - 1)
             right == SubSeq(lru, p + 1, n)
  <2>2. /\ left \in Seq(Stored) /\ Len(left) = p - 1
        /\ \A i \in 1 .. p - 1 : left[i] = lru[i]
    BY <1>1, <2>1
  <2>3. /\ right \in Seq(Stored) /\ Len(right) = n - p
        /\ \A i \in 1 .. n - p : right[i] = lru[p + i]
    BY <1>1, <2>1
  <2>4. new = <<k>> \o (left \o right)
    BY <1>3 DEF MovedToFront, RemoveAt, p
  <2> HIDE DEF left, right, new
  <2>5. /\ left \o right \in Seq(Stored) /\ Len(left \o right) = n - 1
        /\ \A i \in 1 .. n - 1 : (left \o right)[i] = IF i < p THEN lru[i] ELSE lru[i + 1]
    <3>1. left \o right \in Seq(Stored) /\ Len(left \o right) = n - 1
      <4>1. left \o right \in Seq(Stored) /\ Len(left \o right) = Len(left) + Len(right)
        BY <2>2, <2>3
      <4>2. (p - 1) + (n - p) = n - 1
        BY <1>1, <2>1
      <4> QED
        BY <2>2, <2>3, <4>1, <4>2
    <3>2. ASSUME NEW i \in 1 .. n - 1
          PROVE  (left \o right)[i] = IF i < p THEN lru[i] ELSE lru[i + 1]
      <4>1. (left \o right)[i] = IF i <= p - 1 THEN left[i] ELSE right[i - (p - 1)]
        BY <1>1, <2>1, <2>2, <2>3
      <4>2. i >= p => right[i - (p - 1)] = lru[i + 1]
        <5> SUFFICES ASSUME i >= p PROVE right[i - (p - 1)] = lru[i + 1]
          OBVIOUS
        <5>1. i - (p - 1) \in 1 .. n - p /\ p + (i - (p - 1)) = i + 1
          BY <1>1, <2>1
        <5> QED
          BY <2>3, <5>1
      <4> QED
        BY <1>1, <2>1, <2>2, <4>1, <4>2
    <3> QED
      BY <3>1, <3>2
  <2>6. /\ new \in Seq(Stored) /\ Len(new) = n
        /\ \A i \in 1 .. n : new[i] = IF i = 1 THEN k ELSE IF i <= p THEN lru[i - 1] ELSE lru[i]
    <3> DEFINE rest == left \o right
    <3>1. rest \in Seq(Stored) /\ Len(rest) = n - 1 /\ new = <<k>> \o rest
      BY <2>4, <2>5
    <3>2. \A i \in 1 .. n - 1 : rest[i] = IF i < p THEN lru[i] ELSE lru[i + 1]
      BY <2>5
    <3> HIDE DEF rest
    <3>3. new \in Seq(Stored) /\ Len(new) = n
      BY <1>1, <3>1
    <3>4. ASSUME NEW i \in 1 .. n
          PROVE  new[i] = IF i = 1 THEN k ELSE IF i <= p THEN lru[i - 1] ELSE lru[i]
      <4>1. CASE i = 1
        BY <3>1, <4>1
      <4>2. CASE i # 1
        <5>1. new[i] = rest[i - 1] /\ i - 1 \in 1 .. n - 1 /\ (i - 1) + 1 = i
          BY <1>1, <3>1, <4>2
        <5>2. i - 1 < p <=> i <= p
          BY <2>1
        <5> QED
          BY <3>2, <4>2, <5>1, <5>2
      <4> QED
        BY <4>1, <4>2
    <3> QED
      BY <3>3, <3>4
  <2> DEFINE from(i) == IF i = 1 THEN p ELSE IF i <= p THEN i - 1 ELSE i
  <2>7. \A i \in 1 .. n : from(i) \in 1 .. n /\ new[i] = lru[from(i)]
    BY <1>1, <2>1, <2>6
  <2>8. \A i, j \in 1 .. n : from(i) = from(j) => i = j
    BY <1>1, <2>1
  <2>9. \A j \in 1 .. n : \E i \in 1 .. n : from(i) = j
    <3> SUFFICES ASSUME NEW j \in 1 .. n PROVE \E i \in 1 .. n : from(i) = j
      OBVIOUS
    <3>1. CASE j = p
      <4>1. 1 \in 1 .. n /\ from(1) = j
        BY <1>1, <2>1, <3>1
      <4> QED
        BY <4>1
    <3>2. CASE j < p
      <4>1. j + 1 \in 1 .. n /\ from(j + 1) = j
        BY <1>1, <2>1, <3>2
      <4> QED
        BY <4>1
    <3>3. CASE j > p
      <4>1. from(j) = j
        BY <1>1, <2>1, <3>3
      <4> QED
        BY <4>1
    <3> QED
      BY <1>1, <2>1, <3>1, <3>2, <3>3
  <2> HIDE DEF from
  <2>10. Distinct(new)
    BY <1>1, <2>6, <2>7, <2>8 DEF Distinct
  <2>11. Range(new) = Range(lru)
    <3>1. Range(new) = {new[i] : i \in 1 .. n} /\ Range(lru) = {lru[i] : i \in 1 .. n}
      BY <1>1, <2>6, RangeIs
    <3>2. \A i \in 1 .. n : new[i] \in Range(lru)
      BY <2>7, <3>1
    <3>3. ASSUME NEW j \in 1 .. n
          PROVE  lru[j] \in Range(new)
      <4>1. PICK i \in 1 .. n : from(i) = j
        BY <2>9
      <4>2. new[i] = lru[j]
        BY <2>7, <4>1
      <4> QED
        BY <3>1, <4>2
    <3> QED
      BY <3>1, <3>2, <3>3
  <2> QED
    BY <2>6, <2>10, <2>11 DEF new
<1> QED
  BY <1>2, <1>3

\* The entries that stay fit beside n bytes, unless none stays.
LEMMA KeptFits ==
    ASSUME LruOK, memSize = Held(Range(lru)), NEW n \in Nat
    PROVE  /\ Kept(n) \in 0 .. Len(lru)
           /\ Kept(n) > 0 =>
                 /\ MaxEntries > 0 => Kept(n) < MaxEntries
                 /\ MaxMem > 0 => SizeKeeping(Kept(n)) + n <= MaxMem
<1> DEFINE T == {0} \cup {i \in 1 .. Len(lru) :
                    /\ MaxEntries > 0 => i < MaxEntries
                    /\ MaxMem > 0 => SizeKeeping(i) + n <= MaxMem}
<1>1. Len(lru) \in Nat
  BY DEF LruOK
<1>2. T \in SUBSET Int /\ T # {} /\ \A x \in T : x <= Len(lru)
  BY <1>1
<1>3. Kept(n) = Max(T)
  BY DEF Kept
<1>4. Kept(n) \in T
  <2> HIDE DEF T
  <2>1. Len(lru) \in Int
    BY <1>1
  <2>2. Max(T) \in T
    BY ONLY <1>2, <2>1, Greatest
  <2> QED
    BY <1>3, <2>2
<1> QED
  BY <1>1, <1>4

LEMMA KeepingIs ==
    ASSUME LruOK, memSize = Held(Range(lru)), NEW i \in 0 .. Len(lru)
    PROVE  LET kept == SubSeq(lru, 1, i)
           IN  /\ kept \in Seq(Stored) /\ Len(kept) = i /\ Distinct(kept)
               /\ \A j \in 1 .. i : kept[j] = lru[j]
               /\ Range(kept) \subseteq Range(lru)
               /\ SizeKeeping(i) = Held(Range(kept))
<1> DEFINE kept == SubSeq(lru, 1, i)
<1>1. lru \in Seq(Stored) /\ Len(lru) \in Nat /\ Distinct(lru)
  BY DEF LruOK, Distinct
<1>2. kept \in Seq(Stored) /\ Len(kept) = i /\ \A j \in 1 .. i : kept[j] = lru[j]
  BY <1>1
<1> HIDE DEF kept
<1>3. Distinct(kept)
  BY <1>1, <1>2 DEF Distinct
<1>4. Range(kept) \subseteq Range(lru) /\ Range(lru) \in SUBSET Source
  BY <1>1, <1>2, RangeIs
<1>5. Held(Range(lru)) = Held(Range(lru) \ Range(kept)) + Held(Range(kept))
  BY <1>4, HeldApart
<1>6. Held(Range(lru) \ Range(kept)) \in Nat /\ Held(Range(kept)) \in Nat
  BY <1>4, HeldType
<1>7. SizeKeeping(i) = Held(Range(kept))
  BY <1>5, <1>6 DEF SizeKeeping, kept
<1> QED
  BY <1>2, <1>3, <1>4, <1>7 DEF kept

Bounded ==
    /\ memSize = Held(Range(lru))
    /\ MaxMem > 0 => memSize <= MaxMem \/ Len(lru) = 1
    /\ MaxEntries > 0 => Len(lru) <= MaxEntries

\* A slice that is not in the list is stored.
LEMMA MemSetOK ==
    ASSUME LruOK, Bounded, NEW k \in Stored, k \notin Range(lru), MemSet(k)
    PROVE  LruOK' /\ Bounded' /\ Range(lru') \subseteq Range(lru) \cup {k}
<1> DEFINE stay == Kept(Size(k))
           kept == SubSeq(lru, 1, stay)
<1>1. Size(k) \in Nat /\ k \in Source
  BY StoredInSource, SizeOfSource
<1>2. /\ stay \in 0 .. Len(lru)
      /\ stay > 0 =>
            /\ MaxEntries > 0 => stay < MaxEntries
            /\ MaxMem > 0 => SizeKeeping(stay) + Size(k) <= MaxMem
  BY <1>1, KeptFits DEF Bounded
<1>3. lru' = <<k>> \o kept /\ memSize' = SizeKeeping(stay) + Size(k)
  BY DEF MemSet
<1> HIDE DEF stay
<1>4. /\ kept \in Seq(Stored) /\ Len(kept) = stay /\ Distinct(kept)
      /\ Range(kept) \subseteq Range(lru)
      /\ SizeKeeping(stay) = Held(Range(kept))
  BY <1>2, KeepingIs DEF Bounded
<1> HIDE DEF kept
<1>5. stay \in Nat
  BY <1>2 DEF LruOK
<1>6. /\ lru' \in Seq(Stored) /\ Len(lru') = stay + 1
      /\ \A i \in 1 .. stay + 1 : lru'[i] = IF i = 1 THEN k ELSE kept[i - 1]
  BY <1>3, <1>4, <1>5
<1>7. Range(lru') = Range(kept) \cup {k}
  <2>1. Range(kept) = {kept[i] : i \in 1 .. stay} /\ Range(lru') = {lru'[i] : i \in 1 .. stay + 1}
    BY <1>4, <1>6, RangeIs
  <2>2. \A i \in 1 .. stay : i + 1 \in 1 .. stay + 1 /\ lru'[i + 1] = kept[i]
    BY <1>5, <1>6
  <2>3. lru'[1] = k /\ 1 \in 1 .. stay + 1
    BY <1>5, <1>6
  <2>4. \A i \in 1 .. stay + 1 : i = 1 \/ i - 1 \in 1 .. stay
    BY <1>5
  <2>5. \A i \in 1 .. stay + 1 : lru'[i] \in Range(kept) \cup {k}
    BY <1>6, <2>1, <2>4
  <2> QED
    BY <2>1, <2>2, <2>3, <2>5
<1>8. Distinct(lru')
  <2> SUFFICES ASSUME NEW i \in 1 .. stay + 1, NEW j \in 1 .. stay + 1, lru'[i] = lru'[j]
               PROVE  i = j
    BY <1>6 DEF Distinct
  <2>1. \A m \in 1 .. stay : kept[m] # k
    BY <1>4, RangeIs
  <2>2. i # 1 => i - 1 \in 1 .. stay /\ lru'[i] = kept[i - 1]
    BY <1>5, <1>6
  <2>3. j # 1 => j - 1 \in 1 .. stay /\ lru'[j] = kept[j - 1]
    BY <1>5, <1>6
  <2>4. lru'[1] = k
    BY <1>5, <1>6
  <2>5. CASE i = 1 \/ j = 1
    BY <2>1, <2>2, <2>3, <2>4, <2>5
  <2>6. CASE i # 1 /\ j # 1
    <3>1. i - 1 = j - 1
      BY <1>4, <2>2, <2>3, <2>6 DEF Distinct
    <3> QED
      BY <1>5, <3>1
  <2> QED
    BY <2>5, <2>6
<1>9. Range(kept) \in SUBSET Source /\ k \notin Range(kept)
  BY <1>4, RangeIs
<1>10. memSize' = Held(Range(lru'))
  BY <1>1, <1>3, <1>4, <1>7, <1>9, HeldAdd
<1>11. Held(Range(kept)) \in Nat
  BY <1>9, HeldType
<1>12. MaxMem > 0 => memSize' <= MaxMem \/ Len(lru') = 1
  BY <1>2, <1>3, <1>5, <1>6
<1>13. MaxEntries > 0 => Len(lru') <= MaxEntries
  BY <1>2, <1>5, <1>6, SizesAreSane
<1>14. LruOK'
  BY <1>6, <1>8 DEF LruOK, Distinct
<1> QED
  BY <1>4, <1>7, <1>10, <1>12, <1>13, <1>14 DEF Bounded

LEMMA BoundsTyped ==
    MaxMem \in Nat /\ MaxEntries \in Nat /\ MaxRequests \in Nat /\ MaxTroubles \in Nat
BY SizesAreSane

LEMMA MemoryStep ==
    ASSUME RequestsOK, FilesOK, LruOK, OneHolder, Bounded, NeverReplaces, [Next]_vars
    PROVE  LruOK' /\ Bounded' /\ NeverReplaces'
<1>1. ASSUME NEW t \in Requests, Keep(t) \/ Set(t)
      PROVE  LruOK' /\ Bounded' /\ NeverReplaces'
  <2>1. MemSet(req[t].at) /\ Step(t)
    BY <1>1 DEF Keep, Set, Step
  <2>2. req[t].at \in Stored /\ req[t].at \notin Range(lru)
    BY <1>1 DEF Keep, Set, RequestsOK, RequestOK, Request, Stored, NeverReplaces
  <2>3. LruOK' /\ Bounded' /\ Range(lru') \subseteq Range(lru) \cup {req[t].at}
    BY <2>1, <2>2, MemSetOK
  <2>4. req'[t].pc \in {"create", "lock", "done"}
    <3>1. CASE Keep(t)
      BY <3>1, WritesChanges DEF Keep, RequestsOK, RequestOK
    <3>2. CASE Set(t)
      BY <3>2, GoesChanges DEF Set
    <3> QED
      BY <1>1, <3>1, <3>2
  <2>5. ASSUME NEW u \in Requests, req'[u].pc \in {"open", "fetch", "keep", "set"}
        PROVE  req'[u].at \notin Range(lru')
    <3>1. u # t /\ req'[u] = req[u] /\ Holding(t)
      BY <2>1, <2>4, <2>5, StepChanges
    <3>2. Holding(u)
      BY <2>5, <3>1 DEF Holding
    <3>3. req[u].at # req[t].at
      BY <3>1, <3>2 DEF OneHolder
    <3>4. req[u].at \notin Range(lru)
      BY <2>5, <3>1 DEF NeverReplaces
    <3> QED
      BY <2>3, <3>1, <3>3, <3>4
  <2> QED
    BY <2>3, <2>5 DEF NeverReplaces
<1>2. ASSUME NEW t \in Requests, Touch(t)
      PROVE  LruOK' /\ Bounded' /\ NeverReplaces'
  <2>1. lru' = MovedToFront(req[t].at) /\ UNCHANGED memSize
    BY <1>2 DEF Touch
  <2>2. req[t].at \in Stored
    BY <1>2 DEF Touch, RequestsOK, RequestOK, Request, Stored
  <2>3. LruOK' /\ Range(lru') = Range(lru) /\ Len(lru') = Len(lru)
    BY <2>1, <2>2, MovedToFrontOK DEF LruOK, Distinct
  <2>4. Bounded'
    BY <2>1, <2>3 DEF Bounded
  <2>5. /\ req'[t].pc \in {"lock", "done"}
        /\ \A u \in Requests : u # t => req'[u] = req[u]
    BY <1>2, WritesChanges DEF Touch, RequestsOK, RequestOK
  <2> QED
    BY <2>3, <2>4, <2>5 DEF NeverReplaces
<1>3. CASE Restart
  <2>1. lru' = <<>> /\ memSize' = 0 /\ \A t \in Requests : req'[t].pc = "idle"
    BY <1>3 DEF Restart, NoRequest
  <2>2. <<>> \in Seq(Stored) /\ Len(<<>>) = 0
    OBVIOUS
  <2>3. Range(lru') = {}
    BY <2>1 DEF Range
  <2>4. LruOK'
    BY <2>1 DEF LruOK
  <2>5. Bounded'
    <3>1. Len(lru') = 0 /\ memSize' = 0 /\ Held(Range(lru')) = 0
      BY <2>1, <2>2, <2>3, HeldNone
    <3>2. (MaxMem > 0 => 0 <= MaxMem) /\ (MaxEntries > 0 => 0 <= MaxEntries)
      BY BoundsTyped
    <3> QED
      BY <3>1, <3>2 DEF Bounded
  <2> QED
    BY <2>1, <2>4, <2>5 DEF NeverReplaces
<1>4. ASSUME UNCHANGED <<lru, memSize>>,
             \A u \in Requests :
                req'[u].pc \in {"open", "fetch", "keep", "set"} =>
                   req'[u].at \notin Range(lru)
      PROVE  LruOK' /\ Bounded' /\ NeverReplaces'
  BY <1>4 DEF LruOK, Bounded, NeverReplaces
<1>5. ASSUME NEW t \in Requests, Ask(t)
      PROVE  LruOK' /\ Bounded' /\ NeverReplaces'
  <2>1. UNCHANGED <<lru, memSize>>
    BY <1>5 DEF Ask
  <2> QED
    BY <1>4, <1>5, <2>1, AskChanges DEF NeverReplaces
<1>6. ASSUME NEW t \in Requests, Lock(t)
      PROVE  LruOK' /\ Bounded' /\ NeverReplaces'
  <2>1. UNCHANGED <<lru, memSize>> /\ Goes(t, "get")
    BY <1>6 DEF Lock
  <2> QED
    BY <1>4, <2>1, GoesChanges DEF NeverReplaces
<1>7. ASSUME NEW t \in Requests, Lookup(t)
      PROVE  LruOK' /\ Bounded' /\ NeverReplaces'
  <2>1. /\ UNCHANGED <<lru, memSize>>
        /\ Goes(t, IF req[t].at \in Range(lru) THEN "touch" ELSE "open")
    BY <1>7 DEF Lookup
  <2> QED
    BY <1>4, <2>1, GoesChanges DEF NeverReplaces
<1>8. ASSUME NEW t \in Requests, \/ Open(t) \/ Fetch(t) \/ FetchFails(t)
                                 \/ Create(t) \/ WriteFile(t) \/ WriteFails(t)
      PROVE  LruOK' /\ Bounded' /\ NeverReplaces'
  <2>1. UNCHANGED <<lru, memSize>> /\ Step(t)
    BY <1>8 DEF Open, Fetch, FetchFails, Create, WriteFile, WriteFails, Step
  <2>2. \A u \in Requests : u # t => req'[u] = req[u]
    BY <2>1, StepChanges
  <2>3. req[t].pc \in {"open", "fetch"} \/ req'[t].pc \notin {"open", "fetch", "keep", "set"}
    <3>1. CASE Open(t) \/ Fetch(t)
      BY <3>1 DEF Open, Fetch
    <3>2. CASE FetchFails(t) \/ WriteFails(t)
      BY <3>2, GoesChanges DEF FetchFails, WriteFails, Fails
    <3>3. CASE Create(t)
      BY <3>3, GoesChanges DEF Create
    <3>4. CASE WriteFile(t)
      BY <3>4, WritesChanges DEF WriteFile, RequestsOK, RequestOK
    <3> QED
      BY <1>8, <3>1, <3>2, <3>3, <3>4
  <2>4. req'[t].pc \in {"open", "fetch", "keep", "set"} => req'[t].at = req[t].at
    BY <2>1, StepChanges
  <2> QED
    BY <1>4, <2>1, <2>2, <2>3, <2>4 DEF NeverReplaces
<1>9. CASE CleanList \/ CleanRemove \/ CleanEnd \/ Age \/ UNCHANGED vars
  <2>1. UNCHANGED <<req, lru, memSize>>
    BY <1>9 DEF CleanList, CleanRemove, CleanEnd, Age, vars
  <2> QED
    BY <1>4, <2>1 DEF NeverReplaces
<1> QED
  BY <1>1, <1>2, <1>3, <1>5, <1>6, <1>7, <1>8, <1>9, NextCases DEF Step

-----------------------------------------------------------------------------
(* The invariant and what follows from it. *)

LEMMA CountsStep ==
    ASSUME Counts, [Next]_vars
    PROVE  Counts'
<1>1. ASSUME asked' = asked \/ (asked < MaxRequests /\ asked' = asked + 1),
             troubles' = troubles \/ (troubles < MaxTroubles /\ troubles' = troubles + 1),
             hurt' = hurt \/ hurt' = TRUE
      PROVE  Counts'
  <2>1. asked' \in 0 .. MaxRequests
    BY <1>1, BoundsTyped DEF Counts
  <2>2. troubles' \in 0 .. MaxTroubles
    BY <1>1, BoundsTyped DEF Counts
  <2>3. hurt' \in BOOLEAN
    BY <1>1 DEF Counts
  <2> QED
    BY <2>1, <2>2, <2>3 DEF Counts
<1>2. ASSUME NEW t \in Requests, Ask(t) \/ Lock(t)
      PROVE  Counts'
  BY <1>1, <1>2 DEF Ask, Lock
<1>3. ASSUME NEW t \in Requests, Step(t)
      PROVE  Counts'
  <2>1. UNCHANGED asked
    BY <1>3 DEF Step, Lookup, Touch, Open, Keep, Fetch, FetchFails, Set, Create, WriteFile,
                WriteFails
  <2>2. CASE FetchFails(t) \/ WriteFails(t)
    BY <1>1, <2>1, <2>2 DEF FetchFails, WriteFails
  <2>3. CASE ~ (FetchFails(t) \/ WriteFails(t))
    <3>1. UNCHANGED <<troubles, hurt>>
      BY <1>3, <2>3 DEF Step, Lookup, Touch, Open, Keep, Fetch, Set, Create, WriteFile
    <3> QED
      BY <1>1, <2>1, <3>1
  <2> QED
    BY <2>2, <2>3
<1>4. CASE CleanList \/ CleanRemove \/ CleanEnd \/ UNCHANGED vars
  <2>1. UNCHANGED <<asked, troubles, hurt>>
    BY <1>4 DEF CleanList, CleanRemove, CleanEnd, vars
  <2> QED
    BY <1>1, <2>1
<1>5. CASE Age \/ Restart
  BY <1>1, <1>5 DEF Age, Restart
<1> QED
  BY <1>2, <1>3, <1>4, <1>5, NextCases

Inv ==
    /\ RequestsOK /\ OneHolder
    /\ FilesOK /\ Causes
    /\ LruOK /\ Bounded /\ NeverReplaces
    /\ Counts

LEMMA InitInv == Init => Inv
<1> SUFFICES ASSUME Init PROVE Inv
  OBVIOUS
<1>1. \A t \in Requests : req[t] = NoRequest /\ req[t].pc = "idle"
  BY DEF Init, NoRequest
<1>2. RequestsOK
  BY <1>1, NewRequestOK DEF Init, RequestsOK
<1>3. OneHolder
  BY <1>1 DEF OneHolder, Holding
<1>4. FilesOK
  BY HeldNone DEF Init, FilesOK, Present, Resting
<1>5. Causes
  BY <1>1 DEF Init, Causes, TornIsWritten, FailsForCause
<1>6. lru = <<>> /\ Range(lru) = {} /\ memSize = 0
  BY DEF Init, Range
<1>7. LruOK
  BY <1>6 DEF LruOK
<1>8. Bounded
  <2>1. Len(lru) = 0 /\ memSize = 0 /\ Held(Range(lru)) = 0
    BY <1>6, HeldNone
  <2>2. (MaxMem > 0 => 0 <= MaxMem) /\ (MaxEntries > 0 => 0 <= MaxEntries)
    BY BoundsTyped
  <2> QED
    BY <2>1, <2>2 DEF Bounded
<1>9. NeverReplaces
  BY <1>1 DEF NeverReplaces
<1>10. Counts
  <2>1. asked = 0 /\ troubles = 0 /\ hurt = FALSE
    BY DEF Init
  <2>2. 0 \in 0 .. MaxRequests /\ 0 \in 0 .. MaxTroubles
    BY BoundsTyped
  <2> QED
    BY <2>1, <2>2 DEF Counts
<1> QED
  BY <1>2, <1>3, <1>4, <1>5, <1>7, <1>8, <1>9, <1>10 DEF Inv

\* Every behaviour keeps the requests, the locks, the files, the list and its
\* size in order.
THEOREM SlicesKept == Spec => []Inv
<1>1. Inv /\ [Next]_vars => Inv'
  BY RequestsStep, OneHolderStep, FilesStep, CausesStep, MemoryStep, CountsStep DEF Inv
<1> QED
  BY <1>1, InitInv, PTL DEF Spec

\* The variables stay in their types, whatever is evicted, cleaned or fails.
THEOREM TypeCorrect == Spec => []TypeOK
<1>1. ASSUME Inv
      PROVE  TypeOK
  <2>1. \A t \in Requests : req[t].at \in Nat /\ req[t].out \in Seq(Nat)
    BY <1>1, SlicesNext DEF Inv, RequestsOK, Request
  <2>2. lru \in Seq(Stored) /\ Distinct(lru) /\ Len(lru) \in Nat
    BY <1>1 DEF Inv, LruOK, Distinct
  <2>3. lru \in Seq(Slices)
    BY <2>2 DEF Stored
  <2>4. Range(lru) = {lru[i] : i \in 1 .. Len(lru)} /\ Range(lru) \in SUBSET Source
    BY <2>2, RangeIs
  <2>5. Cardinality(Range(lru)) = Len(lru)
    <3>1. lru \in [1 .. Len(lru) -> Range(lru)]
      BY <2>2, <2>4
    <3>2. lru \in Injection(1 .. Len(lru), Range(lru))
      BY <2>2, <3>1 DEF Injection, IsInjective, Distinct
    <3>3. lru \in Surjection(1 .. Len(lru), Range(lru))
      BY <2>4, <3>1 DEF Surjection
    <3>4. lru \in Bijection(1 .. Len(lru), Range(lru))
      BY <3>2, <3>3 DEF Bijection
    <3> QED
      BY <2>2, <3>4, FS_CountingElements DEF ExistsBijection
  <2>6. memSize \in Nat
    BY <1>1, <2>4, HeldType DEF Inv, Bounded
  <2>7. cleaner.listed \subseteq Slices /\ cleaner.size \in Nat
    <3>1. /\ cleaner.listed \in SUBSET Stored /\ cleaner.size \in Int
          /\ Held(cleaner.listed) <= cleaner.size
      BY <1>1 DEF Inv, FilesOK
    <3>2. Held(cleaner.listed) \in Nat
      BY <3>1, StoredInSource, HeldType
    <3> QED
      BY <3>1, <3>2 DEF Stored
  <2> QED
    BY <1>1, <2>1, <2>3, <2>5, <2>6, <2>7 DEF TypeOK, Inv, FilesOK, Counts
<1> QED
  BY <1>1, SlicesKept, PTL

\* A request for bytes that exist fails only after something else has failed:
\* no eviction, cleaning or other request makes it fail (cache.go:499-543,
\* slice.go:238-273).
THEOREM FailuresHaveCauses == Spec => []FailsForCause
<1>1. Inv => FailsForCause
  BY DEF Inv, Causes
<1> QED
  BY <1>1, SlicesKept, PTL

\* No Set replaces an entry, and the counter of the memory cache is the size of
\* its entries and within its bounds, for every bound (cache.go:334-412).
THEOREM MemoryKeepsBounds == Spec => []MemoryBounded
<1>1. Inv => MemoryBounded
  BY DEF Inv, Bounded, MemoryBounded
<1> QED
  BY <1>1, SlicesKept, PTL

\* A response is the beginning of the bytes asked for, and in the end all of
\* them, for every range, slice size and length of the source (slice.go:175-236).
THEOREM BytesAreRight == Spec => []RightBytes
<1>1. ASSUME Inv
      PROVE  RightBytes
  <2> SUFFICES ASSUME NEW t \in Requests
               PROVE  LET r == req[t]
                      IN  /\ \A i \in DOMAIN r.out : r.out[i] = r.first + i - 1
                          /\ Range(r.out) \subseteq Wanted(r.first, r.last)
                          /\ r.pc = "done" => Range(r.out) = Wanted(r.first, r.last)
    BY DEF RightBytes
  <2> DEFINE r == req[t]
             all == Length(r.first, r.last)
             n == Len(r.out)
  <2>1. r \in Request /\ RequestOK(r)
    BY <1>1 DEF Inv, RequestsOK
  <2>2. /\ r.first \in Nat /\ r.last \in Nat \cup {-1} /\ r.out \in Seq(Nat)
        /\ r.last = -1 \/ r.first <= r.last
    BY <2>1 DEF Request, RequestOK
  <2>3. /\ n \in Nat /\ DOMAIN r.out = 1 .. n
        /\ \A i \in 1 .. n : r.out[i] = r.first + i - 1
        /\ n = 0 \/ n <= all
        /\ r.pc = "done" => all <= n
    BY <2>1, <2>2 DEF RequestOK
  <2> HIDE DEF r
  <2>4. all = IF r.last = -1 \/ r.last >= Total THEN Total - r.first ELSE r.last - r.first + 1
    BY DEF Length
  <2>5. all \in Int
    BY <2>2, LengthType
  <2>6. \A p \in Nat : p \in Wanted(r.first, r.last) <=> r.first <= p /\ p < r.first + all
    <3> SUFFICES ASSUME NEW p \in Nat
                 PROVE  p \in Wanted(r.first, r.last) <=> r.first <= p /\ p < r.first + all
      OBVIOUS
    <3>1. p \in Wanted(r.first, r.last) <=>
             p < Total /\ r.first <= p /\ (r.last = -1 \/ p <= r.last)
      BY SizesTyped DEF Wanted
    <3> QED
      BY <2>2, <2>4, <3>1, SizesTyped
  <2> HIDE DEF all, n
  <2>7. Range(r.out) = {r.first + i - 1 : i \in 1 .. n}
    BY <2>3 DEF Range
  <2>8. \A i \in 1 .. n : r.first + i - 1 \in Wanted(r.first, r.last)
    <3> SUFFICES ASSUME NEW i \in 1 .. n PROVE r.first + i - 1 \in Wanted(r.first, r.last)
      OBVIOUS
    <3>1. r.first + i - 1 \in Nat /\ r.first <= r.first + i - 1 /\ r.first + i - 1 < r.first + all
      BY <2>2, <2>3, <2>5
    <3> QED
      BY <2>6, <3>1
  <2>9. ASSUME r.pc = "done", NEW p \in Wanted(r.first, r.last)
        PROVE  p \in Range(r.out)
    <3>1. p \in Nat
      BY SizesTyped DEF Wanted
    <3>2. r.first <= p /\ p < r.first + all /\ all <= n
      BY <2>3, <2>6, <2>9, <3>1
    <3>3. r.first \in Nat /\ n \in Nat /\ all \in Int
      BY <2>2, <2>3, <2>5
    <3>4. p - r.first + 1 \in 1 .. n /\ p = r.first + (p - r.first + 1) - 1
      BY <3>1, <3>2, <3>3
    <3> QED
      BY <2>7, <3>4
  <2>10. Range(r.out) \subseteq Wanted(r.first, r.last)
    BY <2>7, <2>8
  <2>11. r.pc = "done" => Range(r.out) = Wanted(r.first, r.last)
    BY <2>9, <2>10
  <2> QED
    BY <2>3, <2>10, <2>11 DEF r
<1> QED
  BY <1>1, SlicesKept, PTL
==============================================================================
