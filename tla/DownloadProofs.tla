---------------------------- MODULE DownloadProofs ----------------------------
(***************************************************************************)
(* get_file() and the read-ahead slots, for every number of downloads, of  *)
(* slots, chunks, workers and faults.                                      *)
(***************************************************************************)
EXTENDS Download, SequenceTheorems, FiniteSetTheorems,
        WellFoundedInduction, TLAPS

-----------------------------------------------------------------------------
(* The least and the greatest of a set of numbers.                         *)

\* A set of numbers has a least one: of the intervals 0 .. n one is in no other.
LEMMA LeastNumber ==
    ASSUME NEW T \in SUBSET Nat, T # {}
    PROVE  \E x \in T : \A y \in T : x <= y
<1> DEFINE R == StrictSubsetOrdering(Nat)
           F == {0 .. n : n \in T}
<1>1. IsWellFoundedOn(R, FiniteSubsetsOf(Nat))
  BY FS_StrictSubsetOrderingWellFounded
<1>2. F \subseteq FiniteSubsetsOf(Nat)
  <2>1. ASSUME NEW n \in T PROVE 0 .. n \in FiniteSubsetsOf(Nat)
    <3>1. IsFiniteSet(0 .. n)
      BY FS_Interval
    <3> QED
      BY <3>1 DEF FiniteSubsetsOf
  <2> QED
    BY <2>1
<1>3. PICK I \in F : \A J \in F : <<J, I>> \notin R
  <2>1. F # {}
    OBVIOUS
  <2> HIDE DEF F, R
  <2> QED
    BY <1>1, <1>2, <2>1, WFMin
<1>4. PICK x \in T : I = 0 .. x
  OBVIOUS
<1>5. ASSUME NEW y \in T PROVE x <= y
  <2>1. SUFFICES ASSUME y < x PROVE FALSE
    OBVIOUS
  <2>2. /\ 0 .. y \subseteq 0 .. x /\ x \in 0 .. x /\ x \notin 0 .. y
    BY <2>1
  <2>3. <<0 .. y, 0 .. x>> \in R
    BY <2>2 DEF StrictSubsetOrdering
  <2> QED
    BY <1>3, <1>4, <2>3
<1> QED
  BY <1>5

LEMMA GreatestNumber ==
    ASSUME NEW n \in Nat, NEW T \in SUBSET (0 .. n), T # {}
    PROVE  \E x \in T : \A y \in T : x >= y
<1> DEFINE D == {n - x : x \in T}
<1>1. D \in SUBSET Nat /\ D # {}
  <2>1. \A x \in T : n - x \in Nat
    OBVIOUS
  <2>2. PICK x \in T : TRUE
    OBVIOUS
  <2>3. n - x \in D
    BY <2>2
  <2> QED
    BY <2>1, <2>3
<1>2. PICK d \in D : \A e \in D : d <= e
  <2> HIDE DEF D
  <2> QED
    BY <1>1, LeastNumber
<1>3. PICK x \in T : d = n - x
  OBVIOUS
<1>4. ASSUME NEW y \in T PROVE x >= y
  <2>1. n - x <= n - y
    BY <1>2, <1>3
  <2>2. x \in 0 .. n /\ y \in 0 .. n
    OBVIOUS
  <2> QED
    BY <2>1, <2>2
<1> QED
  BY <1>4

-----------------------------------------------------------------------------
(* Places in a set of numbers.                                             *)

Place(I, i) == Cardinality({j \in I : j <= i})

\* There is one at each place.
LEMMA PlacesAreFilled ==
    ASSUME NEW n \in Nat, NEW I \in SUBSET (1 .. n), NEW m \in 1 .. Cardinality(I)
    PROVE  \E i \in I : Place(I, i) = m
<1> DEFINE Until(i) == {j \in I : j <= i}
           Before(i) == {j \in I : j < i}
           T == {i \in I : Cardinality(Until(i)) >= m}
<1>1. \A j \in I : j \in 1 .. n /\ j \in Nat /\ j <= n
  OBVIOUS
<1>2. IsFiniteSet(I) /\ Cardinality(I) \in Nat
  <2>1. IsFiniteSet(1 .. n)
    BY FS_Interval
  <2> QED
    BY <2>1, FS_Subset, FS_CardinalityType
<1>3. \A i \in I : /\ IsFiniteSet(Before(i)) /\ Cardinality(Before(i)) \in Nat
                   /\ Cardinality(Until(i)) = Cardinality(Before(i)) + 1
  <2>1. ASSUME NEW i \in I
        PROVE  /\ IsFiniteSet(Before(i)) /\ Cardinality(Before(i)) \in Nat
               /\ Cardinality(Until(i)) = Cardinality(Before(i)) + 1
    <3>1. Before(i) \in SUBSET I /\ i \notin Before(i)
      OBVIOUS
    <3>2. IsFiniteSet(Before(i)) /\ Cardinality(Before(i)) \in Nat
      BY <1>2, <3>1, FS_Subset, FS_CardinalityType
    <3>3. Until(i) = Before(i) \cup {i}
      <4>1. \A j \in I : j <= i <=> j < i \/ j = i
        BY <1>1
      <4> QED
        BY <4>1
    <3> HIDE DEF Until, Before
    <3> QED
      BY <3>1, <3>2, <3>3, FS_AddElement
  <2> QED
    BY <2>1
<1>4. T # {}
  <2>1. I # {}
    BY <1>2, FS_EmptySet
  <2>2. PICK x \in I : \A y \in I : x >= y
    <3>1. I \in SUBSET (0 .. n)
      OBVIOUS
    <3> QED
      BY <2>1, <3>1, GreatestNumber
  <2>3. Until(x) = I
    BY <2>2
  <2> QED
    BY <1>2, <2>2, <2>3
<1>5. PICK i \in T : \A j \in T : i <= j
  <2>1. T \in SUBSET Nat
    BY <1>1
  <2> HIDE DEF T
  <2> QED
    BY <1>4, <2>1, LeastNumber
<1>6. CASE Cardinality(Until(i)) # m
  <2>1. Cardinality(Before(i)) >= m
    BY <1>2, <1>3, <1>6
  <2>2. Before(i) # {}
    BY <1>2, <2>1, FS_EmptySet
  <2>3. PICK j \in Before(i) : \A y \in Before(i) : j >= y
    <3>1. Before(i) \in SUBSET (0 .. n)
      <4>1. \A j \in I : j \in 0 .. n
        BY <1>1
      <4> QED
        BY <4>1
    <3> HIDE DEF Before
    <3> QED
      BY <2>2, <3>1, GreatestNumber
  <2>4. Until(j) = Before(i)
    <3>1. \A y \in I : y <= j <=> y < i
      BY <1>1, <2>3
    <3> QED
      BY <3>1
  <2>5. j \in T /\ ~ (i <= j)
    BY <2>1, <2>4
  <2> QED
    BY <1>5, <2>5
<1> QED
  BY <1>5, <1>6 DEF Place

-----------------------------------------------------------------------------
(* Slots: f[d] of them belong to d, and <<d, n>> stands for the n-th.      *)

Tokens(f, D, N) == {t \in D \X (1 .. N) : t[2] <= f[t[1]]}

LEMMA OwnTokens ==
    ASSUME NEW d, NEW k \in Nat
    PROVE  IsFiniteSet({d} \X (1 .. k)) /\ Cardinality({d} \X (1 .. k)) = k
<1>1. IsFiniteSet({d}) /\ Cardinality({d}) = 1
  BY FS_Singleton
<1>2. IsFiniteSet(1 .. k) /\ Cardinality(1 .. k) = k
  <2>1. 1 \in Int /\ k \in Int
    OBVIOUS
  <2> QED
    BY <2>1, FS_Interval
<1>3. /\ IsFiniteSet({d} \X (1 .. k))
      /\ Cardinality({d} \X (1 .. k)) = Cardinality({d}) * Cardinality(1 .. k)
  BY <1>1, <1>2, FS_Product
<1> QED
  BY <1>1, <1>2, <1>3

LEMMA TokensFinite ==
    ASSUME NEW D, IsFiniteSet(D), NEW N \in Nat, NEW f
    PROVE  IsFiniteSet(Tokens(f, D, N)) /\ Cardinality(Tokens(f, D, N)) \in Nat
<1>1. 1 \in Int /\ N \in Int
  OBVIOUS
<1>2. IsFiniteSet(1 .. N)
  BY <1>1, FS_Interval
<1>3. IsFiniteSet(D \X (1 .. N))
  BY <1>2, FS_Product
<1>4. Tokens(f, D, N) \in SUBSET (D \X (1 .. N))
  BY DEF Tokens
<1>5. IsFiniteSet(Tokens(f, D, N))
  BY <1>3, <1>4, FS_Subset
<1> QED
  BY <1>5, FS_CardinalityType

LEMMA TokensOfNobody ==
    ASSUME NEW D, NEW N \in Nat, NEW f, \A d \in D : f[d] = 0
    PROVE  Cardinality(Tokens(f, D, N)) = 0
<1>1. Tokens(f, D, N) = {}
  BY DEF Tokens
<1> QED
  BY <1>1, FS_EmptySet

LEMMA TokensBound ==
    ASSUME NEW D, IsFiniteSet(D), NEW N \in Nat, NEW f \in [D -> 0 .. N], NEW d \in D
    PROVE  f[d] <= Cardinality(Tokens(f, D, N))
<1>1. f[d] \in Nat
  OBVIOUS
<1>2. {d} \X (1 .. f[d]) \in SUBSET Tokens(f, D, N)
  <2>1. ASSUME NEW t \in {d} \X (1 .. f[d]) PROVE t \in Tokens(f, D, N)
    BY DEF Tokens
  <2> QED
    BY <2>1
<1>3. Cardinality({d} \X (1 .. f[d])) <= Cardinality(Tokens(f, D, N))
  BY <1>2, TokensFinite, FS_Subset
<1> QED
  BY <1>1, <1>3, OwnTokens

LEMMA TokensChange ==
    ASSUME NEW D, IsFiniteSet(D), NEW N \in Nat, NEW f \in [D -> 0 .. N],
           NEW d \in D, NEW m \in 0 .. N, NEW g \in [D -> 0 .. N],
           g[d] = m, \A e \in D : e # d => g[e] = f[e]
    PROVE  Cardinality(Tokens(g, D, N)) = Cardinality(Tokens(f, D, N)) - f[d] + m
<1> DEFINE R == {t \in Tokens(f, D, N) : t[1] # d}
           Mine(k) == {d} \X (1 .. k)
<1>1. f[d] \in 0 .. N
  OBVIOUS
<1>2. Tokens(f, D, N) = R \cup Mine(f[d])
  BY <1>1 DEF Tokens
<1>3. Tokens(g, D, N) = R \cup Mine(m)
  BY <1>1 DEF Tokens
<1>4. IsFiniteSet(R) /\ Cardinality(R) \in Nat
  <2>1. R \in SUBSET Tokens(f, D, N)
    OBVIOUS
  <2>2. IsFiniteSet(R)
    BY <2>1, TokensFinite, FS_Subset
  <2> QED
    BY <2>2, FS_CardinalityType
<1>5. ASSUME NEW k \in 0 .. N
      PROVE  Cardinality(R \cup Mine(k)) = Cardinality(R) + k
  <2> DEFINE M == Mine(k)
  <2>1. R \cap M = {}
    OBVIOUS
  <2>2. IsFiniteSet(M) /\ Cardinality(M) = k /\ k \in Nat
    <3>1. k \in Nat
      OBVIOUS
    <3> QED
      BY <3>1, OwnTokens
  <2> HIDE DEF R, M
  <2>3. Cardinality(R \cup M) = Cardinality(R) + Cardinality(M) - Cardinality(R \cap M)
    BY <1>4, <2>2, FS_Union
  <2>4. Cardinality(R \cap M) = 0
    BY <2>1, FS_EmptySet
  <2>5. Cardinality(R \cup M) = Cardinality(R) + k
    BY <1>4, <2>2, <2>3, <2>4
  <2> QED
    BY <2>5 DEF M
<1>6. /\ Cardinality(Tokens(f, D, N)) = Cardinality(R) + f[d]
      /\ Cardinality(Tokens(g, D, N)) = Cardinality(R) + m
  <2> HIDE DEF R, Mine
  <2> QED
    BY <1>1, <1>2, <1>3, <1>5
<1> HIDE DEF R
<1> QED
  BY <1>1, <1>4, <1>6
-----------------------------------------------------------------------------
(* The inductive invariant.                                                *)

Phases == {"first", "out0", "run", "out", "stopWorkers", "dropPrefetch", "over"}
Streaming == {"run", "out"}
Fetching == FetchStates \cup {"alt"}
Paying == Fetching \cup {"ahead"}
Busy == Paying \cup {"slot"}
WorkerStates == Busy \cup WorkerEnded \cup {None, "new"}
AheadStates == AheadEnded \cup FetchStates \cup {"line"}

WorkShapes ==
    /\ worker \in [Downloads -> [Workers -> WorkerStates]]
    /\ chunk \in [Downloads -> [Workers -> Files]]
    /\ next \in [Downloads -> 1 .. Chunks + 1]
    /\ listed \in [Downloads -> SUBSET Parts]
    /\ bufHeld \in [Downloads -> Nat]

Shapes ==
    /\ phase \in [Downloads -> Phases]
    /\ result \in [Downloads -> {None, "done", "failed", "closed"}]
    /\ pool \in [Downloads -> {"wait", "ready", "failed"}]
    /\ ahead \in [Downloads -> [Parts -> AheadStates]]
    /\ at \in [Downloads -> 0 .. Chunks + 1]
    /\ received \in [Downloads -> SUBSET Parts]
    /\ written \in [Downloads -> SUBSET Files]
    /\ cut \in [Downloads -> SUBSET Files]
    /\ reported \in [Downloads -> Nat]
    /\ preHeld \in [Downloads -> Nat]
    /\ WorkShapes

Balance == [d \in Downloads |-> Held(d)]

SlotsOK ==
    /\ free \in Nat
    /\ \A d \in Downloads : Held(d) <= Slots
    /\ free + Cardinality(Counted(Balance)) = Slots

\* A task that is in the line waits for a slot, and is there once.
Waiters == (Downloads \X {"worker"} \X Workers) \cup (Downloads \X {"ahead"} \X Parts)
Waits(x) ==
    \/ x[2] = "worker" /\ worker[x[1]][x[3]] = "slot"
    \/ x[2] = "ahead" /\ ahead[x[1]][x[3]] = "line"

LineOK ==
    /\ line \in Seq(Waiters)
    /\ \A i \in DOMAIN line : Waits(line[i])
    /\ \A i, j \in DOMAIN line : line[i] = line[j] => i = j

\* What there is, and is not yet, at each stage of the generator.
StageOK(d) ==
    /\ phase[d] \in {"first", "out0"} =>
          /\ next[d] = 1 /\ received[d] = {} /\ bufHeld[d] = 0
          /\ \A w \in Workers : worker[d][w] = None
    /\ phase[d] = "first" => at[d] = 0 /\ written[d] = {}
    /\ phase[d] \in Streaming => at[d] \in Parts
    /\ phase[d] = "out0" => at[d] = 1
    /\ phase[d] \in Streaming => \A w \in Workers : worker[d][w] \notin {None, "cancelled"}
    /\ phase[d] \in {"dropPrefetch", "over"} =>
          /\ bufHeld[d] = 0
          /\ \A w \in Workers : worker[d][w] \in WorkerEnded \cup {None}
    /\ phase[d] \in Streaming \cup {"first", "out0"} =>
          /\ result[d] # "done"
          /\ \A k \in Parts : ahead[d][k] # "cancelled"
    /\ ahead[d][1] = None =>
          /\ preHeld[d] = 0 /\ listed[d] = {}
          /\ phase[d] \notin Streaming \cup {"stopWorkers"}
          /\ \A k \in Parts : ahead[d][k] = None
    /\ IF d \in ToFile THEN received[d] = {} /\ at[d] <= 1 /\ phase[d] # "out"
                       ELSE written[d] = {}

\* The chunks that have arrived: in the file, waiting for the consumer, or with it.
Got(d) == {k \in Parts : \/ k \in written[d] \cup received[d]
                         \/ k < at[d]
                         \/ k = at[d] /\ phase[d] = "out"}

\* A chunk is with one worker, or has arrived, or is still in the queue; its
\* fetch_ahead() is over before another attempt is made and when it has arrived.
ChunksOK(d) ==
    /\ \A w \in Workers : worker[d][w] \in Busy =>
          /\ chunk[d][w] \in 1 .. next[d] - 1
          /\ chunk[d][w] \notin Got(d)
          /\ worker[d][w] \in Fetching => ahead[d][chunk[d][w]] \in AheadEnded
          /\ worker[d][w] = "ahead" => ahead[d][chunk[d][w]] # None
    /\ \A v, w \in Workers :
          worker[d][v] \in Busy /\ worker[d][w] \in Busy /\ chunk[d][v] = chunk[d][w] => v = w
    /\ \A k \in Got(d) : k < next[d] /\ ahead[d][k] \in AheadEnded
    /\ listed[d] \subseteq next[d] .. Chunks
    /\ \A k \in listed[d] : ahead[d][k] # None
    /\ phase[d] # "over" => \A k \in (next[d] .. Chunks) \ listed[d] : ahead[d][k] = None

\* While the consumer is served, no chunk is lost and no short one was passed over.
StreamOK(d) ==
    d \notin ToFile /\ phase[d] \in Streaming =>
        /\ \A k \in 1 .. next[d] - 1 :
              \/ k \in Got(d) \/ Raised(d)
              \/ \E w \in Workers : worker[d][w] \in Busy /\ chunk[d][w] = k
        /\ \A k \in cut[d] : k >= at[d]
        /\ \A w \in Workers : worker[d][w] = "done" =>
              \/ next[d] = Chunks + 1
              \/ chunk[d][w] \in cut[d] /\ chunk[d][w] < next[d]

ResultOK(d) ==
    IF d \in ToFile
    THEN /\ reported[d] = Chunks + 1 => written[d] = Files /\ cut[d] = {}
         /\ Over(d) /\ result[d] = "done" => reported[d] = Chunks + 1
    ELSE result[d] = "done" => at[d] = Chunks + 1 \/ at[d] - 1 \in cut[d]

\* Prefetched chunks that hold a slot and are not taken; workers that hold one.
Kept(d) == {k \in Parts : ahead[d][k] \notin {None, "line", "cancelled"} /\ Untaken(d, k)}
Payers(d) == {w \in Workers : worker[d][w] \in Paying}

PaidOK(d) ==
    /\ phase[d] \in Streaming \cup {"first", "out0"} =>
          /\ Cardinality(Kept(d)) <= preHeld[d]
          /\ Cardinality(received[d]) + Cardinality(Payers(d)) <= bufHeld[d]
    /\ Over(d) /\ Parts \subseteq Got(d) => preHeld[d] = 0

DownloadOK(d) == StageOK(d) /\ ChunksOK(d) /\ StreamOK(d) /\ ResultOK(d) /\ PaidOK(d)

IInv == Shapes /\ SlotsOK /\ LineOK /\ \A d \in Downloads : DownloadOK(d)

-----------------------------------------------------------------------------
(* The line.                                                               *)

\* Those that are left are in the line as before, once each.
LEMMA WithoutIs ==
    ASSUME NEW S, line \in Seq(S), NEW gone
    PROVE  /\ Without(gone) \in Seq(S)
           /\ \A n \in DOMAIN Without(gone) :
                 \E i \in DOMAIN line : Without(gone)[n] = line[i] /\ line[i] \notin gone
           /\ (\A i, j \in DOMAIN line : line[i] = line[j] => i = j)
                 => \A n, m \in DOMAIN Without(gone) :
                       Without(gone)[n] = Without(gone)[m] => n = m
<1> DEFINE left == {i \in DOMAIN line : line[i] \notin gone}
           size == Cardinality(left)
           Origin(n) == CHOOSE i \in left : Place(left, i) = n
<1>1. DOMAIN line = 1 .. Len(line) /\ Len(line) \in Nat
  BY LenProperties
<1>2. left \in SUBSET (1 .. Len(line)) /\ size \in Nat
  <2>1. left \in SUBSET (1 .. Len(line))
    BY <1>1
  <2>2. 1 \in Int /\ Len(line) \in Int
    BY <1>1
  <2> QED
    BY <2>1, <2>2, FS_Interval, FS_Subset, FS_CardinalityType
<1>3. Without(gone) = [n \in 1 .. size |-> line[Origin(n)]]
  BY DEF Without, Place
<1>4. ASSUME NEW n \in 1 .. size
      PROVE  Origin(n) \in left /\ Place(left, Origin(n)) = n
  <2>1. \E i \in left : Place(left, i) = n
    <3> HIDE DEF left
    <3> QED
      BY <1>1, <1>2, PlacesAreFilled
  <2> QED
    BY <2>1
<1>5. ASSUME NEW n \in 1 .. size PROVE line[Origin(n)] \in S
  BY <1>1, <1>4, ElementOfSeq
<1> HIDE DEF left, size, Origin
<1>6. Without(gone) \in Seq(S)
  BY <1>2, <1>3, <1>5, IsASeq
<1>7. DOMAIN Without(gone) = 1 .. size
  BY <1>3
<1>8. \A n \in 1 .. size : Without(gone)[n] = line[Origin(n)]
  BY <1>3
<1>9. \A n \in 1 .. size : Origin(n) \in DOMAIN line /\ line[Origin(n)] \notin gone
  BY <1>4 DEF left
<1>10. ASSUME \A i, j \in DOMAIN line : line[i] = line[j] => i = j,
              NEW n \in 1 .. size, NEW m \in 1 .. size, Without(gone)[n] = Without(gone)[m]
       PROVE  n = m
  BY <1>4, <1>8, <1>9, <1>10
<1> QED
  BY <1>6, <1>7, <1>8, <1>9, <1>10

\* A task joins the line, the first one leaves it.
LEMMA JoinsOnce ==
    ASSUME NEW S, line \in Seq(S), NEW x \in S, \A i \in DOMAIN line : line[i] # x,
           \A i, j \in DOMAIN line : line[i] = line[j] => i = j
    PROVE  /\ Append(line, x) \in Seq(S)
           /\ \A i \in DOMAIN Append(line, x) :
                 Append(line, x)[i] = x \/ \E j \in DOMAIN line : Append(line, x)[i] = line[j]
           /\ \A i, j \in DOMAIN Append(line, x) :
                 Append(line, x)[i] = Append(line, x)[j] => i = j
<1>1. /\ DOMAIN line = 1 .. Len(line) /\ Len(line) \in Nat
      /\ Append(line, x) \in Seq(S) /\ Len(Append(line, x)) = Len(line) + 1
      /\ DOMAIN Append(line, x) = 1 .. Len(line) + 1
      /\ \A i \in 1 .. Len(line) : Append(line, x)[i] = line[i]
      /\ Append(line, x)[Len(line) + 1] = x
  BY LenProperties, AppendProperties
<1>2. \A i \in 1 .. Len(line) + 1 : i \in 1 .. Len(line) \/ i = Len(line) + 1
  BY <1>1
<1> QED
  BY <1>1, <1>2

LEMMA LeavesOnce ==
    ASSUME NEW S, line \in Seq(S), line # <<>>,
           \A i, j \in DOMAIN line : line[i] = line[j] => i = j
    PROVE  /\ Tail(line) \in Seq(S)
           /\ Head(line) \in S /\ \E i \in DOMAIN line : line[i] = Head(line)
           /\ \A i \in DOMAIN Tail(line) : /\ Tail(line)[i] # Head(line)
                                           /\ \E j \in DOMAIN line : Tail(line)[i] = line[j]
           /\ \A i, j \in DOMAIN Tail(line) : Tail(line)[i] = Tail(line)[j] => i = j
<1>1. /\ DOMAIN line = 1 .. Len(line) /\ Len(line) \in Nat /\ Len(line) >= 1
      /\ Tail(line) \in Seq(S) /\ Len(Tail(line)) = Len(line) - 1
      /\ DOMAIN Tail(line) = 1 .. Len(line) - 1
      /\ \A i \in 1 .. Len(line) - 1 : Tail(line)[i] = line[i + 1]
      /\ Head(line) = line[1] /\ Head(line) \in S
  <2>1. Len(line) \in Nat /\ Len(line) # 0
    BY LenProperties, EmptySeq
  <2> QED
    BY <2>1, LenProperties, HeadTailProperties
<1>2. \A i \in 1 .. Len(line) - 1 : i + 1 \in 1 .. Len(line) /\ i + 1 # 1
  BY <1>1
<1>3. 1 \in 1 .. Len(line)
  BY <1>1
<1>4. ASSUME NEW i \in 1 .. Len(line) - 1
      PROVE  Tail(line)[i] # Head(line) /\ \E j \in DOMAIN line : Tail(line)[i] = line[j]
  BY <1>1, <1>2, <1>3
<1>5. ASSUME NEW i \in 1 .. Len(line) - 1, NEW j \in 1 .. Len(line) - 1,
             Tail(line)[i] = Tail(line)[j]
      PROVE  i = j
  <2>1. i + 1 = j + 1
    BY <1>1, <1>2, <1>5
  <2> QED
    BY <2>1
<1> QED
  BY <1>1, <1>3, <1>4, <1>5

-----------------------------------------------------------------------------
(* Types, and what a step leaves alone.                                    *)

LEMMA Numbers ==
    /\ Chunks \in Nat /\ Chunks >= 1 /\ Slots \in Nat /\ Prefetch \in 1 .. Chunks
    /\ Parts \subseteq Nat /\ Files \subseteq Nat /\ Parts \subseteq Files /\ 0 \in Files
    /\ Parts = 1 .. Chunks /\ Files = 0 .. Chunks /\ 1 \in Parts
BY DownloadParameters DEF Parts, Files

SameWork(e) ==
    /\ worker'[e] = worker[e] /\ chunk'[e] = chunk[e] /\ next'[e] = next[e]
    /\ listed'[e] = listed[e] /\ bufHeld'[e] = bufHeld[e]

Same(e) ==
    /\ phase'[e] = phase[e] /\ result'[e] = result[e]
    /\ at'[e] = at[e] /\ reported'[e] = reported[e]
    /\ received'[e] = received[e] /\ written'[e] = written[e] /\ cut'[e] = cut[e]
    /\ ahead'[e] = ahead[e] /\ preHeld'[e] = preHeld[e]
    /\ SameWork(e)

\* A step of one download.
Own(d) == Shapes' /\ \A e \in Downloads : e # d => Same(e)

LEMMA WorkerMoves ==
    ASSUME Shapes, NEW d \in Downloads, NEW w \in Workers, NEW s \in WorkerStates,
           BecomeWorker(d, w, s)
    PROVE  /\ worker' \in [Downloads -> [Workers -> WorkerStates]]
           /\ worker'[d][w] = s
           /\ \A v \in Workers : v # w => worker'[d][v] = worker[d][v]
           /\ \A e \in Downloads : e # d => worker'[e] = worker[e]
BY DEF Shapes, WorkShapes, BecomeWorker

LEMMA AheadMoves ==
    ASSUME Shapes, NEW d \in Downloads, NEW k \in Parts, NEW s \in AheadStates,
           BecomeAhead(d, k, s)
    PROVE  /\ ahead' \in [Downloads -> [Parts -> AheadStates]]
           /\ ahead'[d][k] = s
           /\ \A j \in Parts : j # k => ahead'[d][j] = ahead[d][j]
           /\ \A e \in Downloads : e # d => ahead'[e] = ahead[e]
BY DEF Shapes, BecomeAhead

\* A worker that has nothing to do ends, or takes the next chunk.
TakesNext(d, w, n, h) ==
    /\ next[d] \in Parts /\ next'[d] = next[d] + 1
    /\ chunk'[d][w] = next[d]
    /\ \A v \in Workers : v # w => chunk'[d][v] = chunk[d][v]
    /\ listed'[d] = listed[d] \ {next[d]}
    /\ \/ /\ worker'[d][w] = IF next[d] \in listed[d] THEN "ahead" ELSE "fetch"
          /\ n > 0 /\ free' = n - 1 /\ bufHeld'[d] = h + 1 /\ line' = line
       \/ /\ worker'[d][w] = "slot"
          /\ free' = n /\ bufHeld'[d] = h /\ line' = Append(line, <<d, "worker", w>>)

EndsWork(d, w, n, h) ==
    /\ next[d] = Chunks + 1 /\ worker'[d][w] = "done"
    /\ next'[d] = next[d] /\ chunk'[d] = chunk[d] /\ listed'[d] = listed[d]
    /\ free' = n /\ bufHeld'[d] = h /\ line' = line

LEMMA TakeChunkIs ==
    ASSUME Shapes, NEW d \in Downloads, NEW w \in Workers, NEW n \in Nat, NEW h \in Nat,
           TakeChunk(d, w, n, h)
    PROVE  /\ TakesNext(d, w, n, h) \/ EndsWork(d, w, n, h)
           /\ \A v \in Workers : v # w => worker'[d][v] = worker[d][v]
           /\ WorkShapes' /\ \A e \in Downloads : e # d => SameWork(e)
<1>1. /\ next[d] \in 1 .. Chunks + 1 /\ next \in [Downloads -> 1 .. Chunks + 1]
      /\ chunk \in [Downloads -> [Workers -> Files]] /\ listed \in [Downloads -> SUBSET Parts]
      /\ bufHeld \in [Downloads -> Nat] /\ Chunks \in Nat
  BY Numbers DEF Shapes, WorkShapes
<1>2. CASE next[d] > Chunks
  <2>1. /\ BecomeWorker(d, w, "done") /\ free' = n
        /\ bufHeld' = [bufHeld EXCEPT ![d] = h] /\ UNCHANGED <<line, listed, chunk, next>>
    BY <1>2 DEF TakeChunk
  <2>2. next[d] = Chunks + 1
    BY <1>1, <1>2
  <2> QED
    BY <1>1, <2>1, <2>2, WorkerMoves DEF EndsWork, WorkShapes, SameWork,  WorkerStates, WorkerEnded
<1>3. CASE ~ (next[d] > Chunks)
  <2>1. /\ next' = [next EXCEPT ![d] = next[d] + 1]
        /\ chunk' = [chunk EXCEPT ![d][w] = next[d]]
        /\ listed' = [listed EXCEPT ![d] = listed[d] \ {next[d]}]
    BY <1>3 DEF TakeChunk
  <2>2. next[d] \in Parts /\ next[d] \in Files /\ next[d] + 1 \in 1 .. Chunks + 1
    BY <1>1, <1>3, Numbers
  <2>3. /\ next' \in [Downloads -> 1 .. Chunks + 1] /\ next'[d] = next[d] + 1
        /\ chunk' \in [Downloads -> [Workers -> Files]] /\ chunk'[d][w] = next[d]
        /\ \A v \in Workers : v # w => chunk'[d][v] = chunk[d][v]
        /\ \A e \in Downloads : e # d => chunk'[e] = chunk[e] /\ next'[e] = next[e]
    BY <1>1, <2>1, <2>2
  <2>4. /\ listed' \in [Downloads -> SUBSET Parts] /\ listed'[d] = listed[d] \ {next[d]}
        /\ \A e \in Downloads : e # d => listed'[e] = listed[e]
    BY <1>1, <2>1
  <2>5. \/ /\ BecomeWorker(d, w, IF next[d] \in listed[d] THEN "ahead" ELSE "fetch")
           /\ n > 0 /\ free' = n - 1 /\ line' = line
           /\ bufHeld' = [bufHeld EXCEPT ![d] = h + 1]
        \/ /\ BecomeWorker(d, w, "slot")
           /\ free' = n /\ line' = Append(line, <<d, "worker", w>>)
           /\ bufHeld' = [bufHeld EXCEPT ![d] = h]
    BY <1>3 DEF TakeChunk, Uncontended
  <2>6. ASSUME NEW s \in {"ahead", "fetch", "slot"}, BecomeWorker(d, w, s)
        PROVE  /\ worker' \in [Downloads -> [Workers -> WorkerStates]] /\ worker'[d][w] = s
               /\ \A v \in Workers : v # w => worker'[d][v] = worker[d][v]
               /\ \A e \in Downloads : e # d => worker'[e] = worker[e]
    BY <2>6, WorkerMoves DEF WorkerStates, Busy, Paying, Fetching, FetchStates
  <2>7. ASSUME NEW g \in Nat, bufHeld' = [bufHeld EXCEPT ![d] = g]
        PROVE  /\ bufHeld' \in [Downloads -> Nat] /\ bufHeld'[d] = g
               /\ \A e \in Downloads : e # d => bufHeld'[e] = bufHeld[e]
    BY <1>1, <2>7
  <2>8. CASE /\ BecomeWorker(d, w, IF next[d] \in listed[d] THEN "ahead" ELSE "fetch")
             /\ n > 0 /\ free' = n - 1 /\ line' = line
             /\ bufHeld' = [bufHeld EXCEPT ![d] = h + 1]
    <3>1. h + 1 \in Nat
      OBVIOUS
    <3> QED
      BY <2>2, <2>3, <2>4, <2>6, <2>7, <2>8, <3>1 DEF TakesNext, WorkShapes, SameWork
  <2>9. CASE /\ BecomeWorker(d, w, "slot")
             /\ free' = n /\ line' = Append(line, <<d, "worker", w>>)
             /\ bufHeld' = [bufHeld EXCEPT ![d] = h]
    BY <2>2, <2>3, <2>4, <2>6, <2>7, <2>9 DEF TakesNext, WorkShapes, SameWork
  <2> QED
    BY <2>5, <2>8, <2>9
<1> QED
  BY <1>2, <1>3

LEMMA GivenIs ==
    ASSUME NEW h \in Nat
    PROVE  /\ Given(h) \in Nat /\ h - Given(h) \in Nat /\ Given(h) <= h /\ Given(h) <= 1
           /\ h > 0 => Given(h) = 1
BY DEF Given

\* A worker's chunk has arrived, and b slots are given back.
ArrivesAt(d, w, n, short) ==
    LET k == chunk[d][w]
        b == IF d \in ToFile THEN Given(bufHeld[d]) ELSE 0
        h == bufHeld[d] - b
    IN  /\ b \in Nat /\ h \in Nat
        /\ IF d \in ToFile
           THEN written'[d] = written[d] \cup {k} /\ received'[d] = received[d]
           ELSE received'[d] = received[d] \cup {k} /\ written'[d] = written[d]
        /\ IF short
           THEN /\ worker'[d][w] = "done" /\ next'[d] = next[d]
                /\ chunk'[d] = chunk[d] /\ listed'[d] = listed[d] /\ line' = line
                /\ free' = n + b /\ bufHeld'[d] = h
           ELSE TakesNext(d, w, n + b, h) \/ EndsWork(d, w, n + b, h)

LEMMA ChunkArrivesIs ==
    ASSUME Shapes, NEW d \in Downloads, NEW w \in Workers, chunk[d][w] \in Parts,
           NEW n \in Nat, NEW short \in BOOLEAN, ChunkArrives(d, w, n, short)
    PROVE  /\ ArrivesAt(d, w, n, short)
           /\ \A v \in Workers : v # w => worker'[d][v] = worker[d][v]
           /\ WorkShapes'
           /\ written' \in [Downloads -> SUBSET Files]
           /\ received' \in [Downloads -> SUBSET Parts]
           /\ \A e \in Downloads : e # d =>
                 SameWork(e) /\ written'[e] = written[e] /\ received'[e] = received[e]
<1> DEFINE b == IF d \in ToFile THEN Given(bufHeld[d]) ELSE 0
           h == bufHeld[d] - b
           m == n + b
<1>1. b \in Nat /\ h \in Nat /\ m \in Nat
  <2>1. bufHeld[d] \in Nat
    BY DEF Shapes, WorkShapes
  <2>2. Given(bufHeld[d]) \in Nat /\ bufHeld[d] - Given(bufHeld[d]) \in Nat
    BY <2>1, GivenIs
  <2> QED
    BY <2>1, <2>2
<1>2. /\ IF d \in ToFile
         THEN /\ written' = [written EXCEPT ![d] = written[d] \cup {chunk[d][w]}]
              /\ received' = received
         ELSE /\ received' = [received EXCEPT ![d] = received[d] \cup {chunk[d][w]}]
              /\ written' = written
      /\ IF short
         THEN /\ BecomeWorker(d, w, "done") /\ free' = m
              /\ bufHeld' = [bufHeld EXCEPT ![d] = h]
              /\ UNCHANGED <<line, listed, chunk, next>>
         ELSE TakeChunk(d, w, m, h)
  <2>1. n + 0 = n /\ bufHeld[d] - 0 = bufHeld[d]
    BY DEF Shapes, WorkShapes
  <2>2. CASE d \in ToFile
    BY <2>2 DEF ChunkArrives
  <2>3. CASE d \notin ToFile
    BY <2>1, <2>3 DEF ChunkArrives
  <2> QED
    BY <2>2, <2>3
<1>3. /\ written[d] \cup {chunk[d][w]} \in SUBSET Files
      /\ received[d] \cup {chunk[d][w]} \in SUBSET Parts
  BY Numbers DEF Shapes
<1>4. /\ written' \in [Downloads -> SUBSET Files]
      /\ received' \in [Downloads -> SUBSET Parts]
      /\ \A e \in Downloads : e # d => written'[e] = written[e] /\ received'[e] = received[e]
      /\ IF d \in ToFile
         THEN written'[d] = written[d] \cup {chunk[d][w]} /\ received'[d] = received[d]
         ELSE received'[d] = received[d] \cup {chunk[d][w]} /\ written'[d] = written[d]
  BY <1>2, <1>3 DEF Shapes
<1>5. CASE short
  <2> HIDE DEF b, h, m
  <2>1. /\ worker' \in [Downloads -> [Workers -> WorkerStates]]
        /\ worker'[d][w] = "done"
        /\ \A v \in Workers : v # w => worker'[d][v] = worker[d][v]
        /\ \A e \in Downloads : e # d => worker'[e] = worker[e]
    BY <1>2, <1>5, WorkerMoves DEF WorkerStates, WorkerEnded
  <2>2. /\ bufHeld' \in [Downloads -> Nat] /\ bufHeld'[d] = h
        /\ \A e \in Downloads : e # d => bufHeld'[e] = bufHeld[e]
    BY <1>1, <1>2, <1>5 DEF Shapes, WorkShapes
  <2>3. WorkShapes' /\ \A e \in Downloads : e # d => SameWork(e)
    BY <1>2, <1>5, <2>1, <2>2 DEF Shapes, WorkShapes, SameWork
  <2>4. ArrivesAt(d, w, n, short)
    BY <1>1, <1>2, <1>4, <1>5, <2>1, <2>2 DEF ArrivesAt, b, h, m
  <2> QED
    BY <1>4, <2>1, <2>3, <2>4
<1>6. CASE ~short
  <2>1. TakesNext(d, w, m, h) \/ EndsWork(d, w, m, h)
    <3> HIDE DEF b, h, m
    <3> QED
      BY <1>1, <1>2, <1>6, TakeChunkIs
  <2>2. /\ \A v \in Workers : v # w => worker'[d][v] = worker[d][v]
        /\ WorkShapes' /\ \A e \in Downloads : e # d => SameWork(e)
    <3> HIDE DEF b, h, m
    <3> QED
      BY <1>1, <1>2, <1>6, TakeChunkIs
  <2>3. ArrivesAt(d, w, n, short)
    BY <1>1, <1>4, <1>6, <2>1 DEF ArrivesAt
  <2> QED
    BY <1>4, <2>2, <2>3
<1> QED
  BY <1>5, <1>6

-----------------------------------------------------------------------------
(* What the steps of a worker do.                                          *)

\* A worker that awaited the fetch_ahead() of its chunk gives the slot of it back.
Repays(d, w) ==
    IF worker[d][w] = "ahead"
    THEN /\ ahead[d][chunk[d][w]] \in AheadEnded
         /\ preHeld'[d] = preHeld[d] - Given(preHeld[d])
    ELSE preHeld'[d] = preHeld[d]

SameWritten(d) == written'[d] = written[d] /\ received'[d] = received[d]

Begins(d, w) ==
    /\ worker[d][w] = "new" /\ preHeld'[d] = preHeld[d]
    /\ SameWritten(d) /\ cut'[d] = cut[d]
    /\ TakesNext(d, w, free, bufHeld[d]) \/ EndsWork(d, w, free, bufHeld[d])

\* It stays with its chunk, or raises.
Retries(d, w) ==
    /\ worker[d][w] \in Paying /\ Repays(d, w)
    /\ worker'[d][w] \in Fetching \cup {"failed"}
    /\ SameWritten(d) /\ cut'[d] = cut[d] /\ line' = line
    /\ chunk'[d] = chunk[d] /\ next'[d] = next[d] /\ listed'[d] = listed[d]
    /\ \/ bufHeld'[d] = bufHeld[d]
       \/ worker'[d][w] = "failed" /\ bufHeld'[d] = bufHeld[d] - Given(bufHeld[d])
    /\ free' \in Nat
    /\ free' + preHeld'[d] + bufHeld'[d] = free + preHeld[d] + bufHeld[d]

Arrives(d, w) ==
    /\ worker[d][w] \in Paying /\ Repays(d, w)
    /\ cut'[d] \in {cut[d], cut[d] \cup {chunk[d][w]}}
    /\ \E n \in Nat : /\ n + preHeld'[d] = free + preHeld[d]
                      /\ \E short \in BOOLEAN : /\ ArrivesAt(d, w, n, short)
                                                /\ short => chunk[d][w] \in cut'[d]

WorkerStep(d, w) ==
    /\ phase'[d] = phase[d] /\ result'[d] = result[d]
    /\ at'[d] = at[d] /\ reported'[d] = reported[d] /\ ahead'[d] = ahead[d]
    /\ \A v \in Workers : v # w => worker'[d][v] = worker[d][v]
    /\ Begins(d, w) \/ Retries(d, w) \/ Arrives(d, w)

\* Retries: the worker stays with its chunk, and may give its slot back.
LEMMA RetriesIs ==
    ASSUME Shapes, NEW d \in Downloads, NEW w \in Workers,
           NEW s \in Fetching \cup {"failed"}, BecomeWorker(d, w, s),
           NEW n \in Nat, UNCHANGED <<line, listed, chunk, next, received, written>>,
           \/ free' = n /\ bufHeld' = bufHeld
           \/ /\ s = "failed" /\ free' = n + Given(bufHeld[d])
              /\ bufHeld' = [bufHeld EXCEPT ![d] = bufHeld[d] - Given(bufHeld[d])]
    PROVE  /\ WorkShapes' /\ \A e \in Downloads : e # d => SameWork(e)
           /\ worker'[d][w] = s
           /\ \A v \in Workers : v # w => worker'[d][v] = worker[d][v]
           /\ free' \in Nat /\ free' + bufHeld'[d] = n + bufHeld[d]
           /\ \/ bufHeld'[d] = bufHeld[d]
              \/ worker'[d][w] = "failed" /\ bufHeld'[d] = bufHeld[d] - Given(bufHeld[d])
<1>1. s \in WorkerStates
  BY DEF WorkerStates, WorkerEnded, Busy, Paying
<1>2. /\ worker' \in [Downloads -> [Workers -> WorkerStates]]
      /\ worker'[d][w] = s
      /\ \A v \in Workers : v # w => worker'[d][v] = worker[d][v]
      /\ \A e \in Downloads : e # d => worker'[e] = worker[e]
  BY <1>1, WorkerMoves
<1>3. /\ bufHeld[d] \in Nat /\ bufHeld \in [Downloads -> Nat]
      /\ Given(bufHeld[d]) \in Nat /\ bufHeld[d] - Given(bufHeld[d]) \in Nat
  BY GivenIs DEF Shapes, WorkShapes
<1>4. /\ bufHeld' \in [Downloads -> Nat]
      /\ \A e \in Downloads : e # d => bufHeld'[e] = bufHeld[e]
      /\ free' \in Nat /\ free' + bufHeld'[d] = n + bufHeld[d]
      /\ \/ bufHeld'[d] = bufHeld[d]
         \/ s = "failed" /\ bufHeld'[d] = bufHeld[d] - Given(bufHeld[d])
  BY <1>3
<1> QED
  BY <1>2, <1>4 DEF Shapes, WorkShapes, SameWork

LEMMA RepaidIs ==
    ASSUME Shapes, free \in Nat, NEW d \in Downloads,
           preHeld' = [preHeld EXCEPT ![d] = preHeld[d] - Given(preHeld[d])]
    PROVE  /\ preHeld' \in [Downloads -> Nat]
           /\ preHeld'[d] = preHeld[d] - Given(preHeld[d])
           /\ \A e \in Downloads : e # d => preHeld'[e] = preHeld[e]
           /\ free + Given(preHeld[d]) \in Nat
           /\ free + Given(preHeld[d]) + preHeld'[d] = free + preHeld[d]
<1>1. /\ preHeld[d] \in Nat /\ preHeld \in [Downloads -> Nat]
      /\ Given(preHeld[d]) \in Nat /\ preHeld[d] - Given(preHeld[d]) \in Nat
  BY GivenIs DEF Shapes
<1> QED
  BY <1>1

LEMMA WorkerStartsIs ==
    ASSUME Shapes, free \in Nat, NEW d \in Downloads, NEW w \in Workers, WorkerStarts(d, w)
    PROVE  Own(d) /\ WorkerStep(d, w)
<1>1. /\ worker[d][w] = "new" /\ TakeChunk(d, w, free, bufHeld[d])
      /\ UNCHANGED <<phase, result, at, reported, pool, ahead, preHeld, received, written, cut>>
  BY DEF WorkerStarts, generator, data
<1>2. bufHeld[d] \in Nat
  BY DEF Shapes, WorkShapes
<1>3. /\ TakesNext(d, w, free, bufHeld[d]) \/ EndsWork(d, w, free, bufHeld[d])
      /\ \A v \in Workers : v # w => worker'[d][v] = worker[d][v]
      /\ WorkShapes' /\ \A e \in Downloads : e # d => SameWork(e)
  BY <1>1, <1>2, TakeChunkIs
<1> QED
  BY <1>1, <1>3 DEF Own, Same, Shapes, WorkerStep, Begins, SameWritten

LEMMA TakesAheadIs ==
    ASSUME Shapes, free \in Nat, NEW d \in Downloads, NEW w \in Workers,
           chunk[d][w] \in Parts, TakesAhead(d, w)
    PROVE  Own(d) /\ WorkerStep(d, w)
<1> DEFINE k == chunk[d][w]
           n == free + Given(preHeld[d])
<1>1. /\ worker[d][w] = "ahead" /\ ahead[d][k] \in AheadEnded
      /\ preHeld' = [preHeld EXCEPT ![d] = preHeld[d] - Given(preHeld[d])]
      /\ UNCHANGED <<phase, result, at, reported, pool, ahead, cut>>
      /\ \/ ChunkArrives(d, w, n, k \in cut[d])
         \/ /\ BecomeWorker(d, w, "alt") /\ free' = n
            /\ UNCHANGED <<line, bufHeld, listed, chunk, next, received, written>>
         \/ WorkerRaises(d, w, n)
  BY DEF TakesAhead, generator
<1>2. /\ preHeld' \in [Downloads -> Nat]
      /\ preHeld'[d] = preHeld[d] - Given(preHeld[d])
      /\ \A e \in Downloads : e # d => preHeld'[e] = preHeld[e]
      /\ n \in Nat /\ n + preHeld'[d] = free + preHeld[d]
  BY <1>1, RepaidIs
<1> HIDE DEF n
<1>3. Repays(d, w) /\ worker[d][w] \in Paying
  BY <1>1, <1>2 DEF Repays, Paying
<1>4. CASE ChunkArrives(d, w, n, k \in cut[d])
  <2>1. PICK short \in BOOLEAN : (short => k \in cut[d]) /\ ChunkArrives(d, w, n, short)
    <3>1. CASE k \in cut[d]
      <4>1. ChunkArrives(d, w, n, TRUE)
        BY <1>4, <3>1 DEF ChunkArrives
      <4> QED
        BY <3>1, <4>1
    <3>2. CASE k \notin cut[d]
      <4>1. ChunkArrives(d, w, n, FALSE)
        BY <1>4, <3>2 DEF ChunkArrives
      <4> QED
        BY <3>2, <4>1
    <3> QED
      BY <3>1, <3>2
  <2>2. /\ ArrivesAt(d, w, n, short)
        /\ \A v \in Workers : v # w => worker'[d][v] = worker[d][v]
        /\ WorkShapes'
        /\ written' \in [Downloads -> SUBSET Files]
        /\ received' \in [Downloads -> SUBSET Parts]
        /\ \A e \in Downloads : e # d =>
              SameWork(e) /\ written'[e] = written[e] /\ received'[e] = received[e]
    BY <1>2, <2>1, ChunkArrivesIs
  <2>3. Arrives(d, w)
    BY <1>1, <1>2, <1>3, <2>1, <2>2 DEF Arrives
  <2> QED
    BY <1>1, <1>2, <2>2, <2>3 DEF Own, Same, Shapes, WorkerStep
<1>5. CASE \/ /\ BecomeWorker(d, w, "alt") /\ free' = n
              /\ UNCHANGED <<line, bufHeld, listed, chunk, next, received, written>>
           \/ WorkerRaises(d, w, n)
  <2>1. \E s \in Fetching \cup {"failed"} :
           /\ BecomeWorker(d, w, s) /\ UNCHANGED <<line, listed, chunk, next, received, written>>
           /\ \/ free' = n /\ bufHeld' = bufHeld
              \/ /\ s = "failed" /\ free' = n + Given(bufHeld[d])
                 /\ bufHeld' = [bufHeld EXCEPT ![d] = bufHeld[d] - Given(bufHeld[d])]
    BY <1>5 DEF WorkerRaises, Fetching
  <2>2. /\ WorkShapes' /\ \A e \in Downloads : e # d => SameWork(e)
        /\ worker'[d][w] \in Fetching \cup {"failed"}
        /\ \A v \in Workers : v # w => worker'[d][v] = worker[d][v]
        /\ free' \in Nat /\ free' + bufHeld'[d] = n + bufHeld[d]
        /\ \/ bufHeld'[d] = bufHeld[d]
           \/ worker'[d][w] = "failed" /\ bufHeld'[d] = bufHeld[d] - Given(bufHeld[d])
    BY <1>2, <2>1, RetriesIs
  <2>3. free' + preHeld'[d] + bufHeld'[d] = free + preHeld[d] + bufHeld[d]
    <3>1. /\ preHeld[d] \in Nat /\ preHeld'[d] \in Nat
          /\ bufHeld[d] \in Nat /\ bufHeld'[d] \in Nat
      BY <1>2, <2>2 DEF Shapes, WorkShapes
    <3> QED
      BY <1>2, <2>2, <3>1
  <2>4. Retries(d, w)
    BY <1>1, <1>3, <1>5, <2>1, <2>2, <2>3 DEF Retries, SameWritten
  <2> QED
    BY <1>1, <1>2, <2>1, <2>2, <2>4 DEF Own, Same, Shapes, WorkerStep
<1> QED
  BY <1>1, <1>4, <1>5

LEMMA FetchedIs ==
    ASSUME Shapes, free \in Nat, NEW d \in Downloads, NEW w \in Workers,
           chunk[d][w] \in Parts, Fetched(d, w)
    PROVE  Own(d) /\ WorkerStep(d, w)
<1>1. /\ worker[d][w] \in {"fetch", "alt"}
      /\ UNCHANGED <<phase, result, at, reported, pool, ahead, preHeld>>
      /\ \E short \in BOOLEAN :
            /\ ChunkArrives(d, w, free, short)
            /\ IF short THEN cut' = [cut EXCEPT ![d] = cut[d] \cup {chunk[d][w]}] ELSE cut' = cut
  BY DEF Fetched, generator
<1>2. cut[d] \cup {chunk[d][w]} \in SUBSET Files
  BY Numbers DEF Shapes
<1>3. PICK short \in BOOLEAN :
            /\ ChunkArrives(d, w, free, short)
            /\ IF short THEN cut' = [cut EXCEPT ![d] = cut[d] \cup {chunk[d][w]}] ELSE cut' = cut
  BY <1>1
<1>4. /\ cut' \in [Downloads -> SUBSET Files] /\ \A e \in Downloads : e # d => cut'[e] = cut[e]
      /\ cut'[d] \in {cut[d], cut[d] \cup {chunk[d][w]}}
      /\ short => chunk[d][w] \in cut'[d]
  <2>1. cut \in [Downloads -> SUBSET Files]
    BY DEF Shapes
  <2>2. CASE short
    <3>1. cut' = [cut EXCEPT ![d] = cut[d] \cup {chunk[d][w]}]
      BY <1>3, <2>2
    <3> QED
      BY <1>2, <2>1, <3>1
  <2>3. CASE ~ short
    <3>1. cut' = cut
      BY <1>3, <2>3
    <3> QED
      BY <2>1, <2>3, <3>1
  <2> QED
    BY <2>2, <2>3
<1>5. /\ ArrivesAt(d, w, free, short)
      /\ \A v \in Workers : v # w => worker'[d][v] = worker[d][v]
      /\ WorkShapes'
      /\ written' \in [Downloads -> SUBSET Files]
      /\ received' \in [Downloads -> SUBSET Parts]
      /\ \A e \in Downloads : e # d =>
            SameWork(e) /\ written'[e] = written[e] /\ received'[e] = received[e]
  BY <1>3, ChunkArrivesIs
<1>6. Arrives(d, w)
  <2>1. worker[d][w] \in Paying /\ Repays(d, w)
    BY <1>1 DEF Paying, Fetching, FetchStates, Repays
  <2>2. free + preHeld'[d] = free + preHeld[d]
    BY <1>1
  <2> QED
    BY <1>4, <1>5, <2>1, <2>2 DEF Arrives
<1> QED
  BY <1>1, <1>4, <1>5, <1>6 DEF Own, Same, Shapes, WorkerStep

LEMMA RetryIs ==
    ASSUME Shapes, free \in Nat, NEW d \in Downloads, NEW w \in Workers,
           FetchFails(d, w) \/ FetchRestarted(d, w) \/ AltFails(d, w)
    PROVE  Own(d) /\ WorkerStep(d, w)
<1>1. /\ worker[d][w] \in Fetching
      /\ UNCHANGED <<phase, result, at, reported, pool, ahead, preHeld, cut>>
      /\ \E s \in Fetching \cup {"failed"} :
           /\ BecomeWorker(d, w, s) /\ UNCHANGED <<line, listed, chunk, next, received, written>>
           /\ \/ free' = free /\ bufHeld' = bufHeld
              \/ /\ s = "failed" /\ free' = free + Given(bufHeld[d])
                 /\ bufHeld' = [bufHeld EXCEPT ![d] = bufHeld[d] - Given(bufHeld[d])]
  BY DEF FetchFails, FetchRestarted, AltFails, WorkerRaises, Fetching, FetchStates,
         generator, prefetching, semaphore, budgets, data
<1>2. /\ WorkShapes' /\ \A e \in Downloads : e # d => SameWork(e)
      /\ worker'[d][w] \in Fetching \cup {"failed"}
      /\ \A v \in Workers : v # w => worker'[d][v] = worker[d][v]
      /\ free' \in Nat /\ free' + bufHeld'[d] = free + bufHeld[d]
      /\ \/ bufHeld'[d] = bufHeld[d]
         \/ worker'[d][w] = "failed" /\ bufHeld'[d] = bufHeld[d] - Given(bufHeld[d])
  BY <1>1, RetriesIs
<1>3. Retries(d, w)
  <2>1. worker[d][w] \in Paying /\ Repays(d, w)
    BY <1>1 DEF Paying, Fetching, FetchStates, Repays
  <2>2. free' + preHeld'[d] + bufHeld'[d] = free + preHeld[d] + bufHeld[d]
    <3>1. preHeld[d] \in Nat /\ bufHeld[d] \in Nat /\ bufHeld'[d] \in Nat
      BY <1>2 DEF Shapes, WorkShapes
    <3> QED
      BY <1>1, <1>2, <3>1
  <2> QED
    BY <1>1, <1>2, <2>1, <2>2 DEF Retries, SameWritten
<1> QED
  BY <1>1, <1>2, <1>3 DEF Own, Same, Shapes, WorkerStep

-----------------------------------------------------------------------------
(* What the steps of the generator do.                                     *)

LEMMA Goes ==
    ASSUME Shapes, NEW d \in Downloads, NEW p \in Phases, Goto(d, p)
    PROVE  /\ phase' \in [Downloads -> Phases] /\ phase'[d] = p
           /\ \A e \in Downloads : e # d => phase'[e] = phase[e]
BY DEF Shapes, Goto

Results == {None, "done", "failed", "closed"}

LEMMA ResultMoves ==
    ASSUME Shapes, NEW d \in Downloads, NEW r \in Results, result' = [result EXCEPT ![d] = r]
    PROVE  /\ result' \in [Downloads -> Results] /\ result'[d] = r
           /\ \A e \in Downloads : e # d => result'[e] = result[e]
BY DEF Shapes, Results

SameTasks(d) ==
    /\ worker'[d] = worker[d] /\ chunk'[d] = chunk[d] /\ next'[d] = next[d]
    /\ listed'[d] = listed[d] /\ ahead'[d] = ahead[d]

SameSlots(d) ==
    /\ free' = free /\ line' = line
    /\ preHeld'[d] = preHeld[d] /\ bufHeld'[d] = bufHeld[d]

\* The generator is left before it has workers.
Leaves(d) ==
    /\ phase[d] \in {"first", "out0"} /\ phase'[d] = "dropPrefetch"
    /\ result'[d] \in Results
    /\ result'[d] = "done" => phase[d] = "out0" /\ 0 \in cut[d]
    /\ at'[d] = at[d] /\ reported'[d] = reported[d]
    /\ SameTasks(d) /\ SameWritten(d) /\ cut'[d] = cut[d] /\ SameSlots(d)

LEMMA LeavesIs ==
    ASSUME Shapes, NEW d \in Downloads,
           \/ FirstFails(d) \/ FirstWasShort(d)
           \/ PoolAwaited(d) /\ pool[d] = "failed"
           \/ Close(d) /\ phase[d] \in {"first", "out0"}
    PROVE  Own(d) /\ Leaves(d)
<1>1. \E r \in {"done", "failed", "closed"} :
         /\ phase[d] \in {"first", "out0"}
         /\ r = "done" => phase[d] = "out0" /\ 0 \in cut[d]
         /\ Goto(d, "dropPrefetch") /\ result' = [result EXCEPT ![d] = r]
         /\ UNCHANGED <<at, reported, semaphore, budgets, prefetching, working, data>>
  BY DEF FirstFails, FirstWasShort, PoolAwaited, Close, LeaveEarly, OnlyGenerator,
         prefetching, working, data, semaphore, budgets
<1>2. PICK r \in {"done", "failed", "closed"} :
         /\ phase[d] \in {"first", "out0"}
         /\ r = "done" => phase[d] = "out0" /\ 0 \in cut[d]
         /\ Goto(d, "dropPrefetch") /\ result' = [result EXCEPT ![d] = r]
         /\ UNCHANGED <<at, reported, semaphore, budgets, prefetching, working, data>>
  BY <1>1
<1>3. /\ phase' \in [Downloads -> Phases] /\ phase'[d] = "dropPrefetch"
      /\ \A e \in Downloads : e # d => phase'[e] = phase[e]
  BY <1>2, Goes DEF Phases
<1>4. /\ result' \in [Downloads -> Results] /\ result'[d] = r
      /\ \A e \in Downloads : e # d => result'[e] = result[e]
  BY <1>2, ResultMoves DEF Results
<1>5. UNCHANGED <<at, reported, free, line, preHeld, bufHeld, pool, ahead, listed, worker,
                  chunk, next, received, written, cut>>
  BY <1>2 DEF prefetching, working, data, semaphore, budgets
<1> QED
  BY <1>2, <1>3, <1>4, <1>5 DEF Own, Same, SameWork, Shapes, WorkShapes, Results, Leaves, SameTasks,
     SameWritten, SameSlots

\* The first chunk is there.
HasFirst(d) ==
    /\ SameTasks(d) /\ SameSlots(d)
    /\ phase[d] = "first" /\ phase'[d] = "out0" /\ result'[d] = result[d]
    /\ at'[d] = 1 /\ received'[d] = received[d] /\ reported'[d] \in {0, 1}
    /\ written'[d] = (IF d \in ToFile THEN {0} ELSE {})
    /\ cut'[d] = cut[d] \/ cut'[d] = {0}

LEMMA FirstArrivesIs ==
    ASSUME Shapes, NEW d \in Downloads, FirstArrives(d)
    PROVE  Own(d) /\ HasFirst(d)
<1>1. /\ phase[d] = "first" /\ Goto(d, "out0")
      /\ cut' = cut \/ cut' = [cut EXCEPT ![d] = {0}]
      /\ at' = [at EXCEPT ![d] = 1]
      /\ reported' = [reported EXCEPT ![d] = Cardinality({0} \ cut'[d])]
      /\ written' = [written EXCEPT ![d] = IF d \in ToFile THEN {0} ELSE {}]
      /\ UNCHANGED <<free, line, preHeld, bufHeld, pool, ahead, listed, worker, chunk, next,
                     received, result>>
  BY DEF FirstArrives, semaphore, budgets, prefetching, working
<1>2. /\ phase' \in [Downloads -> Phases] /\ phase'[d] = "out0"
      /\ \A e \in Downloads : e # d => phase'[e] = phase[e]
  BY <1>1, Goes DEF Phases
<1>3. Cardinality({0} \ cut'[d]) \in {0, 1}
  <2>1. {0} \ cut'[d] = {} \/ {0} \ cut'[d] = {0}
    OBVIOUS
  <2> QED
    BY <2>1, FS_EmptySet, FS_Singleton
<1>4. /\ reported' \in [Downloads -> Nat] /\ reported'[d] \in {0, 1}
      /\ \A e \in Downloads : e # d => reported'[e] = reported[e]
  BY <1>1, <1>3 DEF Shapes
<1>5. /\ 1 \in 0 .. Chunks + 1 /\ {0} \in SUBSET Files /\ {} \in SUBSET Files
  BY Numbers
<1>6. /\ at' \in [Downloads -> 0 .. Chunks + 1] /\ at'[d] = 1
      /\ \A e \in Downloads : e # d => at'[e] = at[e]
  BY <1>1, <1>5 DEF Shapes
<1>7. /\ cut' \in [Downloads -> SUBSET Files] /\ (cut'[d] = cut[d] \/ cut'[d] = {0})
      /\ \A e \in Downloads : e # d => cut'[e] = cut[e]
  BY <1>1, <1>5 DEF Shapes
<1>8. /\ written' \in [Downloads -> SUBSET Files]
      /\ written'[d] = (IF d \in ToFile THEN {0} ELSE {})
      /\ \A e \in Downloads : e # d => written'[e] = written[e]
  BY <1>1, <1>5 DEF Shapes
<1> QED
  BY <1>1, <1>2, <1>4, <1>6, <1>7, <1>8
  DEF HasFirst, Own, Same, SameWork, Shapes, WorkShapes, SameTasks, SameSlots

\* The workers are started.
HasPool(d) ==
    /\ SameWritten(d) /\ SameSlots(d)
    /\ phase[d] = "out0" /\ 0 \notin cut[d] /\ ahead[d][1] # None
    /\ phase'[d] = "run" /\ result'[d] = result[d]
    /\ at'[d] = at[d] /\ reported'[d] = reported[d] /\ cut'[d] = cut[d]
    /\ ahead'[d] = ahead[d] /\ listed'[d] = listed[d]
    /\ chunk'[d] = chunk[d] /\ next'[d] = next[d]
    /\ \A w \in Workers : worker'[d][w] = "new"

LEMMA PoolAwaitedIs ==
    ASSUME Shapes, NEW d \in Downloads, PoolAwaited(d), pool[d] = "ready"
    PROVE  Own(d) /\ HasPool(d)
<1>1. /\ phase[d] = "out0" /\ 0 \notin cut[d] /\ ahead[d][1] # None /\ Goto(d, "run")
      /\ worker' = [worker EXCEPT ![d] = [w \in Workers |-> "new"]]
      /\ UNCHANGED <<result, at, reported, free, line, preHeld, bufHeld, pool, ahead, listed,
                     chunk, next, received, written, cut>>
  BY DEF PoolAwaited, semaphore, budgets, prefetching, data
<1>2. /\ phase' \in [Downloads -> Phases] /\ phase'[d] = "run"
      /\ \A e \in Downloads : e # d => phase'[e] = phase[e]
  BY <1>1, Goes DEF Phases
<1>3. [w \in Workers |-> "new"] \in [Workers -> WorkerStates]
  BY DEF WorkerStates
<1>4. /\ worker' \in [Downloads -> [Workers -> WorkerStates]]
      /\ worker'[d] = [w \in Workers |-> "new"]
      /\ \A e \in Downloads : e # d => worker'[e] = worker[e]
  BY <1>1, <1>3 DEF Shapes, WorkShapes
<1> QED
  BY <1>1, <1>2, <1>4 DEF HasPool, Own, Same, SameWork, Shapes, WorkShapes, SameWritten, SameSlots

\* The consumer gets the next chunk.
HandsOut(d) ==
    /\ SameTasks(d)
    /\ phase[d] = "run" /\ phase'[d] = "out" /\ result'[d] = result[d]
    /\ at'[d] = at[d] /\ reported'[d] = reported[d] /\ cut'[d] = cut[d]
    /\ at[d] \in received[d] /\ received'[d] = received[d] \ {at[d]}
    /\ written'[d] = written[d] /\ line' = line
    /\ preHeld'[d] = preHeld[d] /\ bufHeld'[d] = bufHeld[d] - Given(bufHeld[d])
    /\ free' \in Nat /\ free' + bufHeld'[d] = free + bufHeld[d]

LEMMA DeliversIs ==
    ASSUME Shapes, free \in Nat, NEW d \in Downloads, Delivers(d)
    PROVE  Own(d) /\ HandsOut(d)
<1>1. /\ phase[d] = "run" /\ Goto(d, "out") /\ at[d] \in received[d]
      /\ received' = [received EXCEPT ![d] = received[d] \ {at[d]}]
      /\ bufHeld' = [bufHeld EXCEPT ![d] = bufHeld[d] - Given(bufHeld[d])]
      /\ free' = free + Given(bufHeld[d])
      /\ UNCHANGED <<line, preHeld, result, at, reported, pool, ahead, listed, worker, chunk,
                     next, written, cut>>
  BY DEF Delivers, prefetching, working
<1>2. /\ phase' \in [Downloads -> Phases] /\ phase'[d] = "out"
      /\ \A e \in Downloads : e # d => phase'[e] = phase[e]
  BY <1>1, Goes DEF Phases
<1>3. /\ received' \in [Downloads -> SUBSET Parts] /\ received'[d] = received[d] \ {at[d]}
      /\ \A e \in Downloads : e # d => received'[e] = received[e]
  BY <1>1 DEF Shapes
<1>4. /\ bufHeld[d] \in Nat /\ bufHeld \in [Downloads -> Nat]
      /\ Given(bufHeld[d]) \in Nat /\ bufHeld[d] - Given(bufHeld[d]) \in Nat
  BY GivenIs DEF Shapes, WorkShapes
<1>5. /\ bufHeld' \in [Downloads -> Nat] /\ bufHeld'[d] = bufHeld[d] - Given(bufHeld[d])
      /\ \A e \in Downloads : e # d => bufHeld'[e] = bufHeld[e]
      /\ free' \in Nat /\ free' + bufHeld'[d] = free + bufHeld[d]
  BY <1>1, <1>4
<1> QED
  BY <1>1, <1>2, <1>3, <1>5 DEF HandsOut, Own, Same, SameWork, Shapes, WorkShapes, SameTasks

\* The consumer comes back for more.
Consumes(d) ==
    /\ SameTasks(d) /\ SameWritten(d) /\ SameSlots(d)
    /\ phase[d] = "out" /\ phase'[d] = "run" /\ result'[d] = result[d]
    /\ at'[d] = at[d] + 1 /\ reported'[d] = reported[d] /\ cut'[d] = cut[d]
    /\ at[d] \notin cut[d] /\ at[d] # Chunks

LEMMA ConsumesIs ==
    ASSUME Shapes, NEW d \in Downloads, at[d] \in Parts, Consumed(d),
           ~ (at[d] \in cut[d] \/ at[d] = Chunks)
    PROVE  Own(d) /\ Consumes(d)
<1>1. /\ phase[d] = "out" /\ Goto(d, "run")
      /\ at' = [at EXCEPT ![d] = at[d] + 1]
      /\ UNCHANGED <<result, reported, free, line, preHeld, bufHeld, pool, ahead, listed, worker,
                     chunk, next, received, written, cut>>
  BY DEF Consumed, OnlyGenerator, semaphore, budgets, prefetching, working, data
<1>2. /\ phase' \in [Downloads -> Phases] /\ phase'[d] = "run"
      /\ \A e \in Downloads : e # d => phase'[e] = phase[e]
  BY <1>1, Goes DEF Phases
<1>3. at[d] + 1 \in 0 .. Chunks + 1
  BY Numbers
<1>4. /\ at' \in [Downloads -> 0 .. Chunks + 1] /\ at'[d] = at[d] + 1
      /\ \A e \in Downloads : e # d => at'[e] = at[e]
  BY <1>1, <1>3 DEF Shapes
<1> QED
  BY <1>1, <1>2, <1>4 DEF Consumes, Own, Same, SameWork, Shapes, WorkShapes, SameTasks, SameWritten, SameSlots

\* The finally of the worker loop: what may happen to a worker, and to a chunk's task.
Halts(d) ==
    /\ phase'[d] = "stopWorkers"
    /\ chunk'[d] = chunk[d] /\ next'[d] = next[d] /\ listed'[d] = listed[d]
    /\ SameWritten(d) /\ cut'[d] = cut[d]
    /\ \A w \in Workers :
          \/ worker[d][w] \in WorkerEnded /\ worker'[d][w] = worker[d][w]
          \/ worker'[d][w] = "cancelled"
          \/ worker[d][w] = "restart" /\ worker'[d][w] = "fetch"
          \/ worker[d][w] = "ahead" /\ worker'[d][w] = "ahead"
    /\ \A k \in Parts :
          \/ ahead'[d][k] = ahead[d][k]
          \/ /\ ahead[d][k] \in {"line", "fetch", "restart"}
             /\ ahead'[d][k] = IF ahead[d][k] = "restart" THEN "fetch" ELSE "cancelled"
             /\ \E w \in Workers : worker[d][w] \in Busy /\ chunk[d][w] = k
    /\ \E gone : /\ line' = Without(gone)
                 /\ \A w \in Workers : <<d, "worker", w>> \in gone
                 /\ \A k \in Parts : ahead[d][k] = "line" /\ ahead'[d][k] # "line"
                                        => <<d, "ahead", k>> \in gone
    /\ free' \in Nat
    /\ free' + preHeld'[d] + bufHeld'[d] = free + preHeld[d] + bufHeld[d]

LEMMA StopsIs ==
    ASSUME Shapes, free \in Nat, NEW d \in Downloads, NEW r \in Results, Stops(d, r),
           \A w \in Workers : worker[d][w] = "ahead" => chunk[d][w] \in Parts
    PROVE  /\ Halts(d) /\ result'[d] = r
           /\ phase' \in [Downloads -> Phases] /\ result' \in [Downloads -> Results]
           /\ ahead' \in [Downloads -> [Parts -> AheadStates]]
           /\ preHeld' \in [Downloads -> Nat]
           /\ WorkShapes'
           /\ UNCHANGED <<pool, received, written, cut>>
           /\ \A e \in Downloads : e # d =>
                 /\ phase'[e] = phase[e] /\ result'[e] = result[e] /\ ahead'[e] = ahead[e]
                 /\ preHeld'[e] = preHeld[e] /\ SameWork(e)
<1> DEFINE Awaits(w) == worker[d][w] = "ahead"
           Deaf(w) == \/ worker[d][w] = "restart"
                      \/ Awaits(w) /\ ahead[d][chunk[d][w]] = "restart"
           Ends(w) == worker[d][w] \notin WorkerEnded /\ ~Deaf(w)
           Killed == {chunk[d][w] : w \in {v \in Workers : Awaits(v) /\ Ends(v)
                                          /\ ahead[d][chunk[d][v]] \in {"line", "fetch"}}}
           pre == Cardinality({w \in Workers : Awaits(w) /\ Ends(w)})
           preBack == IF pre < preHeld[d] THEN pre ELSE preHeld[d]
           buf == Cardinality({w \in Workers : worker[d][w] \in {"ahead", "fetch"} /\ Ends(w)})
           bufBack == IF buf < bufHeld[d] THEN buf ELSE bufHeld[d]
           workers == [w \in Workers |-> IF Ends(w) THEN "cancelled"
                                         ELSE IF worker[d][w] = "restart" THEN "fetch"
                                         ELSE worker[d][w]]
           tasks == [k \in Parts |-> IF k \in Killed THEN "cancelled"
                                     ELSE IF \E w \in Workers : Awaits(w) /\ Deaf(w) /\ chunk[d][w] = k
                                     THEN "fetch" ELSE ahead[d][k]]
           gone == ({d} \X {"worker"} \X Workers) \cup ({d} \X {"ahead"} \X Killed)
<1>1. /\ Goto(d, "stopWorkers") /\ result' = [result EXCEPT ![d] = r]
      /\ worker' = [worker EXCEPT ![d] = workers]
      /\ ahead' = [ahead EXCEPT ![d] = tasks]
      /\ line' = Without(gone)
      /\ preHeld' = [preHeld EXCEPT ![d] = preHeld[d] - preBack]
      /\ bufHeld' = [bufHeld EXCEPT ![d] = bufHeld[d] - bufBack]
      /\ free' = free + preBack + bufBack
      /\ UNCHANGED <<pool, listed, chunk, next, received, written, cut>>
  BY DEF Stops, data
<1>2. /\ phase' \in [Downloads -> Phases] /\ phase'[d] = "stopWorkers"
      /\ \A e \in Downloads : e # d => phase'[e] = phase[e]
  BY <1>1, Goes DEF Phases
<1>3. /\ result' \in [Downloads -> Results] /\ result'[d] = r
      /\ \A e \in Downloads : e # d => result'[e] = result[e]
  BY <1>1, ResultMoves
<1>4. pre \in Nat /\ buf \in Nat
  <2>1. /\ {w \in Workers : Awaits(w) /\ Ends(w)} \in SUBSET Workers
        /\ {w \in Workers : worker[d][w] \in {"ahead", "fetch"} /\ Ends(w)} \in SUBSET Workers
    OBVIOUS
  <2>2. IsFiniteSet(Workers)
    BY DownloadParameters
  <2> HIDE DEF Awaits, Ends
  <2> QED
    BY <2>1, <2>2, FS_Subset, FS_CardinalityType
<1>5. \A w \in Workers : /\ workers[w] \in WorkerStates
                         /\ \/ worker[d][w] \in WorkerEnded /\ workers[w] = worker[d][w]
                            \/ workers[w] = "cancelled"
                            \/ worker[d][w] = "restart" /\ workers[w] = "fetch"
                            \/ worker[d][w] = "ahead" /\ workers[w] = "ahead"
  <2>1. \A w \in Workers : worker[d][w] \in WorkerStates
    BY DEF Shapes, WorkShapes
  <2> QED
    BY <2>1 DEF WorkerStates, WorkerEnded, Busy, Paying, Fetching, FetchStates
<1>6. \A k \in Killed : /\ k \in Parts /\ ahead[d][k] \in {"line", "fetch"}
                        /\ \E w \in Workers : worker[d][w] \in Busy /\ chunk[d][w] = k
  BY DEF Busy, Paying
<1>7. \A k \in Parts : /\ tasks[k] \in AheadStates
                       /\ \/ tasks[k] = ahead[d][k] /\ k \notin Killed
                          \/ /\ ahead[d][k] \in {"line", "fetch", "restart"}
                             /\ tasks[k] = IF ahead[d][k] = "restart" THEN "fetch" ELSE "cancelled"
                             /\ \E w \in Workers : worker[d][w] \in Busy /\ chunk[d][w] = k
                             /\ ahead[d][k] = "line" => k \in Killed
  <2> SUFFICES ASSUME NEW k \in Parts
               PROVE  /\ tasks[k] \in AheadStates
                      /\ \/ tasks[k] = ahead[d][k] /\ k \notin Killed
                         \/ /\ ahead[d][k] \in {"line", "fetch", "restart"}
                            /\ tasks[k] = IF ahead[d][k] = "restart" THEN "fetch" ELSE "cancelled"
                            /\ \E w \in Workers : worker[d][w] \in Busy /\ chunk[d][w] = k
                            /\ ahead[d][k] = "line" => k \in Killed
    OBVIOUS
  <2>1. CASE k \in Killed
    <3>1. tasks[k] = "cancelled"
      BY <2>1
    <3> HIDE DEF Killed, tasks
    <3> QED
      BY <1>6, <2>1, <3>1 DEF AheadStates, AheadEnded
  <2>2. CASE k \notin Killed /\ \E w \in Workers : Awaits(w) /\ Deaf(w) /\ chunk[d][w] = k
    <3>1. PICK w \in Workers : Awaits(w) /\ Deaf(w) /\ chunk[d][w] = k
      BY <2>2
    <3>2. tasks[k] = "fetch"
      BY <2>2
    <3>3. worker[d][w] = "ahead" /\ ahead[d][k] = "restart"
      BY <3>1
    <3> HIDE DEF Killed, tasks, Awaits, Deaf
    <3> QED
      BY <2>2, <3>1, <3>2, <3>3 DEF AheadStates, AheadEnded, FetchStates, Busy, Paying
  <2>3. CASE k \notin Killed /\ ~ \E w \in Workers : Awaits(w) /\ Deaf(w) /\ chunk[d][w] = k
    <3>1. tasks[k] = ahead[d][k]
      BY <2>3
    <3>2. ahead[d][k] \in AheadStates
      BY DEF Shapes
    <3> HIDE DEF Killed, tasks, Awaits, Deaf
    <3> QED
      BY <2>3, <3>1, <3>2
  <2> QED
    BY <2>1, <2>2, <2>3
<1>8. /\ \A w \in Workers : <<d, "worker", w>> \in gone
      /\ \A k \in Killed : <<d, "ahead", k>> \in gone
  <2> HIDE DEF Killed
  <2> QED
    OBVIOUS
<1>9. /\ preHeld[d] \in Nat /\ bufHeld[d] \in Nat
      /\ preHeld \in [Downloads -> Nat] /\ bufHeld \in [Downloads -> Nat]
  BY DEF Shapes, WorkShapes
<1>10. /\ preHeld[d] - preBack \in Nat /\ bufHeld[d] - bufBack \in Nat
       /\ preBack \in Nat /\ bufBack \in Nat
  <2> HIDE DEF pre, buf
  <2> QED
    BY <1>4, <1>9
<1>11. workers \in [Workers -> WorkerStates] /\ tasks \in [Parts -> AheadStates]
  <2>1. workers \in [Workers -> WorkerStates]
    BY <1>5
  <2>2. tasks \in [Parts -> AheadStates]
    <3> HIDE DEF Killed, Awaits, Deaf
    <3> QED
      BY <1>7
  <2> QED
    BY <2>1, <2>2
<1> HIDE DEF workers, tasks, gone, preBack, bufBack
<1>12. /\ worker' \in [Downloads -> [Workers -> WorkerStates]] /\ worker'[d] = workers
       /\ ahead' \in [Downloads -> [Parts -> AheadStates]] /\ ahead'[d] = tasks
       /\ \A e \in Downloads : e # d => worker'[e] = worker[e] /\ ahead'[e] = ahead[e]
  BY <1>1, <1>11 DEF Shapes, WorkShapes
<1>13. /\ preHeld' \in [Downloads -> Nat] /\ bufHeld' \in [Downloads -> Nat]
       /\ \A e \in Downloads : e # d => preHeld'[e] = preHeld[e] /\ bufHeld'[e] = bufHeld[e]
       /\ free' \in Nat
       /\ free' + preHeld'[d] + bufHeld'[d] = free + preHeld[d] + bufHeld[d]
  BY <1>1, <1>9, <1>10
<1>14. WorkShapes' /\ \A e \in Downloads : e # d => SameWork(e)
  BY <1>1, <1>12, <1>13 DEF Shapes, WorkShapes, SameWork
<1> HIDE DEF Killed
<1>15. \A k \in Parts : ahead[d][k] = "line" /\ ahead'[d][k] # "line" => <<d, "ahead", k>> \in gone
  BY <1>7, <1>8, <1>12
<1>16. Halts(d)
  BY <1>1, <1>2, <1>5, <1>7, <1>8, <1>12, <1>13, <1>15 DEF Halts, SameWritten
<1> QED
  BY <1>1, <1>2, <1>3, <1>12, <1>13, <1>14, <1>16

\* How the loop ends: the consumer has had the last chunk, or leaves; the file has
\* every chunk; a worker has raised, or all of them have ended.
Finishes(d) ==
    \/ /\ phase[d] = "out" /\ result'[d] = "done"
       /\ at'[d] = at[d] + 1 /\ reported'[d] = reported[d]
       /\ at[d] \in cut[d] \/ at[d] = Chunks
    \/ /\ d \in ToFile /\ written[d] = Files /\ result'[d] = "done"
       /\ at'[d] = at[d] /\ reported'[d] = Cardinality(written[d] \ cut[d])
    \/ /\ at'[d] = at[d] /\ reported'[d] = reported[d]
       /\ \/ result'[d] \in {"failed", "closed"}
          \/ /\ phase[d] = "run" /\ ~Raised(d) /\ AllEnded(d)
             /\ d \notin ToFile => at[d] \notin received[d]

LEMMA FinishesIs ==
    ASSUME Shapes, free \in Nat, NEW d \in Downloads,
           phase[d] \in Streaming => at[d] \in Parts,
           \A w \in Workers : worker[d][w] = "ahead" => chunk[d][w] \in Parts,
           \/ Consumed(d) /\ (at[d] \in cut[d] \/ at[d] = Chunks)
           \/ LoopEnds(d)
           \/ Close(d) /\ phase[d] \notin {"first", "out0"}
    PROVE  Own(d) /\ phase[d] \in Streaming /\ Halts(d) /\ Finishes(d)
<1>1. \E r \in {"done", "failed", "closed"} :
         /\ Stops(d, r) /\ phase[d] \in Streaming
         /\ \/ /\ phase[d] = "out" /\ r = "done"
               /\ at' = [at EXCEPT ![d] = at[d] + 1] /\ reported' = reported
               /\ at[d] \in cut[d] \/ at[d] = Chunks
            \/ /\ d \in ToFile /\ written[d] = Files /\ r = "done" /\ at' = at
               /\ reported' = [reported EXCEPT ![d] = Cardinality(written[d] \ cut[d])]
            \/ /\ at' = at /\ reported' = reported
               /\ \/ r \in {"failed", "closed"}
                  \/ /\ phase[d] = "run" /\ ~Raised(d) /\ AllEnded(d)
                     /\ d \notin ToFile => at[d] \notin received[d]
  <2>1. CASE Consumed(d) /\ (at[d] \in cut[d] \/ at[d] = Chunks)
    BY <2>1 DEF Consumed, Streaming
  <2>2. CASE LoopEnds(d)
    BY <2>2 DEF LoopEnds, Streaming
  <2>3. CASE Close(d) /\ phase[d] \notin {"first", "out0"}
    BY <2>3 DEF Close, Streaming
  <2> QED
    BY <2>1, <2>2, <2>3
<1>2. PICK r \in {"done", "failed", "closed"} :
         /\ Stops(d, r) /\ phase[d] \in Streaming
         /\ \/ /\ phase[d] = "out" /\ r = "done"
               /\ at' = [at EXCEPT ![d] = at[d] + 1] /\ reported' = reported
               /\ at[d] \in cut[d] \/ at[d] = Chunks
            \/ /\ d \in ToFile /\ written[d] = Files /\ r = "done" /\ at' = at
               /\ reported' = [reported EXCEPT ![d] = Cardinality(written[d] \ cut[d])]
            \/ /\ at' = at /\ reported' = reported
               /\ \/ r \in {"failed", "closed"}
                  \/ /\ phase[d] = "run" /\ ~Raised(d) /\ AllEnded(d)
                     /\ d \notin ToFile => at[d] \notin received[d]
  BY <1>1
<1>3. /\ Halts(d) /\ result'[d] = r
      /\ phase' \in [Downloads -> Phases] /\ result' \in [Downloads -> Results]
      /\ ahead' \in [Downloads -> [Parts -> AheadStates]]
      /\ preHeld' \in [Downloads -> Nat]
      /\ WorkShapes'
      /\ UNCHANGED <<pool, received, written, cut>>
      /\ \A e \in Downloads : e # d =>
            /\ phase'[e] = phase[e] /\ result'[e] = result[e] /\ ahead'[e] = ahead[e]
            /\ preHeld'[e] = preHeld[e] /\ SameWork(e)
  <2>1. r \in Results
    BY DEF Results
  <2> QED
    BY <1>2, <2>1, StopsIs
<1>4. at[d] + 1 \in 0 .. Chunks + 1
  BY <1>2, Numbers
<1>5. Cardinality(written[d] \ cut[d]) \in Nat
  <2>1. 0 \in Int /\ Chunks \in Int
    BY Numbers
  <2>2. IsFiniteSet(Files)
    BY <2>1, FS_Interval DEF Files
  <2>3. written[d] \ cut[d] \in SUBSET Files
    BY DEF Shapes
  <2> QED
    BY <2>2, <2>3, FS_Subset, FS_CardinalityType
<1>6. /\ at' \in [Downloads -> 0 .. Chunks + 1] /\ \A e \in Downloads : e # d => at'[e] = at[e]
      /\ (at' = [at EXCEPT ![d] = at[d] + 1] => at'[d] = at[d] + 1)
  BY <1>2, <1>4 DEF Shapes
<1>7. /\ reported' \in [Downloads -> Nat]
      /\ \A e \in Downloads : e # d => reported'[e] = reported[e]
      /\ reported' = [reported EXCEPT ![d] = Cardinality(written[d] \ cut[d])]
            => reported'[d] = Cardinality(written[d] \ cut[d])
  BY <1>2, <1>5 DEF Shapes
<1>8. Finishes(d)
  BY <1>2, <1>3, <1>6, <1>7 DEF Finishes
<1> QED
  BY <1>2, <1>3, <1>6, <1>7, <1>8 DEF Own, Same, Shapes, Results

\* All workers have ended.
Joins(d) ==
    /\ SameTasks(d) /\ SameWritten(d)
    /\ phase[d] = "stopWorkers" /\ phase'[d] = "dropPrefetch" /\ AllEnded(d)
    /\ result'[d] = result[d] /\ at'[d] = at[d] /\ reported'[d] = reported[d]
    /\ cut'[d] = cut[d] /\ line' = line
    /\ preHeld'[d] = preHeld[d] /\ bufHeld'[d] = 0
    /\ free' \in Nat /\ free' = free + bufHeld[d]

LEMMA WorkersStoppedIs ==
    ASSUME Shapes, free \in Nat, NEW d \in Downloads, WorkersStopped(d)
    PROVE  Own(d) /\ Joins(d)
<1>1. /\ phase[d] = "stopWorkers" /\ AllEnded(d) /\ Goto(d, "dropPrefetch")
      /\ free' = free + bufHeld[d] /\ bufHeld' = [bufHeld EXCEPT ![d] = 0]
      /\ UNCHANGED <<line, preHeld, result, at, reported, pool, ahead, listed, worker, chunk,
                     next, received, written, cut>>
  BY DEF WorkersStopped, prefetching, working, data
<1>2. /\ phase' \in [Downloads -> Phases] /\ phase'[d] = "dropPrefetch"
      /\ \A e \in Downloads : e # d => phase'[e] = phase[e]
  BY <1>1, Goes DEF Phases
<1>3. /\ bufHeld' \in [Downloads -> Nat] /\ bufHeld'[d] = 0
      /\ \A e \in Downloads : e # d => bufHeld'[e] = bufHeld[e]
      /\ free' \in Nat
  BY <1>1 DEF Shapes, WorkShapes
<1> QED
  BY <1>1, <1>2, <1>3 DEF Joins, Own, Same, SameWork, Shapes, WorkShapes, SameTasks, SameWritten

\* The tasks in prefetched are cancelled.
Cancels(d) ==
    /\ SameWritten(d)
    /\ phase[d] = "dropPrefetch" /\ phase'[d] = phase[d] /\ result'[d] = result[d]
    /\ at'[d] = at[d] /\ reported'[d] = reported[d] /\ cut'[d] = cut[d]
    /\ listed'[d] = listed[d] /\ worker'[d] = worker[d] /\ chunk'[d] = chunk[d]
    /\ next'[d] = next[d] /\ preHeld'[d] = preHeld[d] /\ bufHeld'[d] = bufHeld[d]
    /\ free' = free /\ line' = Without({d} \X {"ahead"} \X listed[d])
    /\ \A k \in Parts :
          \/ ahead'[d][k] = ahead[d][k] /\ (k \in listed[d] => ahead[d][k] # "line")
          \/ /\ k \in listed[d] /\ ahead[d][k] \in {"line", "fetch", "restart"}
             /\ ahead'[d][k] \in {"fetch", "cancelled"}

LEMMA PrefetchCancelledIs ==
    ASSUME Shapes, NEW d \in Downloads, PrefetchCancelled(d)
    PROVE  Own(d) /\ Cancels(d)
<1> DEFINE tasks == [k \in Parts |->
                IF k \in listed[d] /\ ahead[d][k] \in {"line", "fetch"} THEN "cancelled"
                ELSE IF k \in listed[d] /\ ahead[d][k] = "restart" THEN "fetch" ELSE ahead[d][k]]
<1>1. /\ phase[d] = "dropPrefetch" /\ ahead' = [ahead EXCEPT ![d] = tasks]
      /\ line' = Without({d} \X {"ahead"} \X listed[d])
      /\ UNCHANGED <<free, preHeld, bufHeld, phase, result, at, reported, pool, listed, worker,
                     chunk, next, received, written, cut>>
  BY DEF PrefetchCancelled, budgets, generator, working, data
<1>2. \A k \in Parts : ahead[d][k] \in AheadStates
  BY DEF Shapes
<1>3. \A k \in Parts : /\ tasks[k] \in AheadStates
                       /\ \/ tasks[k] = ahead[d][k] /\ (k \in listed[d] => ahead[d][k] # "line")
                          \/ /\ k \in listed[d] /\ ahead[d][k] \in {"line", "fetch", "restart"}
                             /\ tasks[k] \in {"fetch", "cancelled"}
  BY <1>2 DEF AheadStates, AheadEnded, FetchStates
<1>4. tasks \in [Parts -> AheadStates]
  BY <1>3
<1> HIDE DEF tasks
<1>5. /\ ahead' \in [Downloads -> [Parts -> AheadStates]] /\ ahead'[d] = tasks
      /\ \A e \in Downloads : e # d => ahead'[e] = ahead[e]
  BY <1>1, <1>4 DEF Shapes
<1> QED
  BY <1>1, <1>3, <1>5 DEF Cancels, Own, Same, SameWork, Shapes, WorkShapes, SameWritten

\* They have ended, and the generator is over.
Drops(d) ==
    /\ SameWritten(d)
    /\ phase[d] = "dropPrefetch" /\ phase'[d] = "over" /\ result'[d] = Moves(d)
    /\ at'[d] = at[d] /\ reported'[d] = reported[d] /\ cut'[d] = cut[d]
    /\ worker'[d] = worker[d] /\ chunk'[d] = chunk[d] /\ next'[d] = next[d]
    /\ ahead'[d] = ahead[d] /\ \A k \in listed[d] : ahead[d][k] \in AheadEnded
    /\ listed'[d] = {} /\ preHeld'[d] = 0 /\ bufHeld'[d] = bufHeld[d]
    /\ line' = line /\ free' \in Nat /\ free' = free + preHeld[d]

LEMMA PrefetchDroppedIs ==
    ASSUME Shapes, free \in Nat, NEW d \in Downloads, PrefetchDropped(d)
    PROVE  Own(d) /\ Drops(d)
<1>1. /\ phase[d] = "dropPrefetch" /\ Goto(d, "over")
      /\ result' = [result EXCEPT ![d] = Moves(d)]
      /\ \A k \in listed[d] : ahead[d][k] \in AheadEnded
      /\ listed' = [listed EXCEPT ![d] = {}]
      /\ free' = free + preHeld[d] /\ preHeld' = [preHeld EXCEPT ![d] = 0]
      /\ UNCHANGED <<line, bufHeld, at, reported, pool, ahead, worker, chunk, next,
                     received, written, cut>>
  BY DEF PrefetchDropped, working, data
<1>2. /\ phase' \in [Downloads -> Phases] /\ phase'[d] = "over"
      /\ \A e \in Downloads : e # d => phase'[e] = phase[e]
  BY <1>1, Goes DEF Phases
<1>3. Moves(d) \in Results
  BY DEF Moves, Shapes, Results
<1>4. /\ result' \in [Downloads -> Results] /\ result'[d] = Moves(d)
      /\ \A e \in Downloads : e # d => result'[e] = result[e]
  BY <1>1, <1>3, ResultMoves
<1>5. /\ preHeld' \in [Downloads -> Nat] /\ preHeld'[d] = 0
      /\ \A e \in Downloads : e # d => preHeld'[e] = preHeld[e]
      /\ free' \in Nat
  BY <1>1 DEF Shapes
<1>6. /\ listed' \in [Downloads -> SUBSET Parts] /\ listed'[d] = {}
      /\ \A e \in Downloads : e # d => listed'[e] = listed[e]
  BY <1>1 DEF Shapes, WorkShapes
<1> QED
  BY <1>1, <1>2, <1>4, <1>5, <1>6 DEF Drops, Own, Same, SameWork, Shapes, WorkShapes, SameWritten, Results

-----------------------------------------------------------------------------
(* What the semaphore and the prefetch do.                                 *)

SameStage(d) ==
    /\ phase'[d] = phase[d] /\ result'[d] = result[d]
    /\ at'[d] = at[d] /\ reported'[d] = reported[d]

GrantsAhead(d, k) ==
    /\ Head(line) = <<d, "ahead", k>>
    /\ ahead[d][k] = "line" /\ ahead'[d][k] = "fetch"
    /\ \A j \in Parts : j # k => ahead'[d][j] = ahead[d][j]
    /\ worker'[d] = worker[d]
    /\ preHeld'[d] = preHeld[d] + 1 /\ bufHeld'[d] = bufHeld[d]

GrantsWorker(d, w) ==
    /\ Head(line) = <<d, "worker", w>>
    /\ worker[d][w] = "slot"
    /\ worker'[d][w] = IF ahead[d][chunk[d][w]] = None THEN "fetch" ELSE "ahead"
    /\ \A v \in Workers : v # w => worker'[d][v] = worker[d][v]
    /\ ahead'[d] = ahead[d]
    /\ preHeld'[d] = preHeld[d] /\ bufHeld'[d] = bufHeld[d] + 1

Grants(d) ==
    /\ line # <<>> /\ line' = Tail(line)
    /\ free \in Nat \ {0} /\ free' = free - 1
    /\ SameStage(d) /\ SameWritten(d) /\ cut'[d] = cut[d]
    /\ chunk'[d] = chunk[d] /\ next'[d] = next[d] /\ listed'[d] = listed[d]
    /\ \/ \E k \in Parts : GrantsAhead(d, k)
       \/ \E w \in Workers : GrantsWorker(d, w)

LEMMA GrantIs ==
    ASSUME Shapes, free \in Nat, LineOK, Grant
    PROVE  \E d \in Downloads : Own(d) /\ Grants(d)
<1>1. /\ free > 0 /\ line # <<>> /\ free' = free - 1 /\ line' = Tail(line)
      /\ UNCHANGED <<phase, result, at, reported, pool, listed, chunk, next, received, written, cut>>
  BY DEF Grant, generator, data
<1>2. Head(line) \in Waiters /\ \E i \in DOMAIN line : line[i] = Head(line)
  BY <1>1, LeavesOnce DEF LineOK
<1>3. Waits(Head(line))
  BY <1>2 DEF LineOK
<1>4. ASSUME NEW d \in Downloads, NEW k \in Parts, Head(line) = <<d, "ahead", k>>
      PROVE  Own(d) /\ Grants(d)
  <2>1. /\ BecomeAhead(d, k, "fetch")
        /\ preHeld' = [preHeld EXCEPT ![d] = preHeld[d] + 1]
        /\ UNCHANGED <<worker, bufHeld>>
    BY <1>4 DEF Grant
  <2>2. ahead[d][k] = "line"
    BY <1>3, <1>4 DEF Waits
  <2>3. /\ ahead' \in [Downloads -> [Parts -> AheadStates]]
        /\ ahead'[d][k] = "fetch"
        /\ \A j \in Parts : j # k => ahead'[d][j] = ahead[d][j]
        /\ \A e \in Downloads : e # d => ahead'[e] = ahead[e]
    BY <2>1, AheadMoves DEF AheadStates, FetchStates
  <2>4. /\ preHeld' \in [Downloads -> Nat] /\ preHeld'[d] = preHeld[d] + 1
        /\ \A e \in Downloads : e # d => preHeld'[e] = preHeld[e]
    BY <2>1 DEF Shapes
  <2>5. GrantsAhead(d, k)
    BY <1>4, <2>1, <2>2, <2>3, <2>4 DEF GrantsAhead
  <2>6. Own(d)
    BY <1>1, <2>1, <2>3, <2>4 DEF Own, Same, SameWork, Shapes, WorkShapes
  <2> QED
    BY <1>1, <2>5, <2>6 DEF Grants, SameStage, SameWritten
<1>5. ASSUME NEW d \in Downloads, NEW w \in Workers, Head(line) = <<d, "worker", w>>
      PROVE  Own(d) /\ Grants(d)
  <2>1. /\ BecomeWorker(d, w, IF ahead[d][chunk[d][w]] = None THEN "fetch" ELSE "ahead")
        /\ bufHeld' = [bufHeld EXCEPT ![d] = bufHeld[d] + 1]
        /\ UNCHANGED <<ahead, preHeld>>
    BY <1>5 DEF Grant
  <2>2. worker[d][w] = "slot"
    BY <1>3, <1>5 DEF Waits
  <2>3. (IF ahead[d][chunk[d][w]] = None THEN "fetch" ELSE "ahead") \in WorkerStates
    BY DEF WorkerStates, Busy, Paying, Fetching, FetchStates
  <2>4. /\ worker' \in [Downloads -> [Workers -> WorkerStates]]
        /\ worker'[d][w] = IF ahead[d][chunk[d][w]] = None THEN "fetch" ELSE "ahead"
        /\ \A v \in Workers : v # w => worker'[d][v] = worker[d][v]
        /\ \A e \in Downloads : e # d => worker'[e] = worker[e]
    BY <2>1, <2>3, WorkerMoves
  <2>5. /\ bufHeld' \in [Downloads -> Nat] /\ bufHeld'[d] = bufHeld[d] + 1
        /\ \A e \in Downloads : e # d => bufHeld'[e] = bufHeld[e]
    BY <2>1 DEF Shapes, WorkShapes
  <2>6. GrantsWorker(d, w)
    BY <1>5, <2>1, <2>2, <2>4, <2>5 DEF GrantsWorker
  <2>7. Own(d)
    BY <1>1, <2>1, <2>4, <2>5 DEF Own, Same, SameWork, Shapes, WorkShapes
  <2> QED
    BY <1>1, <2>6, <2>7 DEF Grants, SameStage, SameWritten
<1>6. \/ \E d \in Downloads, k \in Parts : Head(line) = <<d, "ahead", k>>
      \/ \E d \in Downloads, w \in Workers : Head(line) = <<d, "worker", w>>
  BY <1>2 DEF Waiters
<1> QED
  BY <1>4, <1>5, <1>6

LEMMA PoolDoneIs ==
    ASSUME Shapes, NEW d \in Downloads, PoolDone(d)
    PROVE  /\ Shapes' /\ \A e \in Downloads : Same(e)
           /\ free' = free /\ line' = line
<1>1. /\ pool' = [pool EXCEPT ![d] = "ready"] \/ pool' = [pool EXCEPT ![d] = "failed"]
      /\ UNCHANGED <<free, line, preHeld, bufHeld, phase, result, at, reported, ahead, listed,
                     worker, chunk, next, received, written, cut>>
  BY DEF PoolDone, semaphore, budgets, generator, working, data
<1> QED
  BY <1>1 DEF Same, SameWork, Shapes, WorkShapes

\* A fetch_ahead() task with its slot.
Fetches(d, k) ==
    /\ SameStage(d) /\ SameWritten(d) /\ SameSlots(d)
    /\ worker'[d] = worker[d] /\ chunk'[d] = chunk[d] /\ next'[d] = next[d]
    /\ listed'[d] = listed[d]
    /\ ahead[d][k] \in FetchStates
    /\ ahead'[d][k] \in {"ok", "restart", "oserror", "failed", "fetch"}
    /\ \A j \in Parts : j # k => ahead'[d][j] = ahead[d][j]
    /\ cut'[d] = cut[d] \/ cut'[d] = cut[d] \cup {k}

LEMMA FetchesIs ==
    ASSUME Shapes, NEW d \in Downloads, NEW k \in Parts,
           AheadArrives(d, k) \/ AheadFails(d, k) \/ AheadRestarted(d, k)
    PROVE  Own(d) /\ Fetches(d, k)
<1>1. /\ UNCHANGED <<free, line, phase, result, at, reported, pool, listed, worker, chunk, next,
                     received, written, preHeld, bufHeld>>
      /\ ahead[d][k] \in FetchStates
      /\ \E s \in {"ok", "restart", "oserror", "failed", "fetch"} : BecomeAhead(d, k, s)
      /\ cut' = cut \/ cut' = [cut EXCEPT ![d] = cut[d] \cup {k}]
  BY DEF AheadArrives, AheadFails, AheadRestarted, generator, working, data, budgets,
         semaphore, FetchStates
<1>2. /\ ahead' \in [Downloads -> [Parts -> AheadStates]]
      /\ ahead'[d][k] \in {"ok", "restart", "oserror", "failed", "fetch"}
      /\ \A j \in Parts : j # k => ahead'[d][j] = ahead[d][j]
      /\ \A e \in Downloads : e # d => ahead'[e] = ahead[e]
  BY <1>1, AheadMoves DEF AheadStates, AheadEnded, FetchStates
<1>3. cut[d] \cup {k} \in SUBSET Files
  BY Numbers DEF Shapes
<1>4. /\ cut' \in [Downloads -> SUBSET Files] /\ \A e \in Downloads : e # d => cut'[e] = cut[e]
      /\ cut'[d] = cut[d] \/ cut'[d] = cut[d] \cup {k}
  BY <1>1, <1>3 DEF Shapes
<1> QED
  BY <1>1, <1>2, <1>4
  DEF Own, Same, SameWork, Shapes, WorkShapes, Fetches, SameStage, SameWritten, SameSlots

\* prefetch() gets n slots at once.
Prefetches(d, n) ==
    /\ SameStage(d) /\ SameWritten(d) /\ cut'[d] = cut[d]
    /\ worker'[d] = worker[d] /\ chunk'[d] = chunk[d] /\ next'[d] = next[d]
    /\ phase[d] \in {"first", "out0"} /\ ahead[d][1] = None
    /\ listed'[d] = 1 .. Prefetch
    /\ \A k \in Parts : ahead'[d][k] = IF k <= n THEN "fetch"
                                       ELSE IF k <= Prefetch THEN "line" ELSE None
    /\ preHeld'[d] = n /\ bufHeld'[d] = bufHeld[d] /\ free' = free - n /\ free' \in Nat
    /\ line' = line \o [i \in 1 .. Prefetch - n |-> <<d, "ahead", n + i>>]

LEMMA PrefetchesIs ==
    ASSUME Shapes, free \in Nat, NEW d \in Downloads, PrefetchStarts(d)
    PROVE  Own(d) /\ \E n \in 0 .. Prefetch : Prefetches(d, n)
<1> DEFINE n == IF line # <<>> THEN 0 ELSE IF free < Prefetch THEN free ELSE Prefetch
           tasks == [k \in Parts |-> IF k <= n THEN "fetch"
                                     ELSE IF k <= Prefetch THEN "line" ELSE None]
<1>1. /\ UNCHANGED <<phase, result, at, reported, pool, worker, chunk, next, received,
                     written, cut, bufHeld>>
      /\ phase[d] \in {"first", "out0"} /\ ahead[d][1] = None
      /\ ahead' = [ahead EXCEPT ![d] = tasks]
      /\ listed' = [listed EXCEPT ![d] = 1 .. Prefetch]
      /\ preHeld' = [preHeld EXCEPT ![d] = n]
      /\ free' = free - n
      /\ line' = line \o [i \in 1 .. Prefetch - n |-> <<d, "ahead", n + i>>]
  BY DEF PrefetchStarts, generator, working, data
<1>2. tasks \in [Parts -> AheadStates]
  BY DEF AheadStates, AheadEnded, FetchStates
<1>3. 1 .. Prefetch \subseteq Parts
  BY Numbers
<1>4. n \in 0 .. Prefetch /\ n \in Nat /\ free - n \in Nat
  BY Numbers
<1>5. \A k \in Parts : tasks[k] = IF k <= n THEN "fetch"
                                  ELSE IF k <= Prefetch THEN "line" ELSE None
  OBVIOUS
<1> HIDE DEF tasks, n
<1>6. /\ ahead' \in [Downloads -> [Parts -> AheadStates]] /\ ahead'[d] = tasks
      /\ \A e \in Downloads : e # d => ahead'[e] = ahead[e]
  BY <1>1, <1>2 DEF Shapes
<1>7. /\ listed' \in [Downloads -> SUBSET Parts] /\ listed'[d] = 1 .. Prefetch
      /\ \A e \in Downloads : e # d => listed'[e] = listed[e]
  BY <1>1, <1>3 DEF Shapes, WorkShapes
<1>8. /\ preHeld' \in [Downloads -> Nat] /\ preHeld'[d] = n
      /\ \A e \in Downloads : e # d => preHeld'[e] = preHeld[e]
  BY <1>1, <1>4 DEF Shapes
<1>9. Own(d)
  BY <1>1, <1>6, <1>7, <1>8 DEF Own, Same, SameWork, Shapes, WorkShapes
<1>10. Prefetches(d, n)
  BY <1>1, <1>4, <1>5, <1>6, <1>7, <1>8 DEF Prefetches, SameStage, SameWritten
<1> QED
  BY <1>4, <1>9, <1>10

-----------------------------------------------------------------------------
(* Slots.                                                                  *)

LEMMA SlotsMove ==
    ASSUME Shapes, Shapes', SlotsOK, NEW d \in Downloads,
           \A e \in Downloads : e # d => preHeld'[e] = preHeld[e] /\ bufHeld'[e] = bufHeld[e],
           free' \in Nat, free' + preHeld'[d] + bufHeld'[d] = free + preHeld[d] + bufHeld[d]
    PROVE  SlotsOK'
<1> DEFINE m == preHeld'[d] + bufHeld'[d]
<1>1. IsFiniteSet(Downloads) /\ Slots \in Nat /\ free \in Nat
  BY DownloadParameters, Numbers DEF SlotsOK
<1>2. \A e \in Downloads : /\ preHeld[e] \in Nat /\ bufHeld[e] \in Nat
                           /\ preHeld'[e] \in Nat /\ bufHeld'[e] \in Nat
  BY DEF Shapes, WorkShapes
<1>3. Balance \in [Downloads -> 0 .. Slots] /\ Balance[d] = preHeld[d] + bufHeld[d]
  BY <1>1, <1>2 DEF Balance, SlotsOK, Held
<1>4. Counted(Balance) = Tokens(Balance, Downloads, Slots)
  BY DEF Counted, Tokens
<1>5. /\ Balance[d] <= Cardinality(Counted(Balance)) /\ Cardinality(Counted(Balance)) \in Nat
  BY <1>1, <1>3, <1>4, TokensBound, TokensFinite
<1>6. m \in 0 .. Slots
  BY <1>1, <1>2, <1>3, <1>5 DEF SlotsOK
<1>7. Balance' \in [Downloads -> 0 .. Slots] /\ Balance'[d] = m
      /\ \A e \in Downloads : e # d => Balance'[e] = Balance[e]
  BY <1>1, <1>2, <1>3, <1>6 DEF Balance, SlotsOK, Held
<1>8. Cardinality(Tokens(Balance', Downloads, Slots))
         = Cardinality(Tokens(Balance, Downloads, Slots)) - Balance[d] + m
  <2> HIDE DEF m
  <2> QED
    BY <1>1, <1>3, <1>6, <1>7, TokensChange
<1>9. Counted(Balance)' = Tokens(Balance', Downloads, Slots)
  BY DEF Counted, Tokens
<1>10. free' + Cardinality(Counted(Balance)') = Slots
  BY <1>1, <1>2, <1>3, <1>4, <1>5, <1>8, <1>9 DEF SlotsOK
<1>11. \A e \in Downloads : Held(e)' <= Slots
  BY <1>1, <1>7 DEF Balance, Held
<1> QED
  BY <1>10, <1>11 DEF SlotsOK

\* A step of a worker neither makes a slot nor loses one.
LEMMA WorkerKeepsSlots ==
    ASSUME Shapes, Shapes', free \in Nat, NEW d \in Downloads, NEW w \in Workers,
           WorkerStep(d, w)
    PROVE  free' \in Nat /\ free' + preHeld'[d] + bufHeld'[d] = free + preHeld[d] + bufHeld[d]
<1>1. /\ preHeld[d] \in Nat /\ preHeld'[d] \in Nat
      /\ bufHeld[d] \in Nat /\ bufHeld'[d] \in Nat
  BY DEF Shapes, WorkShapes
<1>2. ASSUME NEW n \in Nat, NEW h \in Nat, TakesNext(d, w, n, h) \/ EndsWork(d, w, n, h)
      PROVE  free' \in Nat /\ free' + bufHeld'[d] = n + h
  BY <1>2 DEF TakesNext, EndsWork
<1>3. CASE Begins(d, w)
  <2>1. free' \in Nat /\ free' + bufHeld'[d] = free + bufHeld[d]
    BY <1>1, <1>2, <1>3 DEF Begins
  <2>2. preHeld'[d] = preHeld[d]
    BY <1>3 DEF Begins
  <2> QED
    BY <1>1, <2>1, <2>2
<1>4. CASE Retries(d, w)
  BY <1>4 DEF Retries
<1>5. CASE Arrives(d, w)
  <2>1. PICK n \in Nat, short \in BOOLEAN :
           n + preHeld'[d] = free + preHeld[d] /\ ArrivesAt(d, w, n, short)
    BY <1>5 DEF Arrives
  <2> DEFINE b == IF d \in ToFile THEN Given(bufHeld[d]) ELSE 0
             h == bufHeld[d] - b
  <2>2. /\ b \in Nat /\ h \in Nat
        /\ \/ free' = n + b /\ bufHeld'[d] = h
           \/ TakesNext(d, w, n + b, h) \/ EndsWork(d, w, n + b, h)
    BY <2>1 DEF ArrivesAt
  <2>3. n + b \in Nat
    BY <2>2
  <2>4. free' \in Nat /\ free' + bufHeld'[d] = n + b + h
    <3> HIDE DEF b, h
    <3> QED
      BY <1>2, <2>2, <2>3
  <2>5. b + h = bufHeld[d]
    <3> HIDE DEF b
    <3> QED
      BY <1>1, <2>2
  <2>6. b \in Nat /\ h \in Nat /\ n \in Nat /\ n + preHeld'[d] = free + preHeld[d]
    BY <2>1, <2>2
  <2> HIDE DEF b, h
  <2> QED
    BY <1>1, <2>4, <2>5, <2>6
<1> QED
  BY <1>3, <1>4, <1>5 DEF WorkerStep

-----------------------------------------------------------------------------
(* Every step is one of these, of one download.                            *)

OwnStep(d) ==
    \/ Grants(d)
    \/ \E k \in Parts : Fetches(d, k)
    \/ \E n \in 0 .. Prefetch : Prefetches(d, n)
    \/ \E w \in Workers : WorkerStep(d, w)
    \/ Leaves(d) \/ HasFirst(d) \/ HasPool(d) \/ HandsOut(d) \/ Consumes(d)
    \/ phase[d] \in Streaming /\ Halts(d) /\ Finishes(d)
    \/ Joins(d) \/ Cancels(d) \/ Drops(d)

Rests == Shapes' /\ free' = free /\ line' = line /\ \A e \in Downloads : Same(e)

LEMMA BusyParts ==
    ASSUME Shapes, NEW d \in Downloads, DownloadOK(d)
    PROVE  /\ \A w \in Workers : worker[d][w] \in Busy =>
                 chunk[d][w] \in Parts /\ chunk[d][w] < next[d]
           /\ phase[d] \in Streaming => at[d] \in Parts
<1>1. next[d] \in 1 .. Chunks + 1
  BY DEF Shapes, WorkShapes
<1> QED
  BY <1>1, Numbers DEF DownloadOK, ChunksOK, StageOK

LEMMA StepIs ==
    ASSUME IInv, [Next]_vars
    PROVE  Rests \/ \E d \in Downloads : Own(d) /\ OwnStep(d)
<1>1. Shapes /\ free \in Nat /\ LineOK
  BY DEF IInv, SlotsOK
<1>2. CASE UNCHANGED vars
  BY <1>1, <1>2 DEF vars, semaphore, budgets, generator, prefetching, working, data,
     Rests, Same, SameWork, Shapes, WorkShapes
<1>3. CASE Grant
  BY <1>1, <1>3, GrantIs DEF OwnStep
<1>4. ASSUME NEW d \in Downloads, PoolDone(d) PROVE Rests
  BY <1>1, <1>4, PoolDoneIs DEF Rests
<1>5. ASSUME NEW d \in Downloads, PrefetchStep(d) PROVE Own(d) /\ OwnStep(d)
  BY <1>1, <1>5, PrefetchesIs, FetchesIs DEF PrefetchStep, OwnStep
<1>6. ASSUME NEW d \in Downloads, Work(d) PROVE Own(d) /\ OwnStep(d)
  <2>1. ASSUME NEW w \in Workers,
               \/ WorkerStarts(d, w) \/ TakesAhead(d, w) \/ Fetched(d, w)
               \/ FetchFails(d, w) \/ FetchRestarted(d, w) \/ AltFails(d, w)
        PROVE  Own(d) /\ WorkerStep(d, w)
    <3>1. worker[d][w] \in {"ahead", "fetch", "alt"} => chunk[d][w] \in Parts
      BY <1>1, BusyParts DEF IInv, Busy, Paying, Fetching, FetchStates
    <3>2. CASE WorkerStarts(d, w)
      BY <1>1, <3>2, WorkerStartsIs
    <3>3. CASE TakesAhead(d, w)
      <4>1. worker[d][w] = "ahead"
        BY <3>3 DEF TakesAhead
      <4> QED
        BY <1>1, <3>1, <3>3, <4>1, TakesAheadIs
    <3>4. CASE Fetched(d, w)
      <4>1. worker[d][w] \in {"fetch", "alt"}
        BY <3>4 DEF Fetched
      <4> QED
        BY <1>1, <3>1, <3>4, <4>1, FetchedIs
    <3>5. CASE FetchFails(d, w) \/ FetchRestarted(d, w) \/ AltFails(d, w)
      BY <1>1, <3>5, RetryIs
    <3> QED
      BY <2>1, <3>2, <3>3, <3>4, <3>5
  <2> QED
    BY <1>6, <2>1 DEF Work, OwnStep
<1>7. ASSUME NEW d \in Downloads, Generate(d) \/ FirstFails(d) \/ Close(d)
      PROVE  Own(d) /\ OwnStep(d)
  <2>1. phase[d] \in Streaming => at[d] \in Parts
    BY <1>1, BusyParts DEF IInv
  <2>2. \A w \in Workers : worker[d][w] = "ahead" => chunk[d][w] \in Parts
    BY <1>1, BusyParts DEF IInv, Busy, Paying
  <2>3. CASE \/ FirstFails(d) \/ FirstWasShort(d)
             \/ PoolAwaited(d) /\ pool[d] = "failed"
             \/ Close(d) /\ phase[d] \in {"first", "out0"}
    BY <1>1, <2>3, LeavesIs DEF OwnStep
  <2>4. CASE PoolAwaited(d) /\ pool[d] = "ready"
    BY <1>1, <2>4, PoolAwaitedIs DEF OwnStep
  <2>5. CASE FirstArrives(d)
    BY <1>1, <2>5, FirstArrivesIs DEF OwnStep
  <2>6. CASE Delivers(d)
    BY <1>1, <2>6, DeliversIs DEF OwnStep
  <2>7. CASE Consumed(d) /\ ~ (at[d] \in cut[d] \/ at[d] = Chunks)
    <3>1. at[d] \in Parts
      BY <2>1, <2>7 DEF Consumed, Streaming
    <3> QED
      BY <1>1, <2>7, <3>1, ConsumesIs DEF OwnStep
  <2>8. CASE \/ Consumed(d) /\ (at[d] \in cut[d] \/ at[d] = Chunks)
             \/ LoopEnds(d)
             \/ Close(d) /\ phase[d] \notin {"first", "out0"}
    BY <1>1, <2>1, <2>2, <2>8, FinishesIs DEF OwnStep
  <2>9. CASE WorkersStopped(d) \/ PrefetchCancelled(d) \/ PrefetchDropped(d)
    BY <1>1, <2>9, WorkersStoppedIs, PrefetchCancelledIs, PrefetchDroppedIs DEF OwnStep
  <2>10. PoolAwaited(d) => pool[d] \in {"ready", "failed"}
    BY DEF PoolAwaited
  <2> QED
    BY <1>7, <2>3, <2>4, <2>5, <2>6, <2>7, <2>8, <2>9, <2>10 DEF Generate
<1> QED
  BY <1>2, <1>3, <1>4, <1>5, <1>6, <1>7 DEF Next

LEMMA SlotsKept ==
    ASSUME Shapes, SlotsOK, NEW d \in Downloads, StageOK(d), Own(d), OwnStep(d)
    PROVE  SlotsOK'
<1>1. Shapes' /\ \A e \in Downloads : e # d => preHeld'[e] = preHeld[e] /\ bufHeld'[e] = bufHeld[e]
  BY DEF Own, Same, SameWork
<1>2. /\ preHeld[d] \in Nat /\ preHeld'[d] \in Nat
      /\ bufHeld[d] \in Nat /\ bufHeld'[d] \in Nat
      /\ free \in Nat
  BY <1>1 DEF Shapes, WorkShapes, SlotsOK
<1>3. free' \in Nat /\ free' + preHeld'[d] + bufHeld'[d] = free + preHeld[d] + bufHeld[d]
  <2>1. CASE Grants(d)
    <3>1. free \in Nat \ {0} /\ free' = free - 1
      BY <2>1 DEF Grants
    <3>2. free' \in Nat
      BY <3>1
    <3>3. \/ preHeld'[d] = preHeld[d] + 1 /\ bufHeld'[d] = bufHeld[d]
          \/ preHeld'[d] = preHeld[d] /\ bufHeld'[d] = bufHeld[d] + 1
      BY <2>1 DEF Grants, GrantsAhead, GrantsWorker
    <3>4. CASE preHeld'[d] = preHeld[d] + 1 /\ bufHeld'[d] = bufHeld[d]
      BY <1>2, <3>1, <3>2, <3>4
    <3>5. CASE preHeld'[d] = preHeld[d] /\ bufHeld'[d] = bufHeld[d] + 1
      BY <1>2, <3>1, <3>2, <3>5
    <3> QED
      BY <3>3, <3>4, <3>5
  <2>2. ASSUME NEW n \in 0 .. Prefetch, Prefetches(d, n)
        PROVE  free' \in Nat /\ free' + preHeld'[d] + bufHeld'[d] = free + preHeld[d] + bufHeld[d]
    <3>1. preHeld[d] = 0
      BY <2>2 DEF Prefetches, StageOK
    <3>2. preHeld'[d] = n /\ bufHeld'[d] = bufHeld[d] /\ free' = free - n /\ free' \in Nat
      BY <2>2 DEF Prefetches
    <3>3. n \in Nat
      BY Numbers
    <3> QED
      BY <1>2, <3>1, <3>2, <3>3
  <2>3. CASE \E w \in Workers : WorkerStep(d, w)
    BY <1>1, <1>2, <2>3, WorkerKeepsSlots
  <2>4. CASE \/ \E k \in Parts : Fetches(d, k)
             \/ Leaves(d) \/ HasFirst(d) \/ HasPool(d) \/ Consumes(d)
             \/ Cancels(d)
    <3>1. free' = free /\ preHeld'[d] = preHeld[d] /\ bufHeld'[d] = bufHeld[d]
      BY <2>4 DEF Fetches, Leaves, HasFirst, HasPool, Consumes, Cancels, SameSlots
    <3> QED
      BY <1>2, <3>1
  <2>5. CASE HandsOut(d)
    <3>1. /\ free' \in Nat /\ free' + bufHeld'[d] = free + bufHeld[d]
          /\ preHeld'[d] = preHeld[d]
      BY <2>5 DEF HandsOut
    <3> QED
      BY <1>2, <3>1
  <2>6. CASE Halts(d)
    BY <2>6 DEF Halts
  <2>7. CASE Joins(d)
    <3>1. free' = free + bufHeld[d] /\ preHeld'[d] = preHeld[d] /\ bufHeld'[d] = 0
      BY <2>7 DEF Joins
    <3> QED
      BY <1>2, <3>1
  <2>8. CASE Drops(d)
    <3>1. free' = free + preHeld[d] /\ preHeld'[d] = 0 /\ bufHeld'[d] = bufHeld[d]
      BY <2>8 DEF Drops
    <3> QED
      BY <1>2, <3>1
  <2> QED
    BY <2>1, <2>2, <2>3, <2>4, <2>5, <2>6, <2>7, <2>8 DEF OwnStep
<1> QED
  BY <1>1, <1>3, SlotsMove

-----------------------------------------------------------------------------
(* The other downloads are as they were.                                   *)

LEMMA OthersKept ==
    ASSUME NEW e \in Downloads, Same(e), DownloadOK(e)
    PROVE  DownloadOK(e)'
<1>1. Got(e)' = Got(e) /\ Raised(e)' = Raised(e)
  BY DEF Same, SameWork, Got, Raised
<1>2. Kept(e)' = Kept(e) /\ Payers(e)' = Payers(e)
  BY DEF Same, SameWork, Kept, Payers, Untaken
<1>3. StageOK(e)'
  BY DEF DownloadOK, StageOK, Same, SameWork
<1>4. ChunksOK(e)'
  BY <1>1 DEF DownloadOK, ChunksOK, Same, SameWork
<1>5. StreamOK(e)'
  BY <1>1 DEF DownloadOK, StreamOK, Same, SameWork
<1>6. ResultOK(e)'
  BY DEF DownloadOK, ResultOK, Over, Same, SameWork
<1>7. PaidOK(e)'
  BY <1>1, <1>2 DEF DownloadOK, PaidOK, Over, Same, SameWork
<1> QED
  BY <1>3, <1>4, <1>5, <1>6, <1>7 DEF DownloadOK

-----------------------------------------------------------------------------
(* The line is kept.                                                       *)

LEMMA AllJoin ==
    ASSUME NEW S, line \in Seq(S), NEW more \in Seq(S),
           \A i \in DOMAIN line, j \in DOMAIN more : line[i] # more[j],
           \A i, j \in DOMAIN more : more[i] = more[j] => i = j,
           \A i, j \in DOMAIN line : line[i] = line[j] => i = j
    PROVE  /\ line \o more \in Seq(S)
           /\ \A i \in DOMAIN (line \o more) :
                 \/ \E j \in DOMAIN line : (line \o more)[i] = line[j]
                 \/ \E j \in DOMAIN more : (line \o more)[i] = more[j]
           /\ \A i, j \in DOMAIN (line \o more) :
                 (line \o more)[i] = (line \o more)[j] => i = j
<1> DEFINE m == Len(line)
           n == Len(more)
           new == line \o more
<1>1. /\ m \in Nat /\ n \in Nat /\ DOMAIN line = 1 .. m /\ DOMAIN more = 1 .. n
      /\ new \in Seq(S) /\ DOMAIN new = 1 .. m + n
      /\ \A i \in 1 .. m + n : new[i] = IF i <= m THEN line[i] ELSE more[i - m]
  BY LenProperties, ConcatProperties
<1> HIDE DEF m, n, new
<1>2. \A i \in 1 .. m + n : \/ i \in 1 .. m /\ i <= m
                            \/ i - m \in 1 .. n /\ ~ (i <= m)
  BY <1>1
<1>3. ASSUME NEW i \in 1 .. m + n
      PROVE  \/ i \in DOMAIN line /\ new[i] = line[i]
             \/ i - m \in DOMAIN more /\ new[i] = more[i - m]
  BY <1>1, <1>2
<1>4. ASSUME NEW i \in 1 .. m + n, NEW j \in 1 .. m + n, new[i] = new[j]
      PROVE  i = j
  <2>1. CASE i \in DOMAIN line /\ new[i] = line[i]
    <3>1. j \in DOMAIN line /\ new[j] = line[j]
      BY <1>3, <1>4, <2>1
    <3> QED
      BY <1>4, <2>1, <3>1
  <2>2. CASE i - m \in DOMAIN more /\ new[i] = more[i - m]
    <3>1. j - m \in DOMAIN more /\ new[j] = more[j - m]
      <4>1. CASE j \in DOMAIN line /\ new[j] = line[j]
        <5>1. line[j] = more[i - m]
          BY <1>4, <2>2, <4>1
        <5> QED
          BY <2>2, <4>1, <5>1
      <4> QED
        BY <1>3, <4>1
    <3>2. i - m = j - m
      BY <1>4, <2>2, <3>1
    <3> QED
      BY <1>1, <3>2
  <2> QED
    BY <1>3, <2>1, <2>2
<1> QED
  BY <1>1, <1>3, <1>4 DEF new

\* Who waited, and is not concerned, still waits.
LEMMA WaitsStill ==
    ASSUME NEW d \in Downloads, Own(d), NEW x \in Waiters, Waits(x),
           \A w \in Workers :
              x = <<d, "worker", w>> /\ worker[d][w] = "slot" => worker'[d][w] = "slot",
           \A k \in Parts :
              x = <<d, "ahead", k>> /\ ahead[d][k] = "line" => ahead'[d][k] = "line"
    PROVE  Waits(x)'
<1>1. \/ \E e \in Downloads, w \in Workers : x = <<e, "worker", w>>
      \/ \E e \in Downloads, k \in Parts : x = <<e, "ahead", k>>
  BY DEF Waiters
<1>2. \A e \in Downloads : e # d => worker'[e] = worker[e] /\ ahead'[e] = ahead[e]
  BY DEF Own, Same, SameWork
<1>3. ASSUME NEW e \in Downloads, NEW w \in Workers, x = <<e, "worker", w>>
      PROVE  Waits(x)'
  <2>1. worker[e][w] = "slot"
    BY <1>3 DEF Waits
  <2>2. worker'[e][w] = "slot"
    BY <1>2, <1>3, <2>1
  <2> QED
    BY <1>3, <2>2 DEF Waits
<1>4. ASSUME NEW e \in Downloads, NEW k \in Parts, x = <<e, "ahead", k>>
      PROVE  Waits(x)'
  <2>1. ahead[e][k] = "line"
    BY <1>4 DEF Waits
  <2>2. ahead'[e][k] = "line"
    BY <1>2, <1>4, <2>1
  <2> QED
    BY <1>4, <2>2 DEF Waits
<1> QED
  BY <1>1, <1>3, <1>4

\* The new line holds tasks that were in it and still wait, or that wait now.
LEMMA LineIs ==
    ASSUME line' \in Seq(Waiters),
           \A i, j \in DOMAIN line' : line'[i] = line'[j] => i = j,
           \A i \in DOMAIN line' : \E x \in Waiters : line'[i] = x /\ Waits(x)'
    PROVE  LineOK'
<1>1. ASSUME NEW i \in DOMAIN line'
      PROVE  \/ line'[i][2] = "worker" /\ worker'[line'[i][1]][line'[i][3]] = "slot"
             \/ line'[i][2] = "ahead" /\ ahead'[line'[i][1]][line'[i][3]] = "line"
  <2>1. PICK x \in Waiters : line'[i] = x /\ Waits(x)'
    BY <1>1
  <2> QED
    BY <2>1 DEF Waits
<1> QED
  BY <1>1 DEF LineOK, Waits

LEMMA LineHolds ==
    ASSUME LineOK, NEW i \in DOMAIN line
    PROVE  line[i] \in Waiters /\ Waits(line[i])
BY LenProperties, ElementOfSeq DEF LineOK

\* The line stays, and nobody in it is served.
LEMMA SameLine ==
    ASSUME LineOK, NEW d \in Downloads, Own(d), line' = line,
           \A w \in Workers : worker[d][w] = "slot" => worker'[d][w] = "slot",
           \A k \in Parts : ahead[d][k] = "line" => ahead'[d][k] = "line"
    PROVE  LineOK'
<1>1. ASSUME NEW i \in DOMAIN line PROVE \E x \in Waiters : line[i] = x /\ Waits(x)'
  <2>1. PICK x \in Waiters : x = line[i] /\ Waits(x)
    BY LineHolds
  <2>2. Waits(x)'
    BY <2>1, WaitsStill
  <2> QED
    BY <2>1, <2>2
<1> QED
  BY <1>1, LineIs DEF LineOK

\* The first one is served.
LEMMA GrantLine ==
    ASSUME LineOK, NEW d \in Downloads, Own(d), Grants(d)
    PROVE  LineOK'
<1>1. /\ line' \in Seq(Waiters)
      /\ \A i \in DOMAIN line' : /\ line'[i] # Head(line)
                                 /\ \E j \in DOMAIN line : line'[i] = line[j]
      /\ \A i, j \in DOMAIN line' : line'[i] = line'[j] => i = j
  <2>1. line \in Seq(Waiters) /\ line # <<>> /\ line' = Tail(line)
    BY DEF LineOK, Grants
  <2> QED
    BY <2>1, LeavesOnce DEF LineOK
<1>2. ASSUME NEW i \in DOMAIN line' PROVE \E x \in Waiters : line'[i] = x /\ Waits(x)'
  <2>1. PICK x \in Waiters : x = line'[i] /\ Waits(x) /\ x # Head(line)
    BY <1>1, LineHolds
  <2>2. CASE \E k \in Parts : GrantsAhead(d, k)
    <3>1. /\ worker'[d] = worker[d]
          /\ \A j \in Parts : x = <<d, "ahead", j>> => ahead'[d][j] = ahead[d][j]
      BY <2>1, <2>2 DEF GrantsAhead
    <3>2. Waits(x)'
      BY <2>1, <3>1, WaitsStill
    <3> QED
      BY <2>1, <3>2
  <2>3. CASE \E w \in Workers : GrantsWorker(d, w)
    <3>1. /\ ahead'[d] = ahead[d]
          /\ \A v \in Workers : x = <<d, "worker", v>> => worker'[d][v] = worker[d][v]
      BY <2>1, <2>3 DEF GrantsWorker
    <3>2. Waits(x)'
      BY <2>1, <3>1, WaitsStill
    <3> QED
      BY <2>1, <3>2
  <2> QED
    BY <2>2, <2>3 DEF Grants
<1> QED
  BY <1>1, <1>2, LineIs

\* A worker takes its place at the end.
LEMMA WorkerLine ==
    ASSUME LineOK, NEW d \in Downloads, Own(d), NEW w \in Workers, WorkerStep(d, w)
    PROVE  LineOK'
<1>1. /\ worker[d][w] # "slot" /\ ahead'[d] = ahead[d]
      /\ \A v \in Workers : v # w => worker'[d][v] = worker[d][v]
  BY DEF WorkerStep, Begins, Retries, Arrives, Paying, Fetching, FetchStates
<1>2. \A v \in Workers : worker[d][v] = "slot" => worker'[d][v] = "slot"
  BY <1>1
<1>3. CASE line' = line
  BY <1>1, <1>2, <1>3, SameLine
<1>4. CASE worker'[d][w] = "slot" /\ line' = Append(line, <<d, "worker", w>>)
  <2> DEFINE me == <<d, "worker", w>>
  <2>1. me \in Waiters /\ ~Waits(me) /\ Waits(me)'
    BY <1>1, <1>4 DEF Waiters, Waits
  <2> HIDE DEF me
  <2>2. line' = Append(line, me)
    BY <1>4 DEF me
  <2>3. line \in Seq(Waiters) /\ \A i \in DOMAIN line : line[i] # me
    BY <2>1, LineHolds DEF LineOK
  <2>4. /\ line' \in Seq(Waiters)
        /\ \A i \in DOMAIN line' : line'[i] = me \/ \E j \in DOMAIN line : line'[i] = line[j]
        /\ \A i, j \in DOMAIN line' : line'[i] = line'[j] => i = j
    BY <2>1, <2>2, <2>3, JoinsOnce DEF LineOK
  <2>5. ASSUME NEW i \in DOMAIN line' PROVE \E x \in Waiters : line'[i] = x /\ Waits(x)'
    <3>1. CASE line'[i] = me
      BY <2>1, <3>1
    <3>2. CASE \E j \in DOMAIN line : line'[i] = line[j]
      <4>1. PICK x \in Waiters : x = line'[i] /\ Waits(x)
        BY <3>2, LineHolds
      <4>2. Waits(x)'
        BY <1>1, <1>2, <4>1, WaitsStill
      <4> QED
        BY <4>1, <4>2
    <3> QED
      BY <2>4, <3>1, <3>2
  <2> QED
    BY <2>4, <2>5, LineIs
<1>5. line' = line \/ (worker'[d][w] = "slot" /\ line' = Append(line, <<d, "worker", w>>))
  BY DEF WorkerStep, Begins, Retries, Arrives, ArrivesAt, TakesNext, EndsWork
<1> QED
  BY <1>3, <1>4, <1>5

\* The prefetched chunks that get no slot at once take their places.
LEMMA PrefetchLine ==
    ASSUME LineOK, NEW d \in Downloads, StageOK(d), Own(d),
           NEW n \in 0 .. Prefetch, Prefetches(d, n)
    PROVE  LineOK'
<1> DEFINE more == [i \in 1 .. Prefetch - n |-> <<d, "ahead", n + i>>]
           size == Prefetch - n
<1>1. /\ \A k \in Parts : ahead[d][k] = None
      /\ line' = line \o more /\ worker'[d] = worker[d]
      /\ \A k \in Parts : ~ (k <= n) /\ k <= Prefetch => ahead'[d][k] = "line"
  BY DEF StageOK, Prefetches
<1>2. /\ size \in Nat /\ \A i \in 1 .. size : /\ n + i \in Parts
                                              /\ ~ (n + i <= n) /\ n + i <= Prefetch
  BY Numbers
<1>3. ASSUME NEW i \in 1 .. size
      PROVE  more[i] = <<d, "ahead", n + i>> /\ more[i] \in Waiters
  BY <1>2 DEF Waiters
<1>4. more \in Seq(Waiters) /\ DOMAIN more = 1 .. size
  <2>1. \A i \in 1 .. size : <<d, "ahead", n + i>> \in Waiters
    BY <1>3
  <2> HIDE DEF size
  <2>2. DOMAIN [i \in 1 .. size |-> <<d, "ahead", n + i>>] = 1 .. size
    OBVIOUS
  <2> QED
    BY <1>2, <2>1, <2>2, IsASeq DEF size
<1> HIDE DEF more
<1>5. ASSUME NEW i \in DOMAIN more PROVE ~Waits(more[i]) /\ \E x \in Waiters : more[i] = x /\ Waits(x)'
  <2>1. /\ more[i] = <<d, "ahead", n + i>> /\ more[i] \in Waiters
        /\ ahead[d][n + i] = None /\ ahead'[d][n + i] = "line"
    BY <1>1, <1>2, <1>3, <1>4
  <2> DEFINE x == <<d, "ahead", n + i>>
  <2>2. x \in Waiters /\ ~Waits(x) /\ Waits(x)'
    BY <2>1 DEF Waits, None
  <2> QED
    BY <2>1, <2>2
<1>6. \A i, j \in DOMAIN more : more[i] = more[j] => i = j
  <2> SUFFICES ASSUME NEW i \in DOMAIN more, NEW j \in DOMAIN more, more[i] = more[j]
               PROVE  i = j
    OBVIOUS
  <2>1. n + i = n + j
    BY <1>3, <1>4
  <2> QED
    BY <1>4, <2>1
<1>7. \A i \in DOMAIN line, j \in DOMAIN more : line[i] # more[j]
  BY <1>5, LineHolds
<1>8. /\ line' \in Seq(Waiters)
      /\ \A i \in DOMAIN line' : \/ \E j \in DOMAIN line : line'[i] = line[j]
                                 \/ \E j \in DOMAIN more : line'[i] = more[j]
      /\ \A i, j \in DOMAIN line' : line'[i] = line'[j] => i = j
  <2>1. line \in Seq(Waiters) /\ \A i, j \in DOMAIN line : line[i] = line[j] => i = j
    BY DEF LineOK
  <2>2. more \in Seq(Waiters) /\ line' = line \o more
    BY <1>1, <1>4
  <2>3. /\ line \o more \in Seq(Waiters)
        /\ \A i \in DOMAIN (line \o more) :
              \/ \E j \in DOMAIN line : (line \o more)[i] = line[j]
              \/ \E j \in DOMAIN more : (line \o more)[i] = more[j]
        /\ \A i, j \in DOMAIN (line \o more) :
              (line \o more)[i] = (line \o more)[j] => i = j
    BY <1>6, <1>7, <2>1, <2>2, AllJoin
  <2> QED
    BY <2>2, <2>3
<1>9. ASSUME NEW i \in DOMAIN line' PROVE \E x \in Waiters : line'[i] = x /\ Waits(x)'
  <2>1. CASE \E j \in DOMAIN line : line'[i] = line[j]
    <3>1. PICK x \in Waiters : x = line'[i] /\ Waits(x)
      BY <2>1, LineHolds
    <3>2. Waits(x)'
      BY <1>1, <3>1, WaitsStill DEF None
    <3> QED
      BY <3>1, <3>2
  <2>2. CASE \E j \in DOMAIN more : line'[i] = more[j]
    BY <1>5, <2>2
  <2> QED
    BY <1>8, <2>1, <2>2
<1> QED
  BY <1>8, <1>9, LineIs

\* The cancelled tasks leave the line, and whoever stays was not cancelled.
LEMMA CancelLine ==
    ASSUME LineOK, NEW d \in Downloads, Own(d), NEW gone, line' = Without(gone),
           \A w \in Workers : worker[d][w] = "slot" /\ worker'[d][w] # "slot"
                                 => <<d, "worker", w>> \in gone,
           \A k \in Parts : ahead[d][k] = "line" /\ ahead'[d][k] # "line"
                                 => <<d, "ahead", k>> \in gone
    PROVE  LineOK'
<1>1. /\ line' \in Seq(Waiters)
      /\ \A i \in DOMAIN line' :
            \E j \in DOMAIN line : line'[i] = line[j] /\ line[j] \notin gone
      /\ \A i, j \in DOMAIN line' : line'[i] = line'[j] => i = j
  BY WithoutIs DEF LineOK
<1>2. ASSUME NEW i \in DOMAIN line' PROVE \E x \in Waiters : line'[i] = x /\ Waits(x)'
  <2>1. PICK x \in Waiters : x = line'[i] /\ Waits(x) /\ x \notin gone
    BY <1>1, LineHolds
  <2>2. Waits(x)'
    BY <2>1, WaitsStill
  <2> QED
    BY <2>1, <2>2
<1> QED
  BY <1>1, <1>2, LineIs

LEMMA LineKept ==
    ASSUME LineOK, NEW d \in Downloads, StageOK(d), Own(d), OwnStep(d)
    PROVE  LineOK'
<1>1. CASE Grants(d)
  BY <1>1, GrantLine
<1>2. CASE \E w \in Workers : WorkerStep(d, w)
  BY <1>2, WorkerLine
<1>3. CASE \E n \in 0 .. Prefetch : Prefetches(d, n)
  BY <1>3, PrefetchLine
<1>4. CASE Halts(d)
  <2>1. PICK gone : /\ line' = Without(gone)
                    /\ \A w \in Workers : <<d, "worker", w>> \in gone
                    /\ \A k \in Parts : ahead[d][k] = "line" /\ ahead'[d][k] # "line"
                                           => <<d, "ahead", k>> \in gone
    BY <1>4 DEF Halts
  <2> QED
    BY <2>1, CancelLine
<1>5. CASE Cancels(d)
  <2> DEFINE gone == {d} \X {"ahead"} \X listed[d]
  <2>1. /\ line' = Without(gone) /\ worker'[d] = worker[d]
        /\ \A k \in Parts : ahead[d][k] = "line" /\ ahead'[d][k] # "line"
                               => <<d, "ahead", k>> \in gone
    BY <1>5 DEF Cancels
  <2> HIDE DEF gone
  <2> QED
    BY <2>1, CancelLine
<1>6. CASE \/ \E k \in Parts : Fetches(d, k)
           \/ Leaves(d) \/ HasFirst(d) \/ HasPool(d) \/ HandsOut(d) \/ Consumes(d)
           \/ Joins(d) \/ Drops(d)
  <2>1. /\ line' = line
        /\ \A w \in Workers : worker[d][w] = "slot" => worker'[d][w] = "slot"
        /\ \A k \in Parts : ahead[d][k] = "line" => ahead'[d][k] = "line"
    <3>1. CASE \E k \in Parts : Fetches(d, k)
      BY <3>1 DEF Fetches, SameSlots, FetchStates
    <3>2. CASE HasPool(d)
      BY <3>2 DEF HasPool, SameSlots, StageOK, None
    <3>3. CASE Leaves(d) \/ HasFirst(d) \/ HandsOut(d) \/ Consumes(d) \/ Joins(d) \/ Drops(d)
      BY <3>3 DEF Leaves, HasFirst, HandsOut, Consumes, Joins, Drops, SameTasks, SameSlots
    <3> QED
      BY <1>6, <3>1, <3>2, <3>3
  <2> QED
    BY <2>1, SameLine
<1> QED
  BY <1>1, <1>2, <1>3, <1>4, <1>5, <1>6 DEF OwnStep

-----------------------------------------------------------------------------
(* The stage is kept.                                                      *)

\* There are workers at work only between their start and their end.
LEMMA WorkIsOn ==
    ASSUME Shapes, NEW d \in Downloads, StageOK(d), NEW w \in Workers,
           worker[d][w] \in Busy \cup {"new"}
    PROVE  phase[d] \in Streaming \cup {"stopWorkers"} /\ ahead[d][1] # None
<1>1. worker[d][w] \notin WorkerEnded \cup {None}
  BY DEF Busy, Paying, Fetching, FetchStates, WorkerEnded, None
<1>2. phase[d] \in Phases
  BY DEF Shapes
<1> QED
  BY <1>1, <1>2 DEF StageOK, Phases, Streaming

LEMMA WorkerStage ==
    ASSUME Shapes, NEW d \in Downloads, StageOK(d), NEW w \in Workers, WorkerStep(d, w)
    PROVE  StageOK(d)'
<1>1. worker[d][w] \in Busy \cup {"new"}
  BY DEF WorkerStep, Begins, Retries, Arrives, Busy
<1>2. phase[d] \in Streaming \cup {"stopWorkers"} /\ ahead[d][1] # None
  BY <1>1, WorkIsOn
<1>3. /\ phase'[d] = phase[d] /\ result'[d] = result[d] /\ at'[d] = at[d] /\ ahead'[d] = ahead[d]
      /\ \A v \in Workers : v # w => worker'[d][v] = worker[d][v]
  BY DEF WorkerStep
<1>4. worker'[d][w] \notin {None, "cancelled"}
  BY DEF WorkerStep, Begins, Retries, Arrives, ArrivesAt, TakesNext, EndsWork, Fetching,
         FetchStates, None
<1>5. IF d \in ToFile THEN received'[d] = received[d] ELSE written'[d] = written[d]
  BY DEF WorkerStep, Begins, Retries, Arrives, ArrivesAt, SameWritten
<1> QED
  BY <1>2, <1>3, <1>4, <1>5 DEF StageOK, Streaming

LEMMA GrantStage ==
    ASSUME Shapes, NEW d \in Downloads, StageOK(d), Grants(d)
    PROVE  StageOK(d)'
<1>1. /\ SameStage(d) /\ SameWritten(d)
      /\ next'[d] = next[d] /\ listed'[d] = listed[d]
  BY DEF Grants
<1>2. CASE \E k \in Parts : GrantsAhead(d, k)
  <2>1. PICK k \in Parts : GrantsAhead(d, k)
    BY <1>2
  <2>2. /\ \A j \in Parts : ahead'[d][j] = ahead[d][j] \/ ahead'[d][j] = "fetch"
        /\ worker'[d] = worker[d] /\ bufHeld'[d] = bufHeld[d]
        /\ ahead[d][k] = "line"
    BY <2>1 DEF GrantsAhead
  <2>3. ahead[d][1] # None /\ ahead'[d][1] # None
    BY <2>2, Numbers DEF StageOK, None
  <2> QED
    BY <1>1, <2>2, <2>3 DEF StageOK, SameStage, SameWritten
<1>3. CASE \E w \in Workers : GrantsWorker(d, w)
  <2>1. PICK w \in Workers : GrantsWorker(d, w)
    BY <1>3
  <2>2. phase[d] \in Streaming \cup {"stopWorkers"} /\ ahead[d][1] # None
    BY <2>1, WorkIsOn DEF GrantsWorker, Busy
  <2>3. /\ ahead'[d] = ahead[d] /\ worker'[d][w] \in {"fetch", "ahead"}
        /\ \A v \in Workers : v # w => worker'[d][v] = worker[d][v]
    BY <2>1 DEF GrantsWorker
  <2> QED
    BY <1>1, <2>2, <2>3 DEF StageOK, SameStage, SameWritten, Streaming, None
<1> QED
  BY <1>2, <1>3 DEF Grants

LEMMA AheadStage ==
    ASSUME Shapes, NEW d \in Downloads, StageOK(d),
           \/ \E k \in Parts : Fetches(d, k)
           \/ \E n \in 0 .. Prefetch : Prefetches(d, n)
    PROVE  StageOK(d)'
<1>1. /\ SameStage(d) /\ SameWritten(d)
      /\ next'[d] = next[d] /\ worker'[d] = worker[d] /\ bufHeld'[d] = bufHeld[d]
  BY DEF Fetches, Prefetches, SameSlots
<1>2. CASE \E k \in Parts : Fetches(d, k)
  <2>1. PICK k \in Parts : Fetches(d, k)
    BY <1>2
  <2>2. /\ \A j \in Parts : \/ ahead'[d][j] = ahead[d][j]
                            \/ ahead'[d][j] \in {"ok", "restart", "oserror", "failed", "fetch"}
        /\ ahead[d][k] \in FetchStates
    BY <2>1 DEF Fetches
  <2>3. ahead[d][1] # None /\ ahead'[d][1] # None
    BY <2>2, Numbers DEF StageOK, FetchStates, None
  <2> QED
    BY <1>1, <2>2, <2>3 DEF StageOK, SameStage, SameWritten
<1>3. CASE \E n \in 0 .. Prefetch : Prefetches(d, n)
  <2>1. PICK n \in 0 .. Prefetch : Prefetches(d, n)
    BY <1>3
  <2>2. /\ \A j \in Parts : ahead'[d][j] \in {"fetch", "line", None}
        /\ ahead'[d][1] # None /\ phase[d] \in {"first", "out0"}
    BY <2>1, Numbers DEF Prefetches, None
  <2> QED
    BY <1>1, <2>2 DEF StageOK, SameStage, SameWritten, Streaming, None
<1> QED
  BY <1>2, <1>3

LEMMA EndStage ==
    ASSUME Shapes, NEW d \in Downloads, StageOK(d),
           \/ phase[d] \in Streaming /\ Halts(d) /\ Finishes(d)
           \/ Joins(d) \/ Cancels(d) \/ Drops(d)
    PROVE  StageOK(d)'
<1>1. CASE phase[d] \in Streaming /\ Halts(d) /\ Finishes(d)
  <2>1. /\ ahead[d][1] # None /\ phase'[d] = "stopWorkers" /\ SameWritten(d)
        /\ ahead'[d][1] # None
    BY <1>1, Numbers DEF StageOK, Halts, None
  <2>2. d \in ToFile => at'[d] = at[d]
    BY <1>1 DEF Finishes, StageOK
  <2> QED
    BY <2>1, <2>2 DEF StageOK, Streaming, SameWritten
<1>2. CASE Joins(d)
  <2>1. \A w \in Workers : worker'[d][w] \in WorkerEnded
    BY <1>2 DEF Joins, AllEnded, SameTasks
  <2> QED
    BY <1>2, <2>1 DEF Joins, StageOK, SameTasks, SameWritten, Streaming
<1>3. CASE Cancels(d)
  <2>1. ahead'[d][1] = None => \A k \in Parts : ahead'[d][k] = None /\ ahead[d][k] = None
    BY <1>3, Numbers DEF Cancels, StageOK, None
  <2> QED
    BY <1>3, <2>1, Numbers DEF Cancels, StageOK, SameWritten, Streaming
<1>4. CASE Drops(d)
  BY <1>4 DEF Drops, StageOK, SameWritten, Streaming
<1> QED
  BY <1>1, <1>2, <1>3, <1>4

LEMMA StageKept ==
    ASSUME Shapes, NEW d \in Downloads, StageOK(d), Own(d), OwnStep(d)
    PROVE  StageOK(d)'
<1>1. CASE \E w \in Workers : WorkerStep(d, w)
  BY <1>1, WorkerStage
<1>2. CASE Grants(d)
  BY <1>2, GrantStage
<1>3. CASE \/ \E k \in Parts : Fetches(d, k)
           \/ \E n \in 0 .. Prefetch : Prefetches(d, n)
  BY <1>3, AheadStage
<1>4. CASE \/ phase[d] \in Streaming /\ Halts(d) /\ Finishes(d)
           \/ Joins(d) \/ Cancels(d) \/ Drops(d)
  BY <1>4, EndStage
<1>5. CASE Leaves(d)
  BY <1>5 DEF Leaves, StageOK, SameTasks, SameSlots, SameWritten, Streaming
<1>6. CASE HasFirst(d)
  BY <1>6 DEF HasFirst, StageOK, SameTasks, SameSlots, Streaming
<1>7. CASE HasPool(d)
  BY <1>7, Numbers DEF HasPool, StageOK, SameSlots, SameWritten, Streaming, None
<1>8. CASE HandsOut(d)
  BY <1>8 DEF HandsOut, StageOK, SameTasks, Streaming
<1>9. CASE Consumes(d)
  <2>1. at[d] \in Parts /\ at[d] # Chunks /\ d \notin ToFile
    BY <1>9 DEF Consumes, StageOK, Streaming
  <2>2. at[d] + 1 \in Parts
    BY <2>1, Numbers
  <2> QED
    BY <1>9, <2>1, <2>2 DEF Consumes, StageOK, SameTasks, SameWritten, Streaming
<1> QED
  BY <1>1, <1>2, <1>3, <1>4, <1>5, <1>6, <1>7, <1>8, <1>9 DEF OwnStep

-----------------------------------------------------------------------------
(* The chunks that have arrived.                                           *)

LEMMA InGot ==
    ASSUME NEW d \in Downloads, NEW k \in Parts
    PROVE  /\ k \in Got(d) <=> \/ k \in written[d] \cup received[d]
                               \/ k < at[d]
                               \/ k = at[d] /\ phase[d] = "out"
           /\ k \in Got(d)' <=> \/ k \in written'[d] \cup received'[d]
                                \/ k < at'[d]
                                \/ k = at'[d] /\ phase'[d] = "out"
BY DEF Got

\* A chunk arrives with a worker, and is lost only by a generator that stops.
LEMMA GotMoves ==
    ASSUME Shapes, NEW d \in Downloads, StageOK(d), Own(d), OwnStep(d), NEW k \in Parts
    PROVE  /\ k \in Got(d)' =>
                 k \in Got(d) \/ \E w \in Workers :
                                    WorkerStep(d, w) /\ Arrives(d, w) /\ k = chunk[d][w]
           /\ k \in Got(d) /\ phase'[d] \in Streaming => k \in Got(d)'
<1>1. k \in Nat /\ at[d] \in Nat /\ k >= 1 /\ phase[d] \in Phases
  BY Numbers DEF Shapes
<1>2. ASSUME SameStage(d), SameWritten(d)
      PROVE  k \in Got(d)' <=> k \in Got(d)
  BY <1>2, InGot DEF SameStage, SameWritten
<1>3. CASE Grants(d) \/ (\E j \in Parts : Fetches(d, j)) \/ \E n \in 0 .. Prefetch : Prefetches(d, n)
  BY <1>2, <1>3 DEF Grants, Fetches, Prefetches
<1>4. CASE \E w \in Workers : WorkerStep(d, w)
  <2>1. PICK w \in Workers : WorkerStep(d, w)
    BY <1>4
  <2>2. phase'[d] = phase[d] /\ at'[d] = at[d] /\ SameStage(d)
    BY <2>1 DEF WorkerStep, SameStage
  <2>3. CASE Begins(d, w) \/ Retries(d, w)
    BY <1>2, <2>2, <2>3 DEF Begins, Retries
  <2>4. CASE Arrives(d, w)
    <3>1. \/ /\ written'[d] = written[d] \cup {chunk[d][w]} /\ received'[d] = received[d]
          \/ /\ received'[d] = received[d] \cup {chunk[d][w]} /\ written'[d] = written[d]
      BY <2>4 DEF Arrives, ArrivesAt
    <3> QED
      BY <2>1, <2>2, <2>4, <3>1, InGot
  <2> QED
    BY <2>1, <2>3, <2>4 DEF WorkerStep
<1>5. CASE HasFirst(d)
  <2>1. /\ phase[d] = "first" /\ phase'[d] = "out0" /\ at'[d] = 1 /\ at[d] = 0
        /\ received'[d] = received[d] /\ written[d] = {} /\ k \notin written'[d]
    BY <1>1, <1>5 DEF HasFirst, StageOK
  <2> QED
    BY <1>1, <2>1, InGot DEF Streaming
<1>6. CASE HandsOut(d)
  <2>1. /\ phase[d] = "run" /\ phase'[d] = "out" /\ at'[d] = at[d]
        /\ at[d] \in received[d] /\ received'[d] = received[d] \ {at[d]}
        /\ written'[d] = written[d]
    BY <1>6 DEF HandsOut
  <2> QED
    BY <1>1, <2>1, InGot
<1>7. CASE Consumes(d)
  <2>1. /\ phase[d] = "out" /\ phase'[d] = "run" /\ at'[d] = at[d] + 1 /\ SameWritten(d)
    BY <1>7 DEF Consumes
  <2> QED
    BY <1>1, <2>1, InGot DEF SameWritten
<1>8. CASE phase[d] \in Streaming /\ Halts(d) /\ Finishes(d)
  <2>1. /\ phase'[d] = "stopWorkers" /\ SameWritten(d)
        /\ at'[d] = at[d] \/ (at'[d] = at[d] + 1 /\ phase[d] = "out")
    BY <1>8 DEF Halts, Finishes
  <2> QED
    BY <1>1, <2>1, InGot DEF SameWritten, Streaming
<1>9. CASE Leaves(d) \/ HasPool(d) \/ Joins(d) \/ Cancels(d) \/ Drops(d)
  <2>1. /\ SameWritten(d) /\ at'[d] = at[d] /\ phase[d] # "out" /\ phase'[d] # "out"
    BY <1>9 DEF Leaves, HasPool, Joins, Cancels, Drops
  <2> QED
    BY <2>1, InGot DEF SameWritten
<1> QED
  BY <1>3, <1>4, <1>5, <1>6, <1>7, <1>8, <1>9 DEF OwnStep

-----------------------------------------------------------------------------
(* Where the chunks are is kept.                                           *)

LEMMA StatesDiffer ==
    /\ Busy \cap WorkerEnded = {} /\ None \notin Busy /\ "new" \notin Busy
    /\ "ahead" \notin Fetching /\ "slot" \notin Paying
    /\ FetchStates \cap AheadEnded = {} /\ "line" \notin AheadEnded /\ None \in AheadEnded
BY DEF Busy, Paying, Fetching, FetchStates, WorkerEnded, AheadEnded, None

\* No worker takes a chunk, and no chunk arrives.
LEMMA ChunksStay ==
    ASSUME Shapes, NEW d \in Downloads, ChunksOK(d),
           \A k \in Parts : k \in Got(d)' => k \in Got(d),
           chunk'[d] = chunk[d], next'[d] = next[d], listed'[d] \subseteq listed[d],
           phase'[d] # "over" => listed'[d] = listed[d] /\ phase[d] # "over",
           \A k \in Parts : /\ ahead[d][k] \in AheadEnded => ahead'[d][k] = ahead[d][k]
                            /\ ahead'[d][k] = None => ahead[d][k] = None,
           \A w \in Workers : worker'[d][w] \in Busy =>
              /\ worker[d][w] \in Busy
              /\ worker'[d][w] \in Fetching =>
                    worker[d][w] \in Fetching \/ ahead[d][chunk[d][w]] = None
              /\ worker'[d][w] = "ahead" =>
                    worker[d][w] = "ahead" \/ ahead[d][chunk[d][w]] # None
    PROVE  ChunksOK(d)'
<1>1. /\ next[d] \in 1 .. Chunks + 1 /\ next[d] \in Nat
      /\ listed[d] \subseteq Parts /\ Got(d) \subseteq Parts /\ Got(d)' \subseteq Parts
      /\ (next[d] .. Chunks) \subseteq Parts
  BY Numbers DEF Shapes, WorkShapes, Got
<1>2. \A w \in Workers : worker[d][w] \in Busy => chunk[d][w] \in Parts
  BY <1>1, Numbers DEF ChunksOK
<1>3. \A w \in Workers : worker'[d][w] \in Busy =>
         /\ chunk'[d][w] \in 1 .. next'[d] - 1
         /\ chunk'[d][w] \notin Got(d)'
  BY <1>2 DEF ChunksOK
<1>4. ASSUME NEW w \in Workers, worker'[d][w] \in Fetching
      PROVE  ahead'[d][chunk'[d][w]] \in AheadEnded
  <2>1. worker'[d][w] \in Busy /\ worker[d][w] \in Busy
    BY <1>4 DEF Busy, Paying
  <2>2. ahead[d][chunk[d][w]] \in AheadEnded
    BY <1>4, <2>1, StatesDiffer DEF ChunksOK
  <2> QED
    BY <1>2, <2>1, <2>2
<1>5. ASSUME NEW w \in Workers, worker'[d][w] = "ahead"
      PROVE  ahead'[d][chunk'[d][w]] # None
  <2>1. worker'[d][w] \in Busy /\ worker[d][w] \in Busy
    BY <1>5 DEF Busy, Paying
  <2>2. ahead[d][chunk[d][w]] # None
    BY <1>5, <2>1 DEF ChunksOK
  <2> QED
    BY <1>2, <2>1, <2>2
<1>6. \A v, w \in Workers :
         worker'[d][v] \in Busy /\ worker'[d][w] \in Busy /\ chunk'[d][v] = chunk'[d][w] => v = w
  BY DEF ChunksOK
<1>7. \A k \in Got(d)' : k < next'[d] /\ ahead'[d][k] \in AheadEnded
  BY <1>1 DEF ChunksOK
<1>8. listed'[d] \subseteq next'[d] .. Chunks /\ \A k \in listed'[d] : ahead'[d][k] # None
  BY <1>1 DEF ChunksOK
<1>9. phase'[d] # "over" => \A k \in (next'[d] .. Chunks) \ listed'[d] : ahead'[d][k] = None
  BY <1>1, StatesDiffer DEF ChunksOK
<1> QED
  BY <1>3, <1>4, <1>5, <1>6, <1>7, <1>8, <1>9 DEF ChunksOK

\* A worker goes on: its chunk arrives, it stays with it, or takes the next one.
LEMMA WorkerChunks ==
    ASSUME Shapes, NEW d \in Downloads, StageOK(d), ChunksOK(d), Own(d),
           NEW w \in Workers, WorkerStep(d, w)
    PROVE  ChunksOK(d)'
<1> DEFINE k == chunk[d][w]
           NextTaken == /\ next[d] \in Parts /\ next'[d] = next[d] + 1
                        /\ chunk'[d][w] = next[d]
                        /\ \A v \in Workers : v # w => chunk'[d][v] = chunk[d][v]
                        /\ listed'[d] = listed[d] \ {next[d]}
                        /\ worker'[d][w] \in IF next[d] \in listed[d] THEN {"ahead", "slot"}
                                                                      ELSE {"fetch", "slot"}
           StillThere == /\ next'[d] = next[d] /\ chunk'[d] = chunk[d] /\ listed'[d] = listed[d]
                         /\ \/ worker'[d][w] \notin Busy
                            \/ /\ worker'[d][w] \in Fetching /\ worker[d][w] \in Paying
                               /\ \A j \in Got(d)' : j \in Got(d)
<1>1. /\ next[d] \in 1 .. Chunks + 1 /\ next[d] \in Nat /\ Chunks \in Nat
      /\ listed[d] \subseteq Parts /\ Got(d) \subseteq Parts /\ Got(d)' \subseteq Parts
      /\ (next[d] .. Chunks) \subseteq Parts
  BY Numbers DEF Shapes, WorkShapes, Got
<1>2. worker[d][w] \in Busy \cup {"new"}
  BY DEF WorkerStep, Begins, Retries, Arrives, Busy
<1>3. /\ phase[d] # "over" /\ phase'[d] = phase[d] /\ ahead'[d] = ahead[d]
      /\ \A v \in Workers : v # w => worker'[d][v] = worker[d][v]
  BY <1>2, WorkIsOn DEF WorkerStep, Streaming
<1>4. ASSUME worker[d][w] \in Paying, Repays(d, w)
      PROVE  k \in Parts /\ k < next[d] /\ ahead[d][k] \in AheadEnded
  <2>1. worker[d][w] \in Busy
    BY <1>4 DEF Busy
  <2>2. k \in 1 .. next[d] - 1 /\ (worker[d][w] \in Fetching => ahead[d][k] \in AheadEnded)
    BY <2>1 DEF ChunksOK
  <2> QED
    BY <1>1, <1>4, <2>2, Numbers DEF Repays, Paying
<1>5. \A j \in Got(d)' : j \in Got(d) \/ (Arrives(d, w) /\ j = k)
  <2>1. /\ at'[d] = at[d] /\ phase'[d] = phase[d]
        /\ \/ SameWritten(d)
           \/ /\ Arrives(d, w)
              /\ \/ written'[d] = written[d] \cup {k} /\ received'[d] = received[d]
                 \/ received'[d] = received[d] \cup {k} /\ written'[d] = written[d]
    BY DEF WorkerStep, Begins, Retries, Arrives, ArrivesAt
  <2> QED
    BY <1>1, <2>1 DEF Got, SameWritten
<1>6. Arrives(d, w) => worker[d][w] \in Paying /\ Repays(d, w)
  BY DEF Arrives
<1>7. \A j \in Got(d)' : j < next[d] /\ ahead[d][j] \in AheadEnded
  BY <1>4, <1>5, <1>6 DEF ChunksOK
<1>8. ASSUME NEW v \in Workers, v # w, worker[d][v] \in Busy
      PROVE  /\ chunk[d][v] \in 1 .. next[d] - 1 /\ chunk[d][v] \notin Got(d)'
             /\ worker[d][v] \in Fetching => ahead[d][chunk[d][v]] \in AheadEnded
             /\ worker[d][v] = "ahead" => ahead[d][chunk[d][v]] # None
  <2>1. Arrives(d, w) => worker[d][w] \in Busy
    BY <1>6 DEF Busy
  <2> QED
    BY <1>5, <1>8, <2>1 DEF ChunksOK
<1>9. NextTaken \/ StillThere
  <2> DEFINE Ended == /\ next'[d] = next[d] /\ chunk'[d] = chunk[d] /\ listed'[d] = listed[d]
                      /\ worker'[d][w] \in WorkerEnded
  <2>4. ASSUME NEW n, NEW h, TakesNext(d, w, n, h) PROVE NextTaken
    BY <2>4 DEF TakesNext
  <2>5. ASSUME NEW n, NEW h, EndsWork(d, w, n, h) PROVE Ended
    BY <2>5 DEF EndsWork, WorkerEnded
  <2>6. Ended => StillThere
    BY StatesDiffer
  <2> HIDE DEF NextTaken, StillThere
  <2>1. CASE Begins(d, w)
    BY <2>1, <2>4, <2>5, <2>6 DEF Begins
  <2>2. CASE Retries(d, w)
    <3>1. \A j \in Got(d)' : j \in Got(d)
      BY <2>2, <1>1, <1>3 DEF Retries, SameWritten, Got, WorkerStep
    <3>2. CASE worker'[d][w] \in Fetching
      BY <2>2, <3>1, <3>2 DEF Retries, StillThere
    <3>3. CASE worker'[d][w] = "failed"
      BY <2>2, <2>6, <3>3 DEF Retries, WorkerEnded
    <3> QED
      BY <2>2, <3>2, <3>3 DEF Retries
  <2>3. CASE Arrives(d, w)
    <3>1. PICK n \in Nat, short \in BOOLEAN : ArrivesAt(d, w, n, short)
      BY <2>3 DEF Arrives
    <3> DEFINE b == IF d \in ToFile THEN Given(bufHeld[d]) ELSE 0
               h == bufHeld[d] - b
    <3>2. Ended \/ TakesNext(d, w, n + b, h) \/ EndsWork(d, w, n + b, h)
      BY <3>1 DEF ArrivesAt, WorkerEnded
    <3> HIDE DEF b, h, Ended
    <3> QED
      BY <2>4, <2>5, <2>6, <3>2
  <2> QED
    BY <2>1, <2>2, <2>3 DEF WorkerStep
<1>10. CASE NextTaken
  <2>1. /\ next[d] \in Parts /\ next'[d] = next[d] + 1 /\ chunk'[d][w] = next[d]
        /\ next[d] \in 1 .. next'[d] - 1 /\ next[d] \notin Got(d)'
    BY <1>1, <1>7, <1>10
  <2>2. (next[d] \notin listed[d]) => ahead[d][next[d]] = None
    BY <1>1, <1>3, <2>1, Numbers DEF ChunksOK
  <2>3. worker'[d][w] \in Fetching => ahead'[d][chunk'[d][w]] \in AheadEnded
    BY <1>3, <1>10, <2>1, <2>2, StatesDiffer
    DEF Fetching, FetchStates
  <2>4. worker'[d][w] = "ahead" => ahead'[d][chunk'[d][w]] # None
    BY <1>3, <1>10, <2>1 DEF ChunksOK
  <2>5. \A v \in Workers : v # w => chunk'[d][v] = chunk[d][v]
    BY <1>10
  <2>6. \A v \in Workers : v # w /\ worker[d][v] \in Busy => chunk[d][v] < next[d]
    BY <1>1, <1>8
  <2>7. \A v \in Workers : worker'[d][v] \in Busy =>
          /\ chunk'[d][v] \in 1 .. next'[d] - 1
          /\ chunk'[d][v] \notin Got(d)'
          /\ worker'[d][v] \in Fetching => ahead'[d][chunk'[d][v]] \in AheadEnded
          /\ worker'[d][v] = "ahead" => ahead'[d][chunk'[d][v]] # None
    <3> SUFFICES ASSUME NEW v \in Workers, worker'[d][v] \in Busy
                 PROVE  /\ chunk'[d][v] \in 1 .. next'[d] - 1
                        /\ chunk'[d][v] \notin Got(d)'
                        /\ worker'[d][v] \in Fetching => ahead'[d][chunk'[d][v]] \in AheadEnded
                        /\ worker'[d][v] = "ahead" => ahead'[d][chunk'[d][v]] # None
      OBVIOUS
    <3>1. CASE v = w
      BY <2>1, <2>3, <2>4, <3>1
    <3>2. CASE v # w
      <4>1. 1 .. next[d] - 1 \subseteq 1 .. next'[d] - 1
        BY <1>1, <2>1
      <4> QED
        BY <1>3, <1>8, <2>5, <3>2, <4>1
    <3> QED
      BY <3>1, <3>2
  <2>8. ASSUME NEW u \in Workers, NEW v \in Workers, worker'[d][u] \in Busy, worker'[d][v] \in Busy,
               chunk'[d][u] = chunk'[d][v]
        PROVE  u = v
    <3>1. CASE u # w /\ v # w
      BY <1>3, <2>5, <2>8, <3>1 DEF ChunksOK
    <3>2. CASE u = w \/ v = w
      BY <1>1, <1>3, <2>1, <2>5, <2>6, <2>8, <3>2
    <3> QED
      BY <3>1, <3>2
  <2>9. /\ \A j \in Got(d)' : j < next'[d] /\ ahead'[d][j] \in AheadEnded
    BY <1>1, <1>3, <1>7, <2>1, Numbers
  <2>10. /\ listed'[d] \subseteq next'[d] .. Chunks
         /\ \A j \in listed'[d] : ahead'[d][j] # None
         /\ \A j \in (next'[d] .. Chunks) \ listed'[d] : ahead'[d][j] = None
    <3>1. /\ listed[d] \subseteq next[d] .. Chunks /\ \A j \in listed[d] : ahead[d][j] # None
          /\ \A j \in (next[d] .. Chunks) \ listed[d] : ahead[d][j] = None
      BY <1>3 DEF ChunksOK
    <3>2. listed'[d] = listed[d] \ {next[d]} /\ next'[d] = next[d] + 1
      BY <1>10
    <3>3. next'[d] .. Chunks = (next[d] .. Chunks) \ {next[d]}
      BY <1>1, <3>2
    <3> HIDE DEF NextTaken
    <3> QED
      BY <1>3, <3>1, <3>2, <3>3
  <2> QED
    BY <2>7, <2>8, <2>9, <2>10 DEF ChunksOK
<1>11. CASE StillThere
  <2>1. \A v \in Workers : worker'[d][v] \in Busy => worker[d][v] \in Busy
    <3>1. worker[d][w] \in Paying => worker[d][w] \in Busy
      BY DEF Busy
    <3> QED
      BY <1>3, <1>11, <3>1
  <2>2. ASSUME NEW v \in Workers, worker'[d][v] \in Busy
        PROVE  /\ chunk'[d][v] \in 1 .. next'[d] - 1
               /\ chunk'[d][v] \notin Got(d)'
               /\ worker'[d][v] \in Fetching => ahead'[d][chunk'[d][v]] \in AheadEnded
               /\ worker'[d][v] = "ahead" => ahead'[d][chunk'[d][v]] # None
    <3>1. CASE v = w
      <4>1. /\ worker'[d][w] \in Fetching /\ worker[d][w] \in Paying /\ worker[d][w] \in Busy
            /\ \A j \in Got(d)' : j \in Got(d)
        BY <1>11, <2>1, <2>2, <3>1
      <4>2. Repays(d, w)
        BY <4>1 DEF WorkerStep, Begins, Retries, Arrives, Paying, Fetching, FetchStates
      <4>3. chunk[d][w] \in 1 .. next[d] - 1 /\ chunk[d][w] \notin Got(d)
        BY <4>1 DEF ChunksOK
      <4>4. ahead[d][k] \in AheadEnded /\ worker'[d][w] # "ahead"
        BY <1>4, <4>1, <4>2, StatesDiffer
      <4> QED
        BY <1>3, <1>11, <3>1, <4>1, <4>3, <4>4
    <3>2. CASE v # w
      BY <1>3, <1>8, <1>11, <2>2, <3>2
    <3> QED
      BY <3>1, <3>2
  <2>3. ASSUME NEW u \in Workers, NEW v \in Workers, worker'[d][u] \in Busy, worker'[d][v] \in Busy,
               chunk'[d][u] = chunk'[d][v]
        PROVE  u = v
    BY <1>11, <2>1, <2>3 DEF ChunksOK
  <2>4. \A j \in Got(d)' : j < next'[d] /\ ahead'[d][j] \in AheadEnded
    BY <1>3, <1>7, <1>11
  <2>5. /\ listed'[d] \subseteq next'[d] .. Chunks
        /\ \A j \in listed'[d] : ahead'[d][j] # None
        /\ phase'[d] # "over" => \A j \in (next'[d] .. Chunks) \ listed'[d] : ahead'[d][j] = None
    BY <1>3, <1>11 DEF ChunksOK
  <2> QED
    BY <2>2, <2>3, <2>4, <2>5 DEF ChunksOK
<1> QED
  BY <1>9, <1>10, <1>11

\* No worker has begun and nothing has arrived when the prefetch starts.
LEMMA PrefetchChunks ==
    ASSUME Shapes, NEW d \in Downloads, StageOK(d), ChunksOK(d), Own(d),
           NEW n \in 0 .. Prefetch, Prefetches(d, n)
    PROVE  ChunksOK(d)'
<1>1. /\ next[d] = 1 /\ next'[d] = 1 /\ \A w \in Workers : worker[d][w] = None
      /\ worker'[d] = worker[d] /\ listed'[d] = 1 .. Prefetch
  BY DEF Prefetches, StageOK
<1>2. \A w \in Workers : worker'[d][w] \notin Busy
  BY <1>1, StatesDiffer
<1>3. Got(d)' = {}
  <2>1. \A k \in Parts : k \in Got(d)' => k \in Got(d)
    BY DEF Prefetches, SameStage, SameWritten, Got
  <2>2. Got(d)' \subseteq Parts
    BY DEF Got
  <2>3. \A k \in Parts : ~ (k < 1)
    BY Numbers
  <2> QED
    BY <1>1, <2>1, <2>2, <2>3 DEF ChunksOK
<1>4. /\ 1 .. Prefetch \subseteq 1 .. Chunks
      /\ \A k \in 1 .. Prefetch : k \in Parts /\ k <= Prefetch
      /\ \A k \in (1 .. Chunks) \ (1 .. Prefetch) : k \in Parts /\ ~ (k <= Prefetch) /\ ~ (k <= n)
  BY Numbers
<1>5. \A k \in Parts : ahead'[d][k] = IF k <= n THEN "fetch"
                                      ELSE IF k <= Prefetch THEN "line" ELSE None
  BY DEF Prefetches
<1> QED
  BY <1>1, <1>2, <1>3, <1>4, <1>5 DEF ChunksOK, Busy, Paying, Fetching, FetchStates, None

LEMMA ChunksKept ==
    ASSUME Shapes, NEW d \in Downloads, StageOK(d), ChunksOK(d), Own(d), OwnStep(d)
    PROVE  ChunksOK(d)'
<1>1. CASE \E w \in Workers : WorkerStep(d, w)
  BY <1>1, WorkerChunks
<1>2. CASE \E n \in 0 .. Prefetch : Prefetches(d, n)
  BY <1>2, PrefetchChunks
<1>3. CASE /\ ~ \E w \in Workers : WorkerStep(d, w)
           /\ ~ \E n \in 0 .. Prefetch : Prefetches(d, n)
  <2>1. \A k \in Parts : k \in Got(d)' => k \in Got(d)
    BY <1>3, GotMoves
  <2>2. /\ chunk'[d] = chunk[d] /\ next'[d] = next[d] /\ listed'[d] \subseteq listed[d]
        /\ phase'[d] # "over" => listed'[d] = listed[d]
    BY <1>3 DEF OwnStep, Grants, Fetches, Leaves, HasFirst, HasPool, HandsOut, Consumes, Halts,
       Joins, Cancels, Drops, SameTasks
  <2>3. phase'[d] # "over" => phase[d] # "over"
    BY <1>3 DEF OwnStep, Grants, Fetches, Leaves, HasFirst, HasPool, HandsOut, Consumes, Halts,
       Joins, Cancels, Drops, SameStage, Streaming
  <2>4. ASSUME NEW k \in Parts
        PROVE  /\ ahead[d][k] \in AheadEnded => ahead'[d][k] = ahead[d][k]
               /\ ahead'[d][k] = None => ahead[d][k] = None
    <3>1. \/ ahead'[d][k] = ahead[d][k]
          \/ /\ ahead[d][k] \in {"line", "fetch", "restart"}
             /\ ahead'[d][k] \in {"ok", "restart", "oserror", "failed", "fetch", "cancelled"}
      <4>1. CASE \E j \in Parts : Fetches(d, j)
        BY <4>1 DEF Fetches, FetchStates
      <4>2. CASE Grants(d)
        BY <4>2 DEF Grants, GrantsAhead, GrantsWorker
      <4>3. CASE Halts(d)
        BY <4>3 DEF Halts
      <4>4. CASE Cancels(d)
        BY <4>4 DEF Cancels
      <4>5. CASE Leaves(d) \/ HasFirst(d) \/ HasPool(d) \/ HandsOut(d) \/ Consumes(d) \/ Joins(d) \/ Drops(d)
        BY <4>5 DEF Leaves, HasFirst, HasPool, HandsOut, Consumes, Joins, Drops, SameTasks
      <4> QED
        BY <1>3, <4>1, <4>2, <4>3, <4>4, <4>5 DEF OwnStep
    <3> QED
      BY <3>1, StatesDiffer DEF FetchStates, None
  <2>5. ASSUME NEW w \in Workers, worker'[d][w] \in Busy
        PROVE  /\ worker[d][w] \in Busy
               /\ worker'[d][w] \in Fetching =>
                     worker[d][w] \in Fetching \/ ahead[d][chunk[d][w]] = None
               /\ worker'[d][w] = "ahead" =>
                     worker[d][w] = "ahead" \/ ahead[d][chunk[d][w]] # None
    <3>1. CASE Grants(d)
      <4>1. CASE \E k \in Parts : GrantsAhead(d, k)
        BY <2>5, <4>1 DEF GrantsAhead
      <4>2. CASE \E v \in Workers : GrantsWorker(d, v)
        <5>1. PICK v \in Workers : GrantsWorker(d, v)
          BY <4>2
        <5>2. CASE v = w
          BY <5>1, <5>2, StatesDiffer DEF GrantsWorker, Busy
        <5>3. CASE v # w
          BY <2>5, <5>1, <5>3 DEF GrantsWorker
        <5> QED
          BY <5>2, <5>3
      <4> QED
        BY <3>1, <4>1, <4>2 DEF Grants
    <3>2. CASE Halts(d)
      <4>1. /\ worker'[d][w] \notin WorkerEnded
            /\ \/ worker[d][w] = "restart" /\ worker'[d][w] = "fetch"
               \/ worker[d][w] = "ahead" /\ worker'[d][w] = "ahead"
        BY <2>5, <3>2, StatesDiffer DEF Halts, WorkerEnded
      <4> QED
        BY <4>1, StatesDiffer DEF Busy, Paying, Fetching, FetchStates
    <3>3. CASE HasPool(d)
      BY <2>5, <3>3, StatesDiffer DEF HasPool
    <3>4. CASE \/ \E j \in Parts : Fetches(d, j)
               \/ Leaves(d) \/ HasFirst(d) \/ HandsOut(d) \/ Consumes(d)
               \/ Joins(d) \/ Cancels(d) \/ Drops(d)
      BY <2>5, <3>4 DEF Fetches, Leaves, HasFirst, HandsOut, Consumes, Joins, Cancels, Drops, SameTasks
    <3> QED
      BY <1>3, <3>1, <3>2, <3>3, <3>4 DEF OwnStep
  <2> QED
    BY <2>1, <2>2, <2>3, <2>4, <2>5, ChunksStay
<1> QED
  BY <1>1, <1>2, <1>3

-----------------------------------------------------------------------------
(* No chunk of a stream is lost.                                           *)

LEMMA GotStays ==
    ASSUME Shapes, NEW d \in Downloads, StageOK(d), Own(d), OwnStep(d), phase'[d] \in Streaming
    PROVE  Got(d) \subseteq Got(d)'
<1>1. Got(d) \subseteq Parts
  BY DEF Got
<1> QED
  BY <1>1, GotMoves

\* What is not there yet is not before the consumer.
LEMMA NotGot ==
    ASSUME Shapes, NEW d \in Downloads, NEW k \in Parts, k \notin Got(d)
    PROVE  k >= at[d]
<1>1. k \in Nat /\ at[d] \in Nat /\ ~ (k < at[d])
  BY Numbers, InGot DEF Shapes
<1> QED
  BY <1>1

LEMMA WorkerStream ==
    ASSUME Shapes, NEW d \in Downloads, StageOK(d), ChunksOK(d), StreamOK(d), Own(d),
           NEW w \in Workers, WorkerStep(d, w)
    PROVE  StreamOK(d)'
<1> SUFFICES ASSUME d \notin ToFile, phase'[d] \in Streaming
             PROVE  /\ \A k \in 1 .. next'[d] - 1 :
                          \/ k \in Got(d)' \/ Raised(d)'
                          \/ \E v \in Workers : worker'[d][v] \in Busy /\ chunk'[d][v] = k
                    /\ \A k \in cut'[d] : k >= at'[d]
                    /\ \A v \in Workers : worker'[d][v] = "done" =>
                          \/ next'[d] = Chunks + 1
                          \/ chunk'[d][v] \in cut'[d] /\ chunk'[d][v] < next'[d]
  BY DEF StreamOK
<1> DEFINE k0 == chunk[d][w]
<1>1. /\ next[d] \in 1 .. Chunks + 1 /\ next[d] \in Nat /\ Chunks \in Nat
      /\ \A v \in Workers : chunk[d][v] \in Nat
  BY Numbers DEF Shapes, WorkShapes
<1>2. /\ phase[d] \in Streaming /\ at'[d] = at[d]
      /\ \A v \in Workers : v # w => worker'[d][v] = worker[d][v]
      /\ worker[d][w] \in Busy \cup {"new"}
  BY DEF WorkerStep, Begins, Retries, Arrives, Busy
<1>3. /\ \A k \in 1 .. next[d] - 1 :
            \/ k \in Got(d) \/ Raised(d)
            \/ \E v \in Workers : worker[d][v] \in Busy /\ chunk[d][v] = k
      /\ \A k \in cut[d] : k >= at[d]
      /\ \A v \in Workers : worker[d][v] = "done" =>
            \/ next[d] = Chunks + 1
            \/ chunk[d][v] \in cut[d] /\ chunk[d][v] < next[d]
  BY <1>2 DEF StreamOK
<1>4. Got(d) \subseteq Got(d)'
  BY <1>2, GotStays DEF OwnStep
<1>5. Raised(d) => Raised(d)'
  <2>1. worker[d][w] # "failed"
    BY <1>2, StatesDiffer DEF WorkerEnded
  <2> QED
    BY <1>2, <2>1 DEF Raised
<1> DEFINE Taken == /\ next[d] \in Parts /\ next'[d] = next[d] + 1
                    /\ chunk'[d][w] = next[d] /\ worker'[d][w] \in Busy
                    /\ \A v \in Workers : v # w => chunk'[d][v] = chunk[d][v]
           Untouched == next'[d] = next[d] /\ chunk'[d] = chunk[d]
<1>6. ASSUME NEW n, NEW h, TakesNext(d, w, n, h) PROVE Taken
  <2>1. worker'[d][w] \in {"ahead", "fetch", "slot"}
    BY <1>6 DEF TakesNext
  <2>2. worker'[d][w] \in Busy
    BY <2>1 DEF Busy, Paying, Fetching, FetchStates
  <2> QED
    BY <1>6, <2>2 DEF TakesNext
<1>7. ASSUME NEW n, NEW h, EndsWork(d, w, n, h)
      PROVE  Untouched /\ worker'[d][w] = "done" /\ next'[d] = Chunks + 1
  BY <1>7 DEF EndsWork
<1>8. \/ Taken
      \/ /\ Untouched
         /\ worker'[d][w] = "done" =>
               next'[d] = Chunks + 1 \/ (Arrives(d, w) /\ k0 \in cut'[d])
  <2> HIDE DEF Taken, Untouched
  <2>1. CASE Begins(d, w)
    BY <1>6, <1>7, <2>1 DEF Begins
  <2>2. CASE Retries(d, w)
    <3>1. worker'[d][w] # "done" /\ Untouched
      BY <2>2, StatesDiffer DEF Retries, Fetching, FetchStates, Untouched
    <3> QED
      BY <3>1
  <2>3. CASE Arrives(d, w)
    <3>1. PICK n \in Nat, short \in BOOLEAN : ArrivesAt(d, w, n, short) /\ (short => k0 \in cut'[d])
      BY <2>3 DEF Arrives
    <3> DEFINE b == IF d \in ToFile THEN Given(bufHeld[d]) ELSE 0
               h == bufHeld[d] - b
    <3>2. \/ Untouched /\ k0 \in cut'[d]
          \/ TakesNext(d, w, n + b, h) \/ EndsWork(d, w, n + b, h)
      BY <3>1 DEF ArrivesAt, Untouched
    <3> HIDE DEF b, h
    <3> QED
      BY <1>6, <1>7, <2>3, <3>2
  <2> QED
    BY <2>1, <2>2, <2>3 DEF WorkerStep
<1>9. Taken \/ Untouched
  BY <1>8
<1>10. cut'[d] = cut[d] \/ (Arrives(d, w) /\ cut'[d] = cut[d] \cup {k0})
  BY DEF WorkerStep, Begins, Retries, Arrives
<1>11. Arrives(d, w) => k0 \in Parts /\ k0 \in 1 .. next[d] - 1 /\ k0 \notin Got(d) /\ k0 \in Got(d)'
  <2> SUFFICES ASSUME Arrives(d, w)
               PROVE  k0 \in Parts /\ k0 \in 1 .. next[d] - 1 /\ k0 \notin Got(d) /\ k0 \in Got(d)'
    OBVIOUS
  <2>1. worker[d][w] \in Busy
    BY DEF Arrives, Busy
  <2>2. k0 \in 1 .. next[d] - 1 /\ k0 \notin Got(d)
    BY <2>1 DEF ChunksOK
  <2>3. k0 \in Parts
    BY <1>1, <2>2, Numbers
  <2>4. received'[d] = received[d] \cup {k0}
    BY DEF Arrives, ArrivesAt
  <2> QED
    BY <2>2, <2>3, <2>4, InGot
<1>12. \A k \in cut'[d] : k >= at'[d]
  <2>1. Arrives(d, w) => k0 >= at[d]
    BY <1>11, NotGot
  <2> QED
    BY <1>2, <1>3, <1>10, <2>1
<1>13. ASSUME NEW k \in 1 .. next[d] - 1
       PROVE  \/ k \in Got(d)' \/ Raised(d)'
              \/ \E v \in Workers : worker'[d][v] \in Busy /\ chunk'[d][v] = k
  <2>1. CASE k \in Got(d) \/ Raised(d)
    BY <1>4, <1>5, <2>1
  <2>2. ASSUME NEW v \in Workers, worker[d][v] \in Busy, chunk[d][v] = k, v # w
        PROVE  worker'[d][v] \in Busy /\ chunk'[d][v] = k
    BY <1>2, <1>9, <2>2
  <2>3. CASE worker[d][w] \in Busy /\ chunk[d][w] = k
    <3>1. CASE Begins(d, w)
      BY <2>3, <3>1, StatesDiffer DEF Begins
    <3>2. CASE Retries(d, w)
      <4>1. chunk'[d][w] = k /\ worker'[d][w] \in Fetching \cup {"failed"}
        BY <2>3, <3>2 DEF Retries
      <4>2. CASE worker'[d][w] = "failed"
        BY <4>2 DEF Raised
      <4>3. CASE worker'[d][w] \in Fetching
        BY <4>1, <4>3 DEF Busy, Paying
      <4> QED
        BY <4>1, <4>2, <4>3
    <3>3. CASE Arrives(d, w)
      BY <1>11, <2>3, <3>3
    <3> QED
      BY <3>1, <3>2, <3>3 DEF WorkerStep
  <2> QED
    BY <1>3, <2>1, <2>2, <2>3
<1>14. ASSUME NEW k \in 1 .. next'[d] - 1
       PROVE  \/ k \in Got(d)' \/ Raised(d)'
              \/ \E v \in Workers : worker'[d][v] \in Busy /\ chunk'[d][v] = k
  <2>1. k \in 1 .. next[d] - 1 \/ (Taken /\ k = next[d])
    BY <1>1, <1>9
  <2>2. CASE Taken /\ k = next[d]
    BY <2>2
  <2> HIDE DEF Taken
  <2> QED
    BY <1>13, <2>1, <2>2
<1>15. ASSUME NEW v \in Workers, worker'[d][v] = "done"
       PROVE  next'[d] = Chunks + 1 \/ (chunk'[d][v] \in cut'[d] /\ chunk'[d][v] < next'[d])
  <2>1. CASE v = w
    <3>1. worker'[d][v] \notin Busy
      BY <1>15, StatesDiffer DEF WorkerEnded
    <3>2. Untouched /\ (next'[d] = Chunks + 1 \/ (Arrives(d, w) /\ k0 \in cut'[d]))
      BY <1>8, <1>15, <2>1, <3>1
    <3>3. Arrives(d, w) => k0 < next[d]
      BY <1>1, <1>11
    <3> QED
      BY <2>1, <3>2, <3>3
  <2>2. CASE v # w
    <3>1. next[d] = Chunks + 1 \/ (chunk[d][v] \in cut[d] /\ chunk[d][v] < next[d])
      BY <1>2, <1>3, <1>15, <2>2
    <3>2. chunk'[d][v] = chunk[d][v] /\ cut[d] \subseteq cut'[d]
      BY <1>9, <1>10, <2>2
    <3>3. CASE Untouched
      BY <3>1, <3>2, <3>3
    <3>4. CASE Taken
      <4>1. next[d] # Chunks + 1 /\ next'[d] = next[d] + 1
        BY <3>4, Numbers
      <4>2. chunk[d][v] < next[d] => chunk[d][v] < next[d] + 1
        BY <1>1
      <4> QED
        BY <3>1, <3>2, <4>1, <4>2
    <3> QED
      BY <1>9, <3>3, <3>4
  <2> QED
    BY <2>1, <2>2
<1> QED
  BY <1>12, <1>14, <1>15

LEMMA StreamKept ==
    ASSUME Shapes, NEW d \in Downloads, StageOK(d), ChunksOK(d), StreamOK(d), Own(d), OwnStep(d)
    PROVE  StreamOK(d)'
<1>1. CASE \E w \in Workers : WorkerStep(d, w)
  BY <1>1, WorkerStream
<1>2. CASE d \in ToFile \/ phase'[d] \notin Streaming
  BY <1>2 DEF StreamOK
<1>3. CASE /\ d \notin ToFile /\ phase'[d] \in Streaming
           /\ ~ \E w \in Workers : WorkerStep(d, w)
  <2>1. Got(d) \subseteq Got(d)'
    BY <1>3, GotStays
  <2>2. /\ next'[d] = next[d] /\ chunk'[d] = chunk[d]
        /\ phase[d] \in Streaming \/ HasPool(d)
    BY <1>3 DEF OwnStep, Grants, Fetches, Prefetches, Leaves, HasFirst, HasPool, HandsOut, Consumes,
       Halts, Joins, Cancels, Drops, SameTasks, SameStage, Streaming
  <2>3. CASE HasPool(d)
    <3>1. /\ next'[d] = 1 /\ at'[d] = 1 /\ cut'[d] = cut[d] /\ 0 \notin cut[d]
          /\ \A w \in Workers : worker'[d][w] = "new"
      BY <2>3 DEF HasPool, StageOK
    <3>2. cut[d] \subseteq Files
      BY DEF Shapes
    <3>3. \A k \in cut'[d] : k >= at'[d]
      BY <3>1, <3>2, Numbers
    <3>4. 1 .. next'[d] - 1 = {}
      BY <3>1
    <3> QED
      BY <3>1, <3>3, <3>4 DEF StreamOK
  <2>4. CASE phase[d] \in Streaming /\ ~HasPool(d)
    <3>1. /\ \A k \in 1 .. next[d] - 1 :
                \/ k \in Got(d) \/ Raised(d)
                \/ \E w \in Workers : worker[d][w] \in Busy /\ chunk[d][w] = k
          /\ \A k \in cut[d] : k >= at[d]
          /\ \A w \in Workers : worker[d][w] = "done" =>
                \/ next[d] = Chunks + 1
                \/ chunk[d][w] \in cut[d] /\ chunk[d][w] < next[d]
      BY <1>3, <2>4 DEF StreamOK
    <3>2. \A w \in Workers : \/ worker'[d][w] = worker[d][w]
                             \/ worker[d][w] = "slot" /\ worker'[d][w] \in {"fetch", "ahead"}
      <4>1. CASE Grants(d)
        BY <4>1 DEF Grants, GrantsAhead, GrantsWorker
      <4>2. CASE ~Grants(d)
        BY <1>3, <2>4, <4>2
        DEF OwnStep, Fetches, Prefetches, Leaves, HasFirst, HandsOut, Consumes, Halts, Joins,
            Cancels, Drops, SameTasks, Streaming
      <4> QED
        BY <4>1, <4>2
    <3>3. /\ Raised(d) => Raised(d)'
          /\ \A w \in Workers : /\ worker[d][w] \in Busy => worker'[d][w] \in Busy
                                /\ worker'[d][w] = "done" => worker[d][w] = "done"
      BY <3>2 DEF Raised, Busy, Paying, Fetching, FetchStates
    <3>4. (\A k \in cut'[d] : k >= at'[d]) /\ cut[d] \subseteq cut'[d]
      <4>1. CASE \E k \in Parts : Fetches(d, k)
        <5>1. PICK k \in Parts : Fetches(d, k)
          BY <4>1
        <5>2. k \notin Got(d)
          BY <5>1, StatesDiffer DEF Fetches, ChunksOK
        <5>3. k >= at[d]
          BY <5>2, NotGot
        <5> QED
          BY <3>1, <5>1, <5>3 DEF Fetches, SameStage
      <4>2. CASE Consumes(d)
        <5>1. at'[d] = at[d] + 1 /\ cut'[d] = cut[d] /\ at[d] \notin cut[d]
          BY <4>2 DEF Consumes
        <5>2. at[d] \in Nat /\ cut[d] \subseteq Nat
          BY Numbers DEF Shapes
        <5> QED
          BY <3>1, <5>1, <5>2
      <4>3. CASE ~Consumes(d) /\ ~ \E k \in Parts : Fetches(d, k)
        <5>1. at'[d] = at[d] /\ cut'[d] = cut[d]
          BY <1>3, <2>4, <4>3
          DEF OwnStep, Grants, Prefetches, Leaves, HasFirst, HandsOut, Halts, Joins, Cancels, Drops,
              SameStage, Streaming
        <5> QED
          BY <3>1, <5>1
      <4> QED
        BY <4>1, <4>2, <4>3
    <3> QED
      BY <2>1, <2>2, <3>1, <3>3, <3>4 DEF StreamOK
  <2> QED
    BY <2>2, <2>3, <2>4
<1> QED
  BY <1>1, <1>2, <1>3

-----------------------------------------------------------------------------
(* A download that ends without an error has its chunks.                   *)

\* The loop of a stream does not run out of workers before its consumer is served.
LEMMA NotAllEnded ==
    ASSUME Shapes, NEW d \in Downloads, StageOK(d), ChunksOK(d), StreamOK(d),
           d \notin ToFile, phase[d] = "run", at[d] \notin received[d], AllEnded(d)
    PROVE  Raised(d)
<1> SUFFICES ASSUME ~Raised(d) PROVE FALSE
  OBVIOUS
<1>1. /\ at[d] \in Parts /\ at[d] \in Nat /\ at[d] >= 1 /\ at[d] <= Chunks
      /\ next[d] \in Nat /\ Chunks \in Nat
  BY Numbers DEF StageOK, Streaming, Shapes, WorkShapes
<1>2. at[d] \notin Got(d)
  <2>1. written[d] = {} /\ ~ (at[d] < at[d])
    BY <1>1 DEF StageOK
  <2> QED
    BY <1>1, <2>1, InGot
<1>3. \A w \in Workers : worker[d][w] = "done"
  BY DEF StageOK, Streaming, AllEnded, Raised, WorkerEnded
<1>4. /\ \A k \in 1 .. next[d] - 1 :
            \/ k \in Got(d) \/ Raised(d)
            \/ \E w \in Workers : worker[d][w] \in Busy /\ chunk[d][w] = k
      /\ \A k \in cut[d] : k >= at[d]
      /\ \A w \in Workers : worker[d][w] = "done" =>
            \/ next[d] = Chunks + 1
            \/ chunk[d][w] \in cut[d] /\ chunk[d][w] < next[d]
  BY DEF StreamOK, Streaming
<1>5. ~ \E w \in Workers : worker[d][w] \in Busy
  BY <1>3, StatesDiffer DEF WorkerEnded
<1>6. at[d] >= next[d]
  <2>1. at[d] \notin 1 .. next[d] - 1
    BY <1>2, <1>4, <1>5
  <2> QED
    BY <1>1, <2>1
<1>7. PICK w \in Workers : TRUE
  BY DownloadParameters
<1>8. next[d] # Chunks + 1
  BY <1>1, <1>6
<1>9. chunk[d][w] >= at[d] /\ chunk[d][w] < next[d] /\ chunk[d][w] \in Nat
  BY <1>3, <1>4, <1>8, Numbers DEF Shapes, WorkShapes
<1> QED
  BY <1>1, <1>6, <1>9

\* Every chunk counted: the file is whole.
LEMMA CountedIsWhole ==
    ASSUME NEW W \in SUBSET Files, NEW C \in SUBSET Files, Cardinality(W \ C) = Chunks + 1
    PROVE  W = Files /\ C = {}
<1>1. IsFiniteSet(Files) /\ Cardinality(Files) = Chunks + 1
  <2>1. 0 \in Int /\ Chunks \in Int /\ Chunks \in Nat /\ Files = 0 .. Chunks
    BY Numbers
  <2>2. IsFiniteSet(0 .. Chunks) /\ Cardinality(0 .. Chunks) = IF 0 > Chunks THEN 0 ELSE Chunks - 0 + 1
    BY <2>1, FS_Interval
  <2> QED
    BY <2>1, <2>2
<1>2. W \ C = Files
  <2> DEFINE D == W \ C
  <2>1. D \in SUBSET Files /\ Cardinality(D) = Cardinality(Files)
    BY <1>1
  <2> HIDE DEF D
  <2>2. D = Files
    BY <1>1, <2>1, FS_Subset
  <2> QED
    BY <2>2 DEF D
<1> QED
  BY <1>2

LEMMA FileResult ==
    ASSUME Shapes, Shapes', NEW d \in Downloads, StageOK(d), ChunksOK(d), ResultOK(d), d \in ToFile,
           Own(d), OwnStep(d)
    PROVE  ResultOK(d)'
<1>1. /\ reported[d] = Chunks + 1 => written[d] = Files /\ cut[d] = {}
      /\ Over(d) /\ result[d] = "done" => reported[d] = Chunks + 1
  BY DEF ResultOK
<1>2. Chunks \in Nat /\ Chunks >= 1 /\ Parts \subseteq Files
  BY Numbers
<1>3. reported[d] = Chunks + 1 => \A k \in Parts : k \in Got(d)
  BY <1>1, <1>2, InGot
<1>4. ASSUME reported'[d] = Chunks + 1
      PROVE  written'[d] = Files /\ cut'[d] = {}
  <2>1. CASE HasFirst(d)
    BY <1>2, <1>4, <2>1 DEF HasFirst
  <2>2. CASE Halts(d) /\ Finishes(d) /\ reported'[d] # reported[d]
    <3>1. /\ Cardinality(written[d] \ cut[d]) = Chunks + 1
          /\ written'[d] = written[d] /\ cut'[d] = cut[d]
      BY <1>4, <2>2 DEF Finishes, Halts, SameWritten
    <3>2. written[d] \in SUBSET Files /\ cut[d] \in SUBSET Files
      BY DEF Shapes
    <3> QED
      BY <3>1, <3>2, CountedIsWhole
  <2>3. CASE reported'[d] = reported[d] /\ ~HasFirst(d)
    <3>1. /\ written[d] = Files /\ cut[d] = {} /\ \A k \in Parts : k \in Got(d)
      BY <1>1, <1>3, <1>4, <2>3
    <3>2. ~ \E w \in Workers : WorkerStep(d, w) /\ Arrives(d, w)
      <4> SUFFICES ASSUME NEW w \in Workers, Arrives(d, w) PROVE FALSE
        OBVIOUS
      <4>1. worker[d][w] \in Busy
        BY DEF Arrives, Busy
      <4>2. chunk[d][w] \in 1 .. next[d] - 1 /\ next[d] \in 1 .. Chunks + 1
        BY <4>1 DEF ChunksOK, Shapes, WorkShapes
      <4>3. chunk[d][w] \in Parts
        BY <4>2, Numbers
      <4> QED
        BY <3>1, <4>1, <4>3 DEF ChunksOK
    <3>3. ~ \E k \in Parts : Fetches(d, k)
      BY <3>1, StatesDiffer DEF Fetches, ChunksOK
    <3>4. written'[d] = written[d] /\ cut'[d] = cut[d]
      BY <2>3, <3>2, <3>3
      DEF OwnStep, Grants, Prefetches, WorkerStep, Begins, Retries, Leaves, HasPool, HandsOut, Consumes,
          Halts, Joins, Cancels, Drops, SameWritten
    <3> QED
      BY <3>1, <3>4
  <2> QED
    BY <2>1, <2>2, <2>3
    DEF OwnStep, Grants, Fetches, Prefetches, WorkerStep, Leaves, HasPool, HandsOut, Consumes,
        Joins, Cancels, Drops, SameStage
<1>5. ASSUME phase'[d] = "over", result'[d] = "done"
      PROVE  reported'[d] = Chunks + 1
  <2>1. CASE Drops(d)
    BY <1>5, <2>1 DEF Drops, Moves
  <2>2. CASE ~Drops(d)
    <3>1. phase[d] = "over" /\ result'[d] = result[d] /\ reported'[d] = reported[d]
      BY <1>5, <2>2
      DEF OwnStep, Grants, Fetches, Prefetches, WorkerStep, Leaves, HasFirst, HasPool, HandsOut,
          Consumes, Halts, Joins, Cancels, SameStage
    <3> QED
      BY <1>1, <1>5, <3>1 DEF Over
  <2> QED
    BY <2>1, <2>2
<1> QED
  BY <1>4, <1>5 DEF ResultOK, Over

LEMMA StreamResult ==
    ASSUME Shapes, NEW d \in Downloads, StageOK(d), ChunksOK(d), StreamOK(d), ResultOK(d),
           d \notin ToFile, Own(d), OwnStep(d)
    PROVE  ResultOK(d)'
<1> SUFFICES ASSUME result'[d] = "done"
             PROVE  at'[d] = Chunks + 1 \/ at'[d] - 1 \in cut'[d]
  BY DEF ResultOK
<1>1. at[d] \in Nat /\ (phase[d] \in Streaming => at[d] \in Parts)
  BY Numbers DEF StageOK, Shapes
<1>2. CASE Leaves(d)
  <2>1. at'[d] = 1 /\ 0 \in cut'[d]
    BY <1>2 DEF Leaves, StageOK
  <2> QED
    BY <2>1
<1>3. CASE phase[d] \in Streaming /\ Halts(d) /\ Finishes(d)
  <2>1. CASE at[d] \in cut[d] \/ at[d] = Chunks
    <3>1. CASE at'[d] = at[d] + 1
      BY <1>1, <1>3, <2>1, <3>1 DEF Halts
    <3>2. CASE at'[d] = at[d]
      <4>1. phase[d] = "run" /\ ~Raised(d) /\ AllEnded(d) /\ at[d] \notin received[d]
        BY <1>1, <1>3, <3>2 DEF Finishes
      <4> QED
        BY <4>1, NotAllEnded
    <3> QED
      BY <1>3, <3>1, <3>2 DEF Finishes
  <2>2. CASE ~ (at[d] \in cut[d] \/ at[d] = Chunks)
    <3>1. phase[d] = "run" /\ ~Raised(d) /\ AllEnded(d) /\ at[d] \notin received[d]
      BY <1>3, <2>2 DEF Finishes
    <3> QED
      BY <3>1, NotAllEnded
  <2> QED
    BY <2>1, <2>2
<1>4. CASE ~Leaves(d) /\ ~ (phase[d] \in Streaming /\ Halts(d) /\ Finishes(d))
  <2>1. result[d] = "done"
    BY <1>4 DEF OwnStep, Grants, Fetches, Prefetches, WorkerStep, HasFirst, HasPool, HandsOut,
                Consumes, Joins, Cancels, Drops, Moves, SameStage
  <2>2. phase[d] \notin {"first", "out0", "run", "out"}
    BY <2>1 DEF StageOK, Streaming
  <2>3. at'[d] = at[d] /\ cut[d] \subseteq cut'[d]
    BY <1>4, <2>2
    DEF OwnStep, Grants, Fetches, Prefetches, WorkerStep, Begins, Retries, Arrives, HasFirst, HasPool,
        HandsOut, Consumes, Joins, Cancels, Drops, SameStage
  <2>4. at[d] = Chunks + 1 \/ at[d] - 1 \in cut[d]
    BY <2>1 DEF ResultOK
  <2> QED
    BY <2>3, <2>4
<1> QED
  BY <1>2, <1>3, <1>4

-----------------------------------------------------------------------------
(* What is kept is paid for.                                               *)

Early == Streaming \cup {"first", "out0"}

LEMMA SomeParts ==
    ASSUME NEW S \in SUBSET Parts
    PROVE  IsFiniteSet(S) /\ Cardinality(S) \in Nat
<1>1. 1 \in Int /\ Chunks \in Int
  BY Numbers
<1>2. IsFiniteSet(Parts)
  BY <1>1, FS_Interval DEF Parts
<1> QED
  BY <1>2, FS_Subset, FS_CardinalityType

LEMMA SomeWorkers ==
    ASSUME NEW S \in SUBSET Workers
    PROVE  IsFiniteSet(S) /\ Cardinality(S) \in Nat
BY DownloadParameters, FS_Subset, FS_CardinalityType

LEMMA NoMore ==
    ASSUME NEW S, IsFiniteSet(S), NEW T \in SUBSET S
    PROVE  Cardinality(T) <= Cardinality(S)
BY FS_Subset

LEMMA OneLess ==
    ASSUME NEW S, IsFiniteSet(S), NEW x \in S, NEW T \in SUBSET S, x \notin T
    PROVE  Cardinality(T) + 1 <= Cardinality(S)
<1> DEFINE R == S \ {x}
<1>1. IsFiniteSet(R) /\ Cardinality(R) = Cardinality(S) - 1
  BY FS_RemoveElement
<1>2. T \in SUBSET R
  OBVIOUS
<1>3. Cardinality(S) \in Nat
  BY FS_CardinalityType
<1> HIDE DEF R
<1>4. Cardinality(T) <= Cardinality(R) /\ Cardinality(T) \in Nat
  BY <1>1, <1>2, FS_Subset, FS_CardinalityType
<1> QED
  BY <1>1, <1>3, <1>4

LEMMA OneMore ==
    ASSUME NEW S, IsFiniteSet(S), NEW x, NEW T, T \subseteq S \cup {x}
    PROVE  Cardinality(T) <= Cardinality(S) + 1
<1> DEFINE U == S \cup {x}
<1>1. IsFiniteSet(U) /\ Cardinality(U) <= Cardinality(S) + 1
  <2>1. Cardinality(S) \in Nat
    BY FS_CardinalityType
  <2> QED
    BY <2>1, FS_AddElement
<1>2. T \in SUBSET U
  OBVIOUS
<1>3. Cardinality(S) \in Nat
  BY FS_CardinalityType
<1> HIDE DEF U
<1>4. Cardinality(T) <= Cardinality(U) /\ Cardinality(T) \in Nat /\ Cardinality(U) \in Nat
  BY <1>1, <1>2, FS_Subset, FS_CardinalityType
<1> QED
  BY <1>1, <1>3, <1>4

LEMMA InKept ==
    ASSUME NEW d \in Downloads, NEW k \in Parts
    PROVE  /\ k \in Kept(d) <=>
                /\ ahead[d][k] \notin {None, "line", "cancelled"}
                /\ \/ k \in listed[d]
                   \/ \E v \in Workers : worker[d][v] \in {"slot", "ahead"} /\ chunk[d][v] = k
           /\ k \in Kept(d)' <=>
                /\ ahead'[d][k] \notin {None, "line", "cancelled"}
                /\ \/ k \in listed'[d]
                   \/ \E v \in Workers : worker'[d][v] \in {"slot", "ahead"} /\ chunk'[d][v] = k
BY DEF Kept, Untaken

\* A worker takes a chunk from those that are listed, and its task's slot goes
\* back when the worker is done waiting for it.
LEMMA WorkerKept ==
    ASSUME Shapes, NEW d \in Downloads, StageOK(d), ChunksOK(d),
           NEW w \in Workers, WorkerStep(d, w), phase[d] \in Streaming
    PROVE  /\ Kept(d)' \subseteq Kept(d)
           /\ worker[d][w] = "ahead" => chunk[d][w] \in Kept(d) /\ chunk[d][w] \notin Kept(d)'
<1>1. /\ next[d] \in 1 .. Chunks + 1 /\ next[d] \in Nat /\ Chunks \in Nat
      /\ listed[d] \subseteq Parts /\ Kept(d)' \subseteq Parts
  BY Numbers DEF Shapes, WorkShapes, Kept
<1>2. /\ ahead'[d] = ahead[d]
      /\ \A v \in Workers : v # w => worker'[d][v] = worker[d][v]
  BY DEF WorkerStep
<1> DEFINE Taken == /\ next[d] \in Parts /\ chunk'[d][w] = next[d]
                    /\ \A v \in Workers : v # w => chunk'[d][v] = chunk[d][v]
                    /\ listed'[d] = listed[d] \ {next[d]}
           Untouched == /\ chunk'[d] = chunk[d] /\ listed'[d] = listed[d]
                        /\ worker'[d][w] \notin {"slot", "ahead"}
<1>3. ASSUME NEW n, NEW h, TakesNext(d, w, n, h) PROVE Taken
  BY <1>3 DEF TakesNext
<1>4. ASSUME NEW n, NEW h, EndsWork(d, w, n, h) PROVE Untouched
  BY <1>4 DEF EndsWork
<1>5. Taken \/ Untouched
  <2> HIDE DEF Taken, Untouched
  <2>1. CASE Begins(d, w)
    BY <1>3, <1>4, <2>1 DEF Begins
  <2>2. CASE Retries(d, w)
    BY <2>2 DEF Retries, Untouched, Fetching, FetchStates
  <2>3. CASE Arrives(d, w)
    <3>1. PICK n \in Nat, short \in BOOLEAN : ArrivesAt(d, w, n, short)
      BY <2>3 DEF Arrives
    <3> DEFINE b == IF d \in ToFile THEN Given(bufHeld[d]) ELSE 0
               h == bufHeld[d] - b
    <3>2. Untouched \/ TakesNext(d, w, n + b, h) \/ EndsWork(d, w, n + b, h)
      BY <3>1 DEF ArrivesAt, Untouched
    <3> HIDE DEF b, h
    <3> QED
      BY <1>3, <1>4, <3>2
  <2> QED
    BY <2>1, <2>2, <2>3 DEF WorkerStep
<1>6. next[d] \in Parts /\ next[d] \notin listed[d] => ahead[d][next[d]] = None
  <2>1. next[d] \in Parts => next[d] \in next[d] .. Chunks
    BY <1>1, Numbers
  <2> QED
    BY <2>1 DEF ChunksOK, Streaming
<1>7. ASSUME NEW k \in Parts, k \in Kept(d)' PROVE k \in Kept(d)
  <2>1. /\ ahead[d][k] \notin {None, "line", "cancelled"}
        /\ \/ k \in listed'[d]
           \/ \E v \in Workers : worker'[d][v] \in {"slot", "ahead"} /\ chunk'[d][v] = k
    BY <1>2, <1>7, InKept
  <2>2. CASE k \in listed'[d]
    BY <1>5, <2>1, <2>2, InKept
  <2>3. ASSUME NEW v \in Workers, worker'[d][v] \in {"slot", "ahead"}, chunk'[d][v] = k
        PROVE  k \in Kept(d)
    <3>1. CASE v = w
      <4>1. k = next[d] /\ next[d] \in Parts
        BY <1>5, <2>3, <3>1
      <4>2. k \in listed[d]
        BY <1>6, <2>1, <4>1
      <4> QED
        BY <2>1, <4>2, InKept
    <3>2. CASE v # w
      <4>1. worker[d][v] \in {"slot", "ahead"} /\ chunk[d][v] = k
        BY <1>2, <1>5, <2>3, <3>2
      <4> QED
        BY <2>1, <4>1, InKept
    <3> QED
      BY <3>1, <3>2
  <2> QED
    BY <2>1, <2>2, <2>3
<1>8. ASSUME worker[d][w] = "ahead"
      PROVE  chunk[d][w] \in Kept(d) /\ chunk[d][w] \notin Kept(d)'
  <2> DEFINE k == chunk[d][w]
  <2>1. worker[d][w] \in Busy /\ Repays(d, w)
    BY <1>8 DEF WorkerStep, Begins, Retries, Arrives, Busy, Paying
  <2>2. k \in 1 .. next[d] - 1 /\ ahead[d][k] # None
    BY <1>8, <2>1 DEF ChunksOK
  <2>3. k \in Parts /\ k < next[d] /\ ahead[d][k] \in AheadEnded
    BY <1>1, <1>8, <2>1, <2>2, Numbers DEF Repays
  <2>4. k \in Kept(d)
    <3>1. ahead[d][k] # "line" /\ ahead[d][k] # "cancelled"
      BY <2>3, StatesDiffer DEF StageOK
    <3> QED
      BY <1>8, <2>2, <2>3, <3>1, InKept
  <2>5. k \notin listed[d] /\ k # next[d]
    BY <1>1, <2>3 DEF ChunksOK
  <2>6. ASSUME NEW v \in Workers, worker'[d][v] \in {"slot", "ahead"}
        PROVE  chunk'[d][v] # k
    <3>1. CASE v = w
      BY <1>5, <2>5, <2>6, <3>1
    <3>2. CASE v # w
      <4>1. worker[d][v] \in Busy /\ chunk'[d][v] = chunk[d][v]
        BY <1>2, <1>5, <2>6, <3>2 DEF Busy, Paying
      <4> QED
        BY <2>1, <3>2, <4>1 DEF ChunksOK
    <3> QED
      BY <3>1, <3>2
  <2>7. k \notin listed'[d]
    BY <1>5, <2>5
  <2> QED
    BY <2>3, <2>4, <2>6, <2>7, InKept
<1> QED
  BY <1>1, <1>7, <1>8

LEMMA KeptPaid ==
    ASSUME Shapes, Shapes', NEW d \in Downloads, StageOK(d), ChunksOK(d), Own(d), OwnStep(d),
           Cardinality(Kept(d)) <= preHeld[d], phase[d] \in Early, phase'[d] \in Early
    PROVE  Cardinality(Kept(d)') <= preHeld'[d]
<1>1. /\ Kept(d) \in SUBSET Parts /\ Kept(d)' \in SUBSET Parts
      /\ preHeld[d] \in Nat /\ preHeld'[d] \in Nat
  BY DEF Kept, Shapes
<1>2. /\ IsFiniteSet(Kept(d)) /\ Cardinality(Kept(d)) \in Nat
      /\ Cardinality(Kept(d)') \in Nat
  BY <1>1, SomeParts
<1>3. ASSUME Kept(d)' \subseteq Kept(d), preHeld'[d] = preHeld[d]
      PROVE  Cardinality(Kept(d)') <= preHeld'[d]
  <2>1. Cardinality(Kept(d)') <= Cardinality(Kept(d))
    BY <1>2, <1>3, NoMore
  <2> QED
    BY <1>1, <1>2, <1>3, <2>1
<1>4. CASE \E w \in Workers : WorkerStep(d, w)
  <2>1. PICK w \in Workers : WorkerStep(d, w)
    BY <1>4
  <2>2. phase[d] \in Streaming
    <3>1. worker[d][w] \in Busy \cup {"new"}
      BY <2>1 DEF WorkerStep, Begins, Retries, Arrives, Busy
    <3>2. phase[d] \in Streaming \cup {"stopWorkers"}
      BY <2>1, <3>1, WorkIsOn
    <3> QED
      BY <3>2 DEF Early, Streaming
  <2>3. /\ Kept(d)' \subseteq Kept(d)
        /\ worker[d][w] = "ahead" => chunk[d][w] \in Kept(d) /\ chunk[d][w] \notin Kept(d)'
    BY <2>1, <2>2, WorkerKept
  <2>4. CASE worker[d][w] # "ahead"
    <3>1. preHeld'[d] = preHeld[d]
      BY <2>1, <2>4 DEF WorkerStep, Begins, Retries, Arrives, Repays
    <3> QED
      BY <1>3, <2>3, <3>1
  <2>5. CASE worker[d][w] = "ahead"
    <3>1. preHeld'[d] = preHeld[d] - Given(preHeld[d])
      BY <2>1, <2>5 DEF WorkerStep, Begins, Retries, Arrives, Repays
    <3>2. Cardinality(Kept(d)') + 1 <= Cardinality(Kept(d))
      <4> DEFINE T == Kept(d)'
                 x == chunk[d][w]
      <4>1. T \in SUBSET Kept(d) /\ x \in Kept(d) /\ x \notin T
        BY <2>3, <2>5
      <4> HIDE DEF T, x
      <4>2. Cardinality(T) + 1 <= Cardinality(Kept(d))
        BY <1>2, <4>1, OneLess
      <4> QED
        BY <4>2 DEF T
    <3>3. preHeld[d] > 0
      BY <1>1, <1>2, <3>2
    <3>4. preHeld'[d] = preHeld[d] - 1
      BY <1>1, <3>1, <3>3 DEF Given
    <3> QED
      BY <1>1, <1>2, <3>2, <3>4
  <2> QED
    BY <2>4, <2>5
<1>5. CASE Grants(d)
  <2>1. chunk'[d] = chunk[d] /\ listed'[d] = listed[d]
    BY <1>5 DEF Grants
  <2>2. CASE \E k \in Parts : GrantsAhead(d, k)
    <3>1. PICK k \in Parts : GrantsAhead(d, k)
      BY <2>2
    <3>2. ASSUME NEW j \in Parts, j \in Kept(d)', j # k PROVE j \in Kept(d)
      BY <2>1, <3>1, <3>2, InKept DEF GrantsAhead
    <3>3. Kept(d)' \subseteq Kept(d) \cup {k} /\ preHeld'[d] = preHeld[d] + 1
      BY <1>1, <3>1, <3>2 DEF GrantsAhead
    <3>4. Cardinality(Kept(d)') <= Cardinality(Kept(d)) + 1
      BY <1>2, <3>3, OneMore
    <3> QED
      BY <1>1, <1>2, <3>3, <3>4
  <2>3. CASE \E w \in Workers : GrantsWorker(d, w)
    <3>1. PICK w \in Workers : GrantsWorker(d, w)
      BY <2>3
    <3>2. /\ ahead'[d] = ahead[d] /\ preHeld'[d] = preHeld[d]
          /\ \A v \in Workers : worker'[d][v] \in {"slot", "ahead"} => worker[d][v] \in {"slot", "ahead"}
      BY <3>1 DEF GrantsWorker
    <3>3. \A j \in Parts : j \in Kept(d)' => j \in Kept(d)
      BY <2>1, <3>2, InKept
    <3> QED
      BY <1>1, <1>3, <3>2, <3>3
  <2> QED
    BY <1>5, <2>2, <2>3 DEF Grants
<1>6. CASE \E k \in Parts : Fetches(d, k)
  <2>1. PICK k \in Parts : Fetches(d, k)
    BY <1>6
  <2>2. /\ worker'[d] = worker[d] /\ chunk'[d] = chunk[d] /\ listed'[d] = listed[d]
        /\ preHeld'[d] = preHeld[d] /\ ahead[d][k] \in FetchStates
        /\ \A j \in Parts : j # k => ahead'[d][j] = ahead[d][j]
    BY <2>1 DEF Fetches, SameSlots
  <2>3. ahead[d][k] \notin {None, "line", "cancelled"}
    BY <2>2, StatesDiffer DEF FetchStates, None
  <2>4. \A j \in Parts : j \in Kept(d)' => j \in Kept(d)
    BY <2>2, <2>3, InKept
  <2> QED
    BY <1>1, <1>3, <2>2, <2>4
<1>7. CASE \E n \in 0 .. Prefetch : Prefetches(d, n)
  <2>1. PICK n \in 0 .. Prefetch : Prefetches(d, n)
    BY <1>7
  <2>2. n \in Nat /\ preHeld'[d] = n
    BY <2>1, Numbers DEF Prefetches
  <2>3. ASSUME NEW j \in Parts, j \in Kept(d)' PROVE j \in 1 .. n
    <3>1. ahead'[d][j] \notin {None, "line"}
      BY <2>3, InKept
    <3>2. j <= n
      BY <2>1, <3>1 DEF Prefetches
    <3> QED
      BY <2>2, <3>2, Numbers
  <2>4. IsFiniteSet(1 .. n) /\ Cardinality(1 .. n) = n
    <3>1. 1 \in Int /\ n \in Int
      BY <2>2
    <3>2. IsFiniteSet(1 .. n) /\ Cardinality(1 .. n) = IF 1 > n THEN 0 ELSE n - 1 + 1
      BY <3>1, FS_Interval
    <3> QED
      BY <2>2, <3>2
  <2>5. Cardinality(Kept(d)') <= Cardinality(1 .. n)
    <3> DEFINE T == Kept(d)'
               S == 1 .. n
    <3>1. T \in SUBSET S /\ IsFiniteSet(S)
      BY <1>1, <2>3, <2>4
    <3> HIDE DEF T, S
    <3>2. Cardinality(T) <= Cardinality(S)
      BY <3>1, NoMore
    <3> QED
      BY <3>2 DEF T, S
  <2> QED
    BY <2>2, <2>4, <2>5
<1>8. CASE HasFirst(d) \/ HasPool(d) \/ HandsOut(d) \/ Consumes(d)
  <2>1. /\ ahead'[d] = ahead[d] /\ chunk'[d] = chunk[d] /\ listed'[d] = listed[d]
        /\ preHeld'[d] = preHeld[d]
        /\ \A v \in Workers : worker'[d][v] \in {"slot", "ahead"} => worker[d][v] \in {"slot", "ahead"}
    BY <1>8 DEF HasFirst, HasPool, HandsOut, Consumes, SameTasks, SameSlots
  <2>2. \A j \in Parts : j \in Kept(d)' => j \in Kept(d)
    BY <2>1, InKept
  <2> QED
    BY <1>1, <1>3, <2>1, <2>2
<1>9. phase'[d] \notin {"stopWorkers", "dropPrefetch", "over"}
  BY DEF Early, Streaming
<1>10. ~Leaves(d) /\ ~Halts(d) /\ ~Joins(d) /\ ~Cancels(d) /\ ~Drops(d)
  BY <1>9 DEF Leaves, Halts, Joins, Cancels, Drops
<1> QED
  BY <1>4, <1>5, <1>6, <1>7, <1>8, <1>10 DEF OwnStep

LEMMA InPayers ==
    ASSUME NEW d \in Downloads, NEW v \in Workers
    PROVE  /\ v \in Payers(d) <=> worker[d][v] \in Paying
           /\ v \in Payers(d)' <=> worker'[d][v] \in Paying
BY DEF Payers

LEMMA WorkerPays ==
    ASSUME Shapes, Shapes', NEW d \in Downloads, StageOK(d), ChunksOK(d),
           NEW w \in Workers, WorkerStep(d, w),
           Cardinality(received[d]) + Cardinality(Payers(d)) <= bufHeld[d]
    PROVE  Cardinality(received'[d]) + Cardinality(Payers(d)') <= bufHeld'[d]
<1> DEFINE P == Payers(d)
           Q == Payers(d)'
           others == P \ {w}
           p == Cardinality(P)
           q == Cardinality(Q)
           o == Cardinality(others)
           r == Cardinality(received[d])
           s == Cardinality(received'[d])
<1>1. /\ P \in SUBSET Workers /\ Q \in SUBSET Workers /\ others \in SUBSET Workers
      /\ received[d] \in SUBSET Parts /\ received'[d] \in SUBSET Parts
      /\ bufHeld[d] \in Nat /\ bufHeld'[d] \in Nat
  BY DEF Payers, Shapes, WorkShapes
<1>2. /\ p \in Nat /\ q \in Nat /\ o \in Nat /\ r \in Nat /\ s \in Nat
      /\ IsFiniteSet(P) /\ IsFiniteSet(others) /\ IsFiniteSet(received[d])
  BY <1>1, SomeParts, SomeWorkers
<1>3. \A v \in Workers : v # w => (v \in Q <=> v \in P)
  BY InPayers DEF WorkerStep
<1>4. o = IF w \in P THEN p - 1 ELSE p
  <2> HIDE DEF P
  <2> QED
    BY <1>2, FS_RemoveElement
<1>5. q = IF w \in Q THEN o + 1 ELSE o
  <2>1. w \notin others
    OBVIOUS
  <2>2. CASE w \in Q
    <3>1. Q = others \cup {w}
      BY <1>1, <1>3, <2>2
    <3> HIDE DEF Q, others
    <3> QED
      BY <1>2, <2>1, <2>2, <3>1, FS_AddElement
  <2>3. CASE w \notin Q
    <3>1. Q = others
      BY <1>1, <1>3, <2>3
    <3> HIDE DEF Q, others
    <3> QED
      BY <2>3, <3>1
  <2> QED
    BY <2>2, <2>3
<1>6. r + p <= bufHeld[d]
  OBVIOUS
<1>7. /\ w \in P <=> worker[d][w] \in Paying
      /\ w \in Q <=> worker'[d][w] \in Paying
  BY InPayers
<1> HIDE DEF P, Q, others, p, q, o, r, s
<1> SUFFICES s + q <= bufHeld'[d]
  BY DEF s, q, Q
<1>8. ASSUME NEW n \in Nat, NEW h \in Nat, TakesNext(d, w, n, h) \/ EndsWork(d, w, n, h), s + o <= h
      PROVE  s + q <= bufHeld'[d]
  <2>1. \/ bufHeld'[d] = h + 1
        \/ bufHeld'[d] = h /\ worker'[d][w] \in {"slot", "done"}
    BY <1>8 DEF TakesNext, EndsWork
  <2>2. CASE bufHeld'[d] = h + 1
    BY <1>2, <1>5, <1>8, <2>2
  <2>3. CASE bufHeld'[d] = h /\ worker'[d][w] \in {"slot", "done"}
    <3>1. w \notin Q
      BY <1>7, <2>3, StatesDiffer DEF WorkerEnded, Busy
    <3> QED
      BY <1>2, <1>5, <1>8, <2>3, <3>1
  <2> QED
    BY <2>1, <2>2, <2>3
<1>9. CASE Begins(d, w)
  <2>1. w \notin P
    BY <1>7, <1>9 DEF Begins, Paying, Fetching, FetchStates
  <2>2. r = s
    BY <1>9 DEF Begins, SameWritten, r, s
  <2>3. TakesNext(d, w, free, bufHeld[d]) \/ EndsWork(d, w, free, bufHeld[d])
    BY <1>9 DEF Begins
  <2>4. \/ bufHeld'[d] = bufHeld[d] + 1
        \/ bufHeld'[d] = bufHeld[d] /\ worker'[d][w] \in {"slot", "done"}
    BY <2>3 DEF TakesNext, EndsWork
  <2>5. worker'[d][w] \in {"slot", "done"} => w \notin Q
    BY <1>7, StatesDiffer DEF WorkerEnded, Busy
  <2> QED
    BY <1>1, <1>2, <1>4, <1>5, <1>6, <2>1, <2>2, <2>4, <2>5
<1>10. CASE Retries(d, w)
  <2>1. w \in P
    BY <1>7, <1>10 DEF Retries
  <2>2. r = s
    BY <1>10 DEF Retries, SameWritten, r, s
  <2>3. CASE bufHeld'[d] = bufHeld[d]
    BY <1>1, <1>2, <1>4, <1>5, <1>6, <2>1, <2>2, <2>3
  <2>4. CASE worker'[d][w] = "failed" /\ bufHeld'[d] = bufHeld[d] - Given(bufHeld[d])
    <3>1. w \notin Q
      BY <1>7, <2>4, StatesDiffer DEF WorkerEnded, Busy
    <3>2. Given(bufHeld[d]) \in Nat /\ Given(bufHeld[d]) <= 1
      BY <1>1, GivenIs
    <3> QED
      BY <1>1, <1>2, <1>4, <1>5, <1>6, <2>1, <2>2, <2>4, <3>1, <3>2
  <2> QED
    BY <1>10, <2>3, <2>4 DEF Retries
<1>11. CASE Arrives(d, w)
  <2>1. w \in P
    BY <1>7, <1>11 DEF Arrives
  <2>2. PICK n \in Nat, short \in BOOLEAN : ArrivesAt(d, w, n, short)
    BY <1>11 DEF Arrives
  <2> DEFINE b == IF d \in ToFile THEN Given(bufHeld[d]) ELSE 0
             h == bufHeld[d] - b
  <2>3. b \in Nat /\ h \in Nat
    BY <2>2 DEF ArrivesAt
  <2>4. s + o <= h
    <3>1. CASE d \in ToFile
      <4>1. received'[d] = received[d]
        BY <2>2, <3>1 DEF ArrivesAt
      <4>2. r = s /\ b = Given(bufHeld[d])
        BY <3>1, <4>1 DEF r, s
      <4>3. b <= 1
        BY <1>1, <4>2, GivenIs
      <4> HIDE DEF b
      <4> QED
        BY <1>1, <1>2, <1>4, <1>6, <2>1, <2>3, <4>2, <4>3
    <3>2. CASE d \notin ToFile
      <4>1. received'[d] = received[d] \cup {chunk[d][w]}
        BY <2>2, <3>2 DEF ArrivesAt
      <4>2. s <= r + 1
        BY <1>2, <4>1, OneMore DEF r, s
      <4>3. h = bufHeld[d]
        BY <1>1, <3>2
      <4> HIDE DEF b, h
      <4> QED
        BY <1>1, <1>2, <1>4, <1>6, <2>1, <4>2, <4>3
    <3> QED
      BY <3>1, <3>2
  <2>5. CASE short
    <3>1. worker'[d][w] = "done" /\ bufHeld'[d] = h
      BY <2>2, <2>5 DEF ArrivesAt
    <3>2. w \notin Q
      BY <1>7, <3>1, StatesDiffer DEF WorkerEnded, Busy
    <3> HIDE DEF b, h
    <3> QED
      BY <1>2, <1>5, <2>3, <2>4, <3>1, <3>2
  <2>6. CASE ~short
    <3>1. TakesNext(d, w, n + b, h) \/ EndsWork(d, w, n + b, h)
      BY <2>2, <2>6 DEF ArrivesAt
    <3>2. n + b \in Nat
      BY <2>3
    <3> HIDE DEF b, h
    <3> QED
      BY <1>8, <2>3, <2>4, <3>1, <3>2
  <2> QED
    BY <2>5, <2>6
<1> QED
  BY <1>9, <1>10, <1>11 DEF WorkerStep

LEMMA BufferPaid ==
    ASSUME Shapes, Shapes', NEW d \in Downloads, StageOK(d), ChunksOK(d), Own(d), OwnStep(d),
           Cardinality(received[d]) + Cardinality(Payers(d)) <= bufHeld[d],
           phase[d] \in Early, phase'[d] \in Early
    PROVE  Cardinality(received'[d]) + Cardinality(Payers(d)') <= bufHeld'[d]
<1>1. /\ Payers(d) \in SUBSET Workers /\ Payers(d)' \in SUBSET Workers
      /\ received[d] \in SUBSET Parts /\ received'[d] \in SUBSET Parts
      /\ bufHeld[d] \in Nat /\ bufHeld'[d] \in Nat
  BY DEF Payers, Shapes, WorkShapes
<1>2. /\ Cardinality(received[d]) \in Nat /\ Cardinality(received'[d]) \in Nat
      /\ Cardinality(Payers(d)) \in Nat /\ Cardinality(Payers(d)') \in Nat
      /\ IsFiniteSet(Payers(d)) /\ IsFiniteSet(received[d])
  BY <1>1, SomeParts, SomeWorkers
<1>3. CASE \E w \in Workers : WorkerStep(d, w)
  BY <1>3, WorkerPays
<1>4. ASSUME received'[d] = received[d], bufHeld'[d] = bufHeld[d],
             \A v \in Workers : worker'[d][v] \in Paying => worker[d][v] \in Paying
      PROVE  Cardinality(received'[d]) + Cardinality(Payers(d)') <= bufHeld'[d]
  <2>1. Payers(d)' \in SUBSET Payers(d)
    BY <1>1, <1>4, InPayers
  <2>2. Cardinality(Payers(d)') <= Cardinality(Payers(d))
    BY <1>2, <2>1, NoMore
  <2> QED
    BY <1>1, <1>2, <1>4, <2>2
<1>5. CASE Grants(d)
  <2>1. CASE \E k \in Parts : GrantsAhead(d, k)
    BY <1>4, <1>5, <2>1 DEF Grants, GrantsAhead, SameWritten
  <2>2. CASE \E w \in Workers : GrantsWorker(d, w)
    <3>1. PICK w \in Workers : GrantsWorker(d, w)
      BY <2>2
    <3>2. received'[d] = received[d] /\ bufHeld'[d] = bufHeld[d] + 1
      BY <1>5, <3>1 DEF Grants, GrantsWorker, SameWritten
    <3>3. Payers(d)' \subseteq Payers(d) \cup {w}
      BY <1>1, <3>1, InPayers DEF GrantsWorker
    <3>4. Cardinality(Payers(d)') <= Cardinality(Payers(d)) + 1
      BY <1>2, <3>3, OneMore
    <3> QED
      BY <1>1, <1>2, <3>2, <3>4
  <2> QED
    BY <1>5, <2>1, <2>2 DEF Grants
<1>6. CASE HandsOut(d)
  <2>1. /\ at[d] \in received[d] /\ received'[d] = received[d] \ {at[d]} /\ worker'[d] = worker[d]
        /\ bufHeld'[d] = bufHeld[d] - Given(bufHeld[d])
    BY <1>6 DEF HandsOut, SameTasks
  <2>2. Cardinality(received'[d]) = Cardinality(received[d]) - 1
    <3>1. Cardinality(received[d] \ {at[d]}) = Cardinality(received[d]) - 1
      <4> DEFINE S == received[d]
                 x == at[d]
      <4>1. x \in S /\ IsFiniteSet(S)
        BY <1>2, <2>1
      <4> HIDE DEF S, x
      <4>2. Cardinality(S \ {x}) = Cardinality(S) - 1
        BY <4>1, FS_RemoveElement
      <4> QED
        BY <4>2 DEF S, x
    <3> QED
      BY <2>1, <3>1
  <2>3. Payers(d)' = Payers(d)
    BY <2>1 DEF Payers
  <2>4. Given(bufHeld[d]) \in Nat /\ Given(bufHeld[d]) <= 1
    BY <1>1, GivenIs
  <2> QED
    BY <1>1, <1>2, <2>1, <2>2, <2>3, <2>4
<1>7. CASE \/ \E k \in Parts : Fetches(d, k)
           \/ \E n \in 0 .. Prefetch : Prefetches(d, n)
           \/ HasFirst(d) \/ HasPool(d) \/ Consumes(d)
  <2>1. received'[d] = received[d] /\ bufHeld'[d] = bufHeld[d]
    BY <1>7 DEF Fetches, Prefetches, HasFirst, HasPool, Consumes, SameSlots, SameWritten
  <2>2. \A v \in Workers : worker'[d][v] = worker[d][v] \/ worker'[d][v] = "new"
    BY <1>7 DEF Fetches, Prefetches, HasFirst, HasPool, Consumes, SameTasks
  <2>3. \A v \in Workers : worker'[d][v] \in Paying => worker[d][v] \in Paying
    BY <2>2, StatesDiffer DEF Busy
  <2> QED
    BY <1>4, <2>1, <2>3
<1>8. phase'[d] \notin {"stopWorkers", "dropPrefetch", "over"}
  BY DEF Early, Streaming
<1>9. ~Leaves(d) /\ ~Halts(d) /\ ~Joins(d) /\ ~Cancels(d) /\ ~Drops(d)
  BY <1>8 DEF Leaves, Halts, Joins, Cancels, Drops
<1> QED
  BY <1>3, <1>5, <1>6, <1>7, <1>9 DEF OwnStep

LEMMA PaidKept ==
    ASSUME Shapes, Shapes', NEW d \in Downloads, StageOK(d), ChunksOK(d), PaidOK(d),
           Own(d), OwnStep(d)
    PROVE  PaidOK(d)'
<1>1. phase'[d] \in Early => phase[d] \in Early
  <2>1. CASE \E w \in Workers : WorkerStep(d, w)
    BY <2>1 DEF WorkerStep
  <2>2. CASE ~ \E w \in Workers : WorkerStep(d, w)
    BY <2>2 DEF OwnStep, Grants, Fetches, Prefetches, Leaves, HasFirst, HasPool, HandsOut, Consumes,
       Halts, Joins, Cancels, Drops, SameStage, Early, Streaming
  <2> QED
    BY <2>1, <2>2
<1>2. phase'[d] \in Early =>
         /\ Cardinality(Kept(d)') <= preHeld'[d]
         /\ Cardinality(received'[d]) + Cardinality(Payers(d)') <= bufHeld'[d]
  <2>1. phase[d] \in Early =>
           /\ Cardinality(Kept(d)) <= preHeld[d]
           /\ Cardinality(received[d]) + Cardinality(Payers(d)) <= bufHeld[d]
    BY DEF PaidOK, Early
  <2> QED
    BY <1>1, <2>1, KeptPaid, BufferPaid
<1>3. ASSUME phase'[d] = "over", Parts \subseteq Got(d)'
      PROVE  preHeld'[d] = 0
  <2>1. CASE Drops(d)
    BY <2>1 DEF Drops
  <2>2. CASE ~Drops(d)
    <3>1. phase[d] = "over" /\ ~ \E w \in Workers : WorkerStep(d, w)
      <4>1. ASSUME NEW w \in Workers, WorkerStep(d, w) PROVE FALSE
        <5>1. worker[d][w] \in Busy \cup {"new"} /\ phase[d] = "over"
          BY <1>3, <4>1 DEF WorkerStep, Begins, Retries, Arrives, Busy
        <5> QED
          BY <5>1, WorkIsOn DEF Streaming
      <4>2. ~ \E w \in Workers : WorkerStep(d, w)
        BY <4>1
      <4> QED
        BY <1>3, <2>2, <4>2 DEF OwnStep, Grants, Fetches, Prefetches, Leaves, HasFirst, HasPool,
           HandsOut, Consumes, Halts, Joins, Cancels, SameStage
    <3>2. \A k \in Parts : k \in Got(d)
      BY <1>3, <3>1, GotMoves
    <3>3. preHeld[d] = 0
      BY <3>1, <3>2 DEF PaidOK, Over
    <3>4. ~ \E k \in Parts : GrantsAhead(d, k)
      BY <3>2, StatesDiffer DEF GrantsAhead, ChunksOK
    <3> QED
      BY <2>2, <3>1, <3>3, <3>4 DEF OwnStep, Grants, GrantsWorker, Fetches, Prefetches, Leaves, HasFirst,
         HasPool, HandsOut, Consumes, Joins, Cancels, SameSlots, Streaming
  <2> QED
    BY <2>1, <2>2
<1> QED
  BY <1>2, <1>3 DEF PaidOK, Over, Early

-----------------------------------------------------------------------------
(* The invariant.                                                          *)

LEMMA IInvAtInit == Init => IInv
<1> SUFFICES ASSUME Init PROVE IInv
  OBVIOUS
<1>1. Shapes
  <2>1. 1 \in 1 .. Chunks + 1 /\ 0 \in 0 .. Chunks + 1 /\ 0 \in Files
    BY Numbers
  <2> QED
    BY <2>1 DEF Init, Shapes, WorkShapes, Phases, WorkerStates, AheadStates, AheadEnded
<1>2. SlotsOK
  <2>1. \A d \in Downloads : Balance[d] = 0 /\ Held(d) = 0
    BY DEF Init, Balance, Held
  <2>2. Counted(Balance) = Tokens(Balance, Downloads, Slots)
    BY DEF Counted, Tokens
  <2>3. Cardinality(Counted(Balance)) = 0
    BY <2>1, <2>2, Numbers, TokensOfNobody
  <2> QED
    BY <2>1, <2>3, Numbers DEF Init, SlotsOK
<1>3. LineOK
  <2>1. line = <<>> /\ Len(line) = 0 /\ line \in Seq(Waiters)
    BY EmptySeq DEF Init
  <2>2. DOMAIN line = {}
    BY <2>1, LenProperties
  <2> QED
    BY <2>1, <2>2 DEF LineOK
<1>4. ASSUME NEW d \in Downloads PROVE DownloadOK(d)
  <2>1. Got(d) = {}
    <3>1. \A k \in Parts : ~ (k < 0)
      BY Numbers
    <3> QED
      BY <3>1 DEF Init, Got
  <2>2. \A w \in Workers : worker[d][w] \notin Busy
    BY StatesDiffer DEF Init
  <2>3. StageOK(d)
    BY Numbers DEF Init, StageOK, Streaming, None
  <2>4. ChunksOK(d)
    <3>1. (next[d] .. Chunks) \subseteq Parts
      BY Numbers DEF Init
    <3> QED
      BY <2>1, <2>2, <3>1 DEF Init, ChunksOK, Busy, Paying
  <2>5. StreamOK(d)
    BY DEF Init, StreamOK, Streaming
  <2>6. ResultOK(d)
    BY Numbers DEF Init, ResultOK, Over, None
  <2>7. PaidOK(d)
    <3>1. Kept(d) = {} /\ Payers(d) = {} /\ received[d] = {}
      <4>1. \A w \in Workers : worker[d][w] \notin Paying
        BY <2>2 DEF Busy
      <4> QED
        BY <4>1 DEF Init, Kept, Payers
    <3>2. /\ Cardinality(Kept(d)) = 0 /\ Cardinality(Payers(d)) = 0
          /\ Cardinality(received[d]) = 0
      BY <3>1, FS_EmptySet
    <3>3. preHeld[d] = 0 /\ bufHeld[d] = 0
      BY DEF Init
    <3> QED
      BY <3>2, <3>3 DEF PaidOK, Init, Over
  <2> QED
    BY <2>3, <2>4, <2>5, <2>6, <2>7 DEF DownloadOK
<1> QED
  BY <1>1, <1>2, <1>3, <1>4 DEF IInv

LEMMA IInvKept == IInv /\ [Next]_vars => IInv'
<1> SUFFICES ASSUME IInv, [Next]_vars PROVE IInv'
  OBVIOUS
<1>1. /\ Shapes /\ SlotsOK /\ LineOK
      /\ \A d \in Downloads : /\ DownloadOK(d) /\ StageOK(d) /\ ChunksOK(d)
                              /\ StreamOK(d) /\ ResultOK(d) /\ PaidOK(d)
  BY DEF IInv, DownloadOK
<1>2. CASE Rests
  <2>1. Shapes' /\ \A d \in Downloads : DownloadOK(d)'
    BY <1>1, <1>2, OthersKept DEF Rests
  <2>2. SlotsOK'
    <3>1. \A d \in Downloads : preHeld'[d] = preHeld[d] /\ bufHeld'[d] = bufHeld[d]
      BY <1>2 DEF Rests, Same, SameWork
    <3>2. \A d \in Downloads : Held(d)' = Held(d)
      BY <3>1 DEF Held
    <3>3. Balance' = Balance
      BY <3>1 DEF Balance, Held
    <3>4. free' = free
      BY <1>2 DEF Rests
    <3> QED
      BY <1>1, <3>2, <3>3, <3>4 DEF SlotsOK, Counted
  <2>3. LineOK'
    <3>1. /\ line' = line
          /\ \A d \in Downloads : worker'[d] = worker[d] /\ ahead'[d] = ahead[d]
      BY <1>2 DEF Rests, Same, SameWork
    <3>2. \A x \in Waiters : Waits(x) => Waits(x)'
      BY <3>1 DEF Waiters, Waits
    <3>3. \A i \in DOMAIN line' : \E x \in Waiters : line'[i] = x /\ Waits(x)'
      BY <1>1, <3>1, <3>2, LineHolds
    <3> QED
      BY <1>1, <3>1, <3>3, LineIs DEF LineOK
  <2> QED
    BY <2>1, <2>2, <2>3 DEF IInv
<1>3. ASSUME NEW d \in Downloads, Own(d), OwnStep(d) PROVE IInv'
  <2>1. Shapes' /\ \A e \in Downloads : e # d => Same(e)
    BY <1>3 DEF Own
  <2>2. StageOK(d)' /\ ChunksOK(d)' /\ StreamOK(d)'
    BY <1>1, <1>3, StageKept, ChunksKept, StreamKept
  <2>3. ResultOK(d)'
    BY <1>1, <1>3, <2>1, FileResult, StreamResult
  <2>4. PaidOK(d)'
    BY <1>1, <1>3, <2>1, PaidKept
  <2>5. \A e \in Downloads : DownloadOK(e)'
    <3>1. DownloadOK(d)'
      BY <2>2, <2>3, <2>4 DEF DownloadOK
    <3> QED
      BY <1>1, <2>1, <3>1, OthersKept
  <2>6. SlotsOK' /\ LineOK'
    BY <1>1, <1>3, SlotsKept, LineKept
  <2> QED
    BY <2>1, <2>5, <2>6 DEF IInv
<1> QED
  BY <1>2, <1>3, StepIs

LEMMA Invariant == Spec => []IInv
BY IInvAtInit, IInvKept, PTL DEF Spec

-----------------------------------------------------------------------------
(* What holds of every run.                                                *)

\* A slot of read_ahead_slots is free or counted by one ReadAhead: acquire(),
\* release() and release_all() of however many downloads, workers and prefetched
\* chunks lose none and make none, wherever a task is cancelled.
THEOREM SlotsConservedAlways == Spec => []SlotsConserved
<1>1. ASSUME IInv PROVE SlotsConserved
  <2>1. Shapes /\ SlotsOK
    BY <1>1 DEF IInv
  <2>2. \A d \in Downloads : preHeld[d] \in Nat /\ bufHeld[d] \in Nat
    BY <2>1 DEF Shapes, WorkShapes
  <2>3. \A d \in Downloads : preHeld[d] \in 0 .. Slots /\ bufHeld[d] \in 0 .. Slots
    BY <2>1, <2>2, Numbers DEF SlotsOK, Held
  <2>4. Counted(Balance) = Tokens(Balance, Downloads, Slots)
    BY DEF Counted, Tokens
  <2>5. Cardinality(Counted(Balance)) \in Nat
    BY <2>4, Numbers, DownloadParameters, TokensFinite
  <2>6. free \in 0 .. Slots
    BY <2>1, <2>5, Numbers DEF SlotsOK
  <2>7. preHeld \in [Downloads -> 0 .. Slots] /\ bufHeld \in [Downloads -> 0 .. Slots]
    BY <2>1, <2>3 DEF Shapes, WorkShapes
  <2>8. TypeOK
    BY <2>1, <2>6, <2>7 DEF TypeOK, Shapes, WorkShapes, Phases, WorkerStates, Busy, Paying,
       Fetching, AheadStates
  <2> QED
    BY <2>1, <2>8 DEF SlotsConserved, SlotsOK, Balance
<1> QED
  BY <1>1, Invariant, PTL

\* The memory of a running download is bounded by the slots it holds: every
\* prefetched chunk nobody has taken and every received one is paid for.
THEOREM MemoryIsPaidAlways == Spec => []MemoryIsPaid
<1>1. ASSUME IInv, NEW d \in Downloads, phase[d] \in {"run", "out"}
      PROVE  Cardinality(InMemory(d)) <= Held(d)
  <2> DEFINE A == {k \in Parts : ahead[d][k] = "ok" /\ Untaken(d, k)}
             R == received[d]
             K == Kept(d)
             P == Payers(d)
  <2>1. Shapes /\ PaidOK(d)
    BY <1>1 DEF IInv, DownloadOK
  <2>2. /\ Cardinality(K) <= preHeld[d] /\ Cardinality(R) + Cardinality(P) <= bufHeld[d]
        /\ preHeld[d] \in Nat /\ bufHeld[d] \in Nat
    BY <1>1, <2>1 DEF PaidOK, Streaming, Shapes, WorkShapes
  <2>3. /\ A \in SUBSET K /\ K \in SUBSET Parts /\ A \in SUBSET Parts
        /\ R \in SUBSET Parts /\ P \in SUBSET Workers
    BY <2>1 DEF Kept, Payers, Shapes, None
  <2>4. InMemory(d) = A \cup R
    BY DEF InMemory
  <2> HIDE DEF A, R, K, P
  <2>5. /\ IsFiniteSet(A) /\ IsFiniteSet(R) /\ IsFiniteSet(K)
        /\ Cardinality(A) \in Nat /\ Cardinality(R) \in Nat /\ Cardinality(K) \in Nat
        /\ Cardinality(P) \in Nat
    BY <2>3, SomeParts, SomeWorkers
  <2>6. Cardinality(A) <= Cardinality(K)
    BY <2>3, <2>5, NoMore
  <2>7. /\ Cardinality(A \cup R) = Cardinality(A) + Cardinality(R) - Cardinality(A \cap R)
        /\ Cardinality(A \cap R) \in Nat
    BY <2>5, FS_Union, FS_Intersection, FS_CardinalityType
  <2>8. Cardinality(A \cup R) <= preHeld[d] + bufHeld[d]
    BY <2>2, <2>5, <2>6, <2>7
  <2> QED
    BY <2>4, <2>8 DEF Held
<1>2. IInv => MemoryIsPaid
  BY <1>1 DEF MemoryIsPaid
<1> QED
  BY <1>2, Invariant, PTL

\* handle_download() moves only a whole file into place, and get_file() ends
\* without an error only after every chunk up to the first short one.
THEOREM WholeFileOrErrorAlways == Spec => []WholeFileOrError
<1>1. ASSUME IInv PROVE WholeFileOrError
  BY <1>1 DEF IInv, DownloadOK, ResultOK, WholeFileOrError
<1> QED
  BY <1>1, Invariant, PTL

\* A download that has all its chunks leaves no slot behind: its chunks arrived,
\* so their fetch_ahead() tasks are over and none of them can take one any more.
THEOREM FinishedGivesBackAlways == Spec => []FinishedGivesBack
<1>1. ASSUME IInv, NEW d \in Downloads, Over(d), result[d] = "done", cut[d] = {}
      PROVE  /\ Held(d) = 0
             /\ \A k \in Parts : ahead[d][k] \in AheadEnded
  <2>1. Shapes /\ StageOK(d) /\ ChunksOK(d) /\ ResultOK(d) /\ PaidOK(d)
    BY <1>1 DEF IInv, DownloadOK
  <2>2. ASSUME NEW k \in Parts PROVE k \in Got(d)
    <3>1. CASE d \in ToFile
      BY <1>1, <2>1, <3>1, Numbers, InGot DEF ResultOK
    <3>2. CASE d \notin ToFile
      <4>1. at[d] = Chunks + 1
        BY <1>1, <2>1, <3>2 DEF ResultOK
      <4>2. k < at[d]
        BY <4>1, Numbers
      <4> QED
        BY <4>2, InGot
    <3> QED
      BY <3>1, <3>2
  <2>3. preHeld[d] = 0 /\ bufHeld[d] = 0
    BY <1>1, <2>1, <2>2 DEF PaidOK, StageOK, Over
  <2> QED
    BY <2>1, <2>2, <2>3 DEF Held, ChunksOK
<1>2. IInv => FinishedGivesBack
  BY <1>1 DEF FinishedGivesBack
<1> QED
  BY <1>2, Invariant, PTL
=============================================================================
