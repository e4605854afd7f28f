---------------------------- MODULE UploadProofs ----------------------------
(***************************************************************************)
(* save_file() for every number of uploads, sessions, workers, parts,      *)
(* slots, retries and faults.                                              *)
(***************************************************************************)
EXTENDS Upload, SequenceTheorems, FiniteSetTheorems,
        WellFoundedInduction, TLAPS

-----------------------------------------------------------------------------
(* The least of a set of numbers.                                          *)

\* A set of numbers has a least one: of the intervals 0 .. n one is in no other.
LEMMA LeastNumber ==
    ASSUME NEW T \in SUBSET Nat, T # {}
    PROVE  \E x \in T : \A y \in T : x <= y
<1> DEFINE R == StrictSubsetOrdering(Nat)
           F == {0 .. n : n \in T}
<1>1. IsWellFoundedOn(R, FiniteSubsetsOf(Nat))
  BY FS_StrictSubsetOrderingWellFounded
<1>2. F \subseteq FiniteSubsetsOf(Nat)
  <2>1. ASSUME NEW n \in T PROVE 0 .. n \in FiniteSubsetsOf(Nat)
    <3>1. IsFiniteSet(0 .. n)
      BY FS_Interval
    <3> QED
      BY <3>1 DEF FiniteSubsetsOf
  <2> QED
    BY <2>1
<1>3. PICK I \in F : \A J \in F : <<J, I>> \notin R
  <2>1. F # {}
    OBVIOUS
  <2> HIDE DEF F, R
  <2> QED
    BY <1>1, <1>2, <2>1, WFMin
<1>4. PICK x \in T : I = 0 .. x
  OBVIOUS
<1>5. ASSUME NEW y \in T PROVE x <= y
  <2>1. SUFFICES ASSUME y < x PROVE FALSE
    OBVIOUS
  <2>2. /\ 0 .. y \subseteq 0 .. x /\ x \in 0 .. x /\ x \notin 0 .. y
    BY <2>1
  <2>3. <<0 .. y, 0 .. x>> \in R
    BY <2>2 DEF StrictSubsetOrdering
  <2> QED
    BY <1>3, <1>4, <2>3
<1> QED
  BY <1>5

-----------------------------------------------------------------------------
(* A line that loses one.                                                  *)

LEMMA RemoveAtIs ==
    ASSUME NEW S, NEW s \in Seq(S), NEW i \in 1 .. Len(s)
    PROVE  /\ RemoveAt(s, i) \in Seq(S)
           /\ Len(RemoveAt(s, i)) = Len(s) - 1
           /\ \A j \in 1 .. Len(s) - 1 :
                 RemoveAt(s, i)[j] = IF j < i THEN s[j] ELSE s[j + 1]
<1> DEFINE a == SubSeq(s, 1, i - 1)
           b == SubSeq(s, i + 1, Len(s))
<1>1. /\ a \in Seq(S) /\ Len(a) = i - 1
      /\ \A j \in 1 .. i - 1 : a[j] = s[j]
  BY SubSeqProperties, ElementOfSeq
<1>2. /\ b \in Seq(S) /\ Len(b) = Len(s) - i
      /\ \A j \in 1 .. Len(s) - i : b[j] = s[i + j]
  BY SubSeqProperties, ElementOfSeq
<1>3. /\ a \o b \in Seq(S) 
      /\ Len(a \o b) = Len(s) - 1
      /\ \A j \in 1 .. Len(s) - 1 : (a \o b)[j] = IF j < i THEN s[j] ELSE s[j + 1]
  <2> HIDE DEF a, b
  <2>1. /\ a \o b \in Seq(S)
        /\ Len(a \o b) = Len(a) + Len(b)
        /\ \A j \in 1 .. Len(a) + Len(b) :
              (a \o b)[j] = IF j <= Len(a) THEN a[j] ELSE b[j - Len(a)]
    BY <1>1, <1>2, ConcatProperties
  <2>2. Len(s) \in Nat
    BY LenProperties
  <2>3. Len(a) + Len(b) = Len(s) - 1
    BY <1>1, <1>2, <2>2
  <2>4. ASSUME NEW j \in 1 .. Len(s) - 1
        PROVE  (a \o b)[j] = IF j < i THEN s[j] ELSE s[j + 1]
    <3>1. CASE j < i
      BY <1>1, <2>1, <2>2, <2>3, <3>1
    <3>2. CASE ~(j < i)
      <4>1. (a \o b)[j] = b[j - (i - 1)] /\ j - (i - 1) \in 1 .. Len(s) - i
        BY <1>1, <2>1, <2>2, <2>3, <3>2
      <4>2. i + (j - (i - 1)) = j + 1
        BY <2>2
      <4> QED
        BY <1>2, <3>2, <4>1, <4>2
    <3> QED
      BY <3>1, <3>2
  <2> QED
    BY <2>1, <2>3, <2>4
<1> QED
  BY <1>3 DEF RemoveAt

\* Of a sequence without repetitions the element is gone.
LEMMA RemoveAtOnce ==
    ASSUME NEW S, NEW s \in Seq(S), NEW i \in 1 .. Len(s),
           \A j, k \in DOMAIN s : s[j] = s[k] => j = k
    PROVE  LET L == RemoveAt(s, i)
           IN  /\ \A j \in DOMAIN L :
                     L[j] # s[i] /\ \E k \in DOMAIN s : L[j] = s[k]
               /\ \A j, k \in DOMAIN L : L[j] = L[k] => j = k
<1> DEFINE L == RemoveAt(s, i)
           n == Len(s)
           Old(j) == IF j < i THEN j ELSE j + 1
<1>0. /\ L \in Seq(S) /\ Len(L) = n - 1
      /\ \A j \in 1 .. n - 1 : L[j] = IF j < i THEN s[j] ELSE s[j + 1]
  BY RemoveAtIs
<1>1. n \in Nat /\ DOMAIN s = 1 .. n /\ DOMAIN L = 1 .. n - 1
  BY <1>0, LenProperties
<1>2. ASSUME NEW j \in 1 .. n - 1
      PROVE  Old(j) \in 1 .. n /\ Old(j) # i /\ L[j] = s[Old(j)]
  <2> HIDE DEF L
  <2> QED
    BY <1>0, <1>1
<1> HIDE DEF L, n
<1>3. i \in 1 .. n
  BY DEF n
<1>4. ASSUME NEW j \in 1 .. n - 1
      PROVE  L[j] # s[i] /\ \E k \in 1 .. n : L[j] = s[k]
  <2>1. Old(j) \in DOMAIN s /\ i \in DOMAIN s /\ Old(j) # i /\ L[j] = s[Old(j)]
    BY <1>1, <1>2, <1>3
  <2> HIDE DEF Old
  <2> QED
    BY <1>1, <2>1
<1>5. ASSUME NEW j \in 1 .. n - 1, NEW k \in 1 .. n - 1, L[j] = L[k]
      PROVE  j = k
  <2>1. Old(j) = Old(k)
    BY <1>1, <1>2, <1>5
  <2> QED
    BY <1>1, <1>3, <2>1
<1> QED
  BY <1>1, <1>4, <1>5 DEF L

-----------------------------------------------------------------------------
(* Slots: f[d] of them belong to d, and <<d, n>> stands for the n-th.      *)

Tokens(f, D, N) == {t \in D \X (1 .. N) : t[2] <= f[t[1]]}

LEMMA OwnTokens ==
    ASSUME NEW d, NEW k \in Nat
    PROVE  IsFiniteSet({d} \X (1 .. k)) /\ Cardinality({d} \X (1 .. k)) = k
<1>1. IsFiniteSet({d}) /\ Cardinality({d}) = 1
  BY FS_Singleton
<1>2. IsFiniteSet(1 .. k) /\ Cardinality(1 .. k) = k
  <2>1. 1 \in Int /\ k \in Int
    OBVIOUS
  <2> QED
    BY <2>1, FS_Interval
<1>3. /\ IsFiniteSet({d} \X (1 .. k))
      /\ Cardinality({d} \X (1 .. k)) = Cardinality({d}) * Cardinality(1 .. k)
  BY <1>1, <1>2, FS_Product
<1> QED
  BY <1>1, <1>2, <1>3

LEMMA TokensFinite ==
    ASSUME NEW D, IsFiniteSet(D), NEW N \in Nat, NEW f
    PROVE  IsFiniteSet(Tokens(f, D, N)) /\ Cardinality(Tokens(f, D, N)) \in Nat
<1>1. 1 \in Int /\ N \in Int
  OBVIOUS
<1>2. IsFiniteSet(1 .. N)
  BY <1>1, FS_Interval
<1>3. IsFiniteSet(D \X (1 .. N))
  BY <1>2, FS_Product
<1>4. Tokens(f, D, N) \in SUBSET (D \X (1 .. N))
  BY DEF Tokens
<1>5. IsFiniteSet(Tokens(f, D, N))
  BY <1>3, <1>4, FS_Subset
<1> QED
  BY <1>5, FS_CardinalityType

LEMMA TokensOfNobody ==
    ASSUME NEW D, NEW N \in Nat, NEW f, \A d \in D : f[d] = 0
    PROVE  Cardinality(Tokens(f, D, N)) = 0
<1>1. Tokens(f, D, N) = {}
  BY DEF Tokens
<1> QED
  BY <1>1, FS_EmptySet

LEMMA TokensBound ==
    ASSUME NEW D, IsFiniteSet(D), NEW N \in Nat, NEW f \in [D -> 0 .. N], NEW d \in D
    PROVE  f[d] <= Cardinality(Tokens(f, D, N))
<1>1. f[d] \in Nat
  OBVIOUS
<1>2. {d} \X (1 .. f[d]) \in SUBSET Tokens(f, D, N)
  <2>1. ASSUME NEW t \in {d} \X (1 .. f[d]) PROVE t \in Tokens(f, D, N)
    BY DEF Tokens
  <2> QED
    BY <2>1
<1>3. Cardinality({d} \X (1 .. f[d])) <= Cardinality(Tokens(f, D, N))
  BY <1>2, TokensFinite, FS_Subset
<1> QED
  BY <1>1, <1>3, OwnTokens

LEMMA TokensChange ==
    ASSUME NEW D, IsFiniteSet(D), NEW N \in Nat, NEW f \in [D -> 0 .. N],
           NEW d \in D, NEW m \in 0 .. N, NEW g \in [D -> 0 .. N],
           g[d] = m, \A e \in D : e # d => g[e] = f[e]
    PROVE  Cardinality(Tokens(g, D, N)) = Cardinality(Tokens(f, D, N)) - f[d] + m
<1> DEFINE R == {t \in Tokens(f, D, N) : t[1] # d}
           Mine(k) == {d} \X (1 .. k)
<1>1. f[d] \in 0 .. N
  OBVIOUS
<1>2. Tokens(f, D, N) = R \cup Mine(f[d])
  BY <1>1 DEF Tokens
<1>3. Tokens(g, D, N) = R \cup Mine(m)
  BY <1>1 DEF Tokens
<1>4. IsFiniteSet(R) /\ Cardinality(R) \in Nat
  <2>1. R \in SUBSET Tokens(f, D, N)
    OBVIOUS
  <2>2. IsFiniteSet(R)
    BY <2>1, TokensFinite, FS_Subset
  <2> QED
    BY <2>2, FS_CardinalityType
<1>5. ASSUME NEW k \in 0 .. N
      PROVE  Cardinality(R \cup Mine(k)) = Cardinality(R) + k
  <2> DEFINE M == Mine(k)
  <2>1. R \cap M = {}
    OBVIOUS
  <2>2. IsFiniteSet(M) /\ Cardinality(M) = k /\ k \in Nat
    <3>1. k \in Nat
      OBVIOUS
    <3> QED
      BY <3>1, OwnTokens
  <2> HIDE DEF R, M
  <2>3. Cardinality(R \cup M) = Cardinality(R) + Cardinality(M) - Cardinality(R \cap M)
    BY <1>4, <2>2, FS_Union
  <2>4. Cardinality(R \cap M) = 0
    BY <2>1, FS_EmptySet
  <2>5. Cardinality(R \cup M) = Cardinality(R) + k
    BY <1>4, <2>2, <2>3, <2>4
  <2> QED
    BY <2>5 DEF M
<1>6. /\ Cardinality(Tokens(f, D, N)) = Cardinality(R) + f[d]
      /\ Cardinality(Tokens(g, D, N)) = Cardinality(R) + m
  <2> HIDE DEF R, Mine
  <2> QED
    BY <1>1, <1>2, <1>3, <1>5
<1> HIDE DEF R
<1> QED
  BY <1>1, <1>4, <1>6
-----------------------------------------------------------------------------
(* The inductive invariant.                                                *)

Phases == {"begin", "read", "line", "put", "drain", "stop", "wait",
           "cleanup", "join", "over", "left"}
Results == {"none", "file", "sent", "failed", "cancelled"}
WorkerStates == Busy \cup Gone \cup {"get", "stopping"}

Shapes ==
    /\ phase \in [Uploads -> Phases] /\ result \in [Uploads -> Results]
    /\ next \in [Uploads -> 1 .. Parts + 1]
    /\ nones \in [Uploads -> Nat]
    /\ queue \in [Uploads -> Seq(0 .. Parts)]
    /\ \A u \in Uploads : Len(queue[u]) <= QueueSize
    /\ worker \in [Uploads -> [Workers -> WorkerStates]]
    /\ part \in [Uploads -> [Workers -> 0 .. Parts]]
    /\ attempt \in [Uploads -> [Workers -> 1 .. Retries]]
    /\ session \in [Uploads -> [Workers -> Sessions]]
    /\ acked \in [Uploads -> Nat]
    /\ accepted \in [Uploads -> SUBSET (1 .. Parts)]
    /\ up \in [Sessions -> BOOLEAN]

Flags == growth \in [Uploads -> BOOLEAN] /\ errors \in [Uploads -> BOOLEAN]

SlotsOK ==
    /\ free \in Nat /\ lent \in Nat /\ held \in [Uploads -> 0 .. Slots]
    /\ free + lent + Cardinality(Holdings) = Slots

\* Who waits for a slot is at the place where one waits, and waits once.
LineOK ==
    /\ line \in Seq(Uploads)
    /\ \A i \in DOMAIN line : phase[line[i]] = "line"
    /\ \A i, j \in DOMAIN line : line[i] = line[j] => i = j

\* The producer of an upload.
ProducerOK(u) ==
    /\ phase[u] \in {"line", "put"} => next[u] <= Parts
    /\ phase[u] = "drain" => next[u] = Parts + 1
    /\ u \in Missing => next[u] = 1

\* Its workers: the first one of a session is there when another is.  Before the
\* call, and from the end of its cleanup on, none has a part or takes one.
WorkersOK(u) ==
    /\ \A w \in Workers : worker[u][w] # "none" => worker[u][<<w[1], 1>>] # "none"
    /\ phase[u] \in {"begin", "join", "over"} =>
          ~growth[u] /\ \A w \in Workers : worker[u][w] \in Gone \cup {"stopping"}

\* The parts that the producer has handed over; those that are in the queue q or
\* with the workers W, whose data is p; and those that are neither any more.
Handed(u) == IF u \notin Missing THEN 1 .. next[u] - 1
             ELSE IF phase[u] \in {"begin", "read", "line", "put"} THEN {} ELSE {1}
Waiting(q) == {q[i] : i \in DOMAIN q} \ {None}
OnWay(q, W, p) == Waiting(q) \cup {p[w] : w \in W}
Working(u) == {w \in Workers : worker[u][w] \in Busy}
Settled(u) == Handed(u) \ OnWay(queue[u], Working(u), part[u])

\* No part is twice on its way.
Distinct(q, W, p) ==
    /\ \A i, j \in DOMAIN q : q[i] = q[j] => i = j \/ q[i] = None
    /\ \A v, w \in W : p[v] = p[w] => v = w
    /\ \A w \in W : p[w] \notin Waiting(q)

PartsOK(u) ==
    /\ OnWay(queue[u], Working(u), part[u]) \subseteq Handed(u)
    /\ Distinct(queue[u], Working(u), part[u])
    /\ acked[u] <= Parts
    /\ phase[u] # "over" => acked[u] <= Cardinality(Settled(u))
    /\ u \notin Missing /\ ~errors[u] =>
          /\ phase[u] \in {"begin", "read", "line", "put", "drain"} => Settled(u) \subseteq accepted[u]
          /\ phase[u] \in {"stop", "wait"} => accepted[u] = 1 .. Parts
    /\ result[u] = "file" => accepted[u] = 1 .. Parts

IInv == 
    /\ Shapes /\ Flags /\ SlotsOK /\ LineOK
    /\ \A u \in Uploads : ProducerOK(u) /\ WorkersOK(u) /\ PartsOK(u)

-----------------------------------------------------------------------------
(* Slots.                                                                  *)

LEMMA HoldingsAreTokens == Holdings = Tokens(held, Uploads, Slots)
BY DEF Holdings, Tokens

LEMMA SlotsCounted ==
    ASSUME SlotsOK
    PROVE  \A u \in Uploads : held[u] + free + lent <= Slots
<1>1. ASSUME NEW u \in Uploads PROVE held[u] <= Cardinality(Holdings)
  BY HoldingsAreTokens, TokensBound, UploadParameters DEF SlotsOK
<1>2. Cardinality(Holdings) \in Nat
  BY HoldingsAreTokens, TokensFinite, UploadParameters
<1> QED
  BY <1>1, <1>2, UploadParameters DEF SlotsOK

LEMMA HoldingsChange ==
    ASSUME held \in [Uploads -> 0 .. Slots], held' \in [Uploads -> 0 .. Slots],
           NEW u \in Uploads, NEW m \in 0 .. Slots,
           held'[u] = m, \A v \in Uploads : v # u => held'[v] = held[v]
    PROVE  /\ Cardinality(Holdings') = Cardinality(Holdings) - held[u] + m
           /\ Cardinality(Holdings) \in Nat
<1>1. Slots \in Nat /\ IsFiniteSet(Uploads)
  BY UploadParameters
<1>2. Cardinality(Tokens(held', Uploads, Slots))
         = Cardinality(Tokens(held, Uploads, Slots)) - held[u] + m
  BY <1>1, TokensChange
<1>3. Holdings' = Tokens(held', Uploads, Slots)
  BY DEF Holdings, Tokens
<1> QED
  BY <1>1, <1>2, <1>3, HoldingsAreTokens, TokensFinite

\* Somebody has m slots instead of those it had.
LEMMA SlotsMove ==
    ASSUME SlotsOK, NEW u \in Uploads, NEW m \in 0 .. Slots,
           held' = [held EXCEPT ![u] = m], lent' = lent,
           free' \in Nat, free' = free + held[u] - m
    PROVE  SlotsOK'
<1>1. /\ Cardinality(Holdings') = Cardinality(Holdings) - held[u] + m
      /\ Cardinality(Holdings) \in Nat
  <2>1. /\ held \in [Uploads -> 0 .. Slots]
        /\ held' \in [Uploads -> 0 .. Slots] /\ held'[u] = m
        /\ \A v \in Uploads : v # u => held'[v] = held[v]
    BY DEF SlotsOK
  <2> QED
    BY <2>1, HoldingsChange
<1>2. held' \in [Uploads -> 0 .. Slots] /\ held[u] \in 0 .. Slots
  BY DEF SlotsOK
<1> QED
  BY <1>1, <1>2, UploadParameters DEF SlotsOK

LEMMA AcquireKeepsSlots ==
    ASSUME SlotsOK, NEW u \in Uploads, free > 0,
           free' = free - 1, held' = [held EXCEPT ![u] = held[u] + 1], lent' = lent
    PROVE  SlotsOK'
<1>1. free \in Nat /\ lent \in Nat /\ held[u] \in Nat /\ Slots \in Nat
  BY UploadParameters DEF SlotsOK
<1>2. held[u] + 1 \in 0 .. Slots
  BY <1>1, SlotsCounted
<1>3. free' \in Nat /\ free' = free + held[u] - (held[u] + 1)
  BY <1>1
<1> QED
  BY <1>2, <1>3, SlotsMove

LEMMA ReleaseKeepsSlots ==
    ASSUME SlotsOK, NEW u \in Uploads, NEW n \in Nat, Release(u, n)
    PROVE  SlotsOK'
<1> DEFINE back == IF n < held[u] THEN n ELSE held[u]
<1>1. free \in Nat /\ held[u] \in 0 .. Slots /\ Slots \in Nat
  BY UploadParameters DEF SlotsOK
<1>2. back \in 0 .. held[u]
  BY <1>1
<1>3. free' = free + back /\ lent' = lent /\ held' = [held EXCEPT ![u] = held[u] - back]
  BY DEF Release
<1> HIDE DEF back
<1>4. /\ held[u] - back \in 0 .. Slots
      /\ free' \in Nat /\ free' = free + held[u] - (held[u] - back)
  BY <1>1, <1>2, <1>3
<1> QED
  BY <1>3, <1>4, SlotsMove

LEMMA WorkersFinite ==
    /\ IsFiniteSet(Workers)
    /\ \A W \in SUBSET Workers : Cardinality(W) \in Nat
<1>1. 1 \in Int /\ NSessions \in Int /\ PerSession \in Int
  BY UploadParameters
<1>2. IsFiniteSet(1 .. NSessions) /\ IsFiniteSet(1 .. PerSession)
  BY <1>1, FS_Interval
<1>3. IsFiniteSet(Workers)
  BY <1>2, FS_Product DEF Workers, Sessions
<1> QED
  BY <1>3, FS_Subset, FS_CardinalityType

\* Every step takes one slot for an upload, gives some back, or moves none.
SlotStep ==
    \/ UNCHANGED <<free, lent, held>>
    \/ \E u \in Uploads :
          /\ free > 0 /\ free' = free - 1
          /\ held' = [held EXCEPT ![u] = held[u] + 1] /\ lent' = lent
    \/ \E u \in Uploads, n \in Nat : Release(u, n)

LEMMA SlotSteps ==
    ASSUME IInv, [Next]_vars
    PROVE  SlotStep
<1>1. CASE UNCHANGED vars
  BY <1>1 DEF SlotStep, vars, semaphore
<1>2. CASE Grant
  <2>1. Head(line) \in Uploads
    BY <1>2 DEF SlotStep, Grant, IInv, LineOK
  <2> QED
    BY <1>2, <2>1 DEF SlotStep, Grant
<1>3. ASSUME NEW u \in Uploads, Read(u) \/ Put(u) PROVE SlotStep
  BY <1>3 DEF SlotStep, Read, Put, AcquirePart, semaphore
<1>4. ASSUME NEW u \in Uploads, Cleanup(u) PROVE SlotStep
  <2>1. held[u] \in Nat
    BY DEF IInv, SlotsOK
  <2> QED
    BY <1>4, <2>1 DEF SlotStep, Cleanup
<1>5. ASSUME NEW u \in Uploads,
             \/ Begin(u) \/ Drained(u) \/ PutsNone(u) \/ AllPut(u) \/ NoneTimesOut(u)
             \/ WorkersStopped(u) \/ CleansUp(u) \/ CancelCleanup(u)
             \/ PutTimesOut(u) \/ DrainStalls(u) \/ Cancel(u) \/ Grows(u)
      PROVE  SlotStep
  BY <1>5 DEF SlotStep, Begin, Drained, PutsNone, AllPut, NoneTimesOut, WorkersStopped, CleansUp,
              CancelCleanup, PutTimesOut, DrainStalls, Cancel, Grows, semaphore
<1>6. ASSUME NEW u \in Uploads, NEW w \in Workers,
             Work(u, w) \/ TransportFails(u, w) \/ Refused(u, w)
      PROVE  SlotStep
  BY <1>6 DEF SlotStep, Work, Get, Acked, Restarted, SendsAgain, Stops, TransportFails, Refused, GivesUp,
              FailsOver, semaphore
<1>7. ASSUME NEW s \in Sessions, LinkLost(s) \/ Reconnected(s) PROVE SlotStep
  BY <1>7 DEF SlotStep, LinkLost, Reconnected, semaphore
<1>8. ASSUME NEW u \in Uploads,
             \/ Produce(u) \/ PutTimesOut(u) \/ DrainStalls(u) \/ Cancel(u)
             \/ CancelCleanup(u) \/ Grows(u)
             \/ \E w \in Workers : Work(u, w) \/ TransportFails(u, w) \/ Refused(u, w)
      PROVE  SlotStep
  BY <1>3, <1>4, <1>5, <1>6, <1>8 DEF Produce
<1> QED
  BY <1>1, <1>2, <1>7, <1>8 DEF Next

LEMMA SlotsKept ==
    ASSUME IInv, [Next]_vars
    PROVE  SlotsOK'
<1>1. CASE UNCHANGED <<free, lent, held>>
  BY <1>1 DEF IInv, SlotsOK, Holdings
<1>2. ASSUME NEW u \in Uploads, free > 0, free' = free - 1,
             held' = [held EXCEPT ![u] = held[u] + 1], lent' = lent
      PROVE  SlotsOK'
  BY <1>2, AcquireKeepsSlots DEF IInv
<1>3. ASSUME NEW u \in Uploads, NEW n \in Nat, Release(u, n)
      PROVE  SlotsOK'
  BY <1>3, ReleaseKeepsSlots DEF IInv
<1> QED
  BY <1>1, <1>2, <1>3, SlotSteps DEF SlotStep

-----------------------------------------------------------------------------
(* Who waits for a slot.                                                   *)

\* Every step lets an upload join the line, serves the first, takes one out that
\* is cancelled, or leaves the line and those in it alone.
LineStep ==
    \/ line' = line /\ \A u \in Uploads : phase[u] = "line" => phase'[u] = "line"
    \/ \E u \in Uploads :
          /\ phase[u] # "line" /\ phase' = [phase EXCEPT ![u] = "line"]
          /\ line' = Append(line, u)
    \/ /\ line # <<>> /\ line' = Tail(line)
       /\ phase' = [phase EXCEPT ![Head(line)] = "put"]
    \/ \E u \in Uploads :
          /\ LeavesLine(u)
          /\ phase' = [phase EXCEPT ![u] = "cleanup"]

LEMMA LineSteps ==
    ASSUME IInv, [Next]_vars
    PROVE  LineStep
<1>0. phase \in [Uploads -> Phases]
  BY DEF IInv, Shapes
<1>1. CASE UNCHANGED vars
  BY <1>1 DEF LineStep, vars, semaphore, producer
<1>2. CASE Grant
  BY <1>2 DEF LineStep, Grant, Goto
<1>3. ASSUME NEW u \in Uploads, Read(u) \/ Put(u) PROVE LineStep
  BY <1>0, <1>3 DEF LineStep, Read, Put, AcquirePart, StopsWorkers, Raises, Goto, semaphore
<1>4. ASSUME NEW u \in Uploads, Cancel(u) PROVE LineStep
  BY <1>4 DEF LineStep, Cancel, Goto
<1>5. ASSUME NEW u \in Uploads,
             \/ Begin(u) \/ Drained(u) \/ PutsNone(u) \/ AllPut(u) \/ WorkersStopped(u)
             \/ NoneTimesOut(u) \/ CleansUp(u) \/ Cleanup(u) \/ CancelCleanup(u)
             \/ PutTimesOut(u) \/ DrainStalls(u) \/ Grows(u)
      PROVE  LineStep
  BY <1>0, <1>5 DEF LineStep, Begin, Drained, PutsNone, AllPut, WorkersStopped, NoneTimesOut,
              CleansUp, Cleanup, CancelCleanup, PutTimesOut, DrainStalls, Grows, Raises, StopsWorkers, Goto,
              semaphore, producer
<1>6. ASSUME NEW u \in Uploads, NEW w \in Workers,
             Work(u, w) \/ TransportFails(u, w) \/ Refused(u, w)
      PROVE  LineStep
  BY <1>6 DEF LineStep, Work, Get, Acked, Restarted, SendsAgain, Stops, TransportFails, Refused,
              semaphore, producer
<1>7. ASSUME NEW s \in Sessions, LinkLost(s) \/ Reconnected(s) PROVE LineStep
  BY <1>7 DEF LineStep, LinkLost, Reconnected, semaphore, producer
<1>8. ASSUME NEW u \in Uploads,
             \/ Produce(u) \/ PutTimesOut(u) \/ DrainStalls(u) \/ Cancel(u)
             \/ CancelCleanup(u) \/ Grows(u)
             \/ \E w \in Workers : Work(u, w) \/ TransportFails(u, w) \/ Refused(u, w)
      PROVE  LineStep
  BY <1>3, <1>4, <1>5, <1>6, <1>8 DEF Produce
<1> QED
  BY <1>1, <1>2, <1>7, <1>8 DEF Next

LEMMA AppendOnce ==
    ASSUME NEW S, NEW s \in Seq(S), NEW e \in S, \A i \in DOMAIN s : s[i] # e,
           \A i, j \in DOMAIN s : s[i] = s[j] => i = j
    PROVE  /\ Append(s, e) \in Seq(S)
           /\ \A i \in DOMAIN Append(s, e) :
                 Append(s, e)[i] = e \/ \E j \in DOMAIN s : Append(s, e)[i] = s[j]
           /\ \A i, j \in DOMAIN Append(s, e) : Append(s, e)[i] = Append(s, e)[j] => i = j
<1>1. /\ Append(s, e) \in Seq(S) /\ Len(Append(s, e)) = Len(s) + 1
      /\ \A i \in 1 .. Len(s) : Append(s, e)[i] = s[i]
      /\ Append(s, e)[Len(s) + 1] = e
  BY AppendProperties
<1>2. DOMAIN s = 1 .. Len(s) /\ DOMAIN Append(s, e) = 1 .. Len(s) + 1 /\ Len(s) \in Nat
  BY <1>1, LenProperties
<1> QED
  BY <1>1, <1>2

LEMMA TailOnce ==
    ASSUME NEW S, NEW s \in Seq(S), s # <<>>,
           \A i, j \in DOMAIN s : s[i] = s[j] => i = j
    PROVE  /\ Tail(s) \in Seq(S) /\ Head(s) \in S /\ Head(s) = s[1] /\ 1 \in DOMAIN s
           /\ \A i \in DOMAIN Tail(s) :
                 Tail(s)[i] # Head(s) /\ \E j \in DOMAIN s : Tail(s)[i] = s[j]
           /\ \A i, j \in DOMAIN Tail(s) : Tail(s)[i] = Tail(s)[j] => i = j
<1>1. /\ Head(s) \in S /\ Head(s) = s[1]
      /\ Tail(s) \in Seq(S) /\ Len(Tail(s)) = Len(s) - 1
      /\ \A i \in 1 .. Len(Tail(s)) : Tail(s)[i] = s[i + 1]
  BY HeadTailProperties
<1>2. DOMAIN s = 1 .. Len(s) /\ DOMAIN Tail(s) = 1 .. Len(s) - 1 /\ Len(s) \in Nat \ {0}
  BY <1>1, LenProperties, EmptySeq
<1> QED
  BY <1>1, <1>2

LEMMA LineKept ==
    ASSUME IInv, [Next]_vars, phase' \in [Uploads -> Phases]
    PROVE  LineOK'
<1> USE DEF IInv, LineOK
<1>0. /\ line \in Seq(Uploads)
      /\ \A i \in DOMAIN line : phase[line[i]] = "line" /\ line[i] \in Uploads
      /\ \A i, j \in DOMAIN line : line[i] = line[j] => i = j
  BY ElementOfSeq, LenProperties
<1>1. CASE line' = line /\ \A u \in Uploads : phase[u] = "line" => phase'[u] = "line"
  BY <1>0, <1>1
<1>2. ASSUME NEW u \in Uploads, phase[u] # "line", phase' = [phase EXCEPT ![u] = "line"],
             line' = Append(line, u)
      PROVE  LineOK'
  <2>1. \A i \in DOMAIN line : line[i] # u
    BY <1>0, <1>2
  <2>2. /\ Append(line, u) \in Seq(Uploads)
        /\ \A i \in DOMAIN Append(line, u) :
              Append(line, u)[i] = u \/ \E j \in DOMAIN line : Append(line, u)[i] = line[j]
        /\ \A i, j \in DOMAIN Append(line, u) :
              Append(line, u)[i] = Append(line, u)[j] => i = j
    BY <1>0, <2>1, AppendOnce
  <2>3. \A v \in Uploads : v = u \/ phase[v] = "line" => phase'[v] = "line"
    BY <1>2 DEF Shapes
  <2> QED
    BY <1>0, <1>2, <2>2, <2>3
<1>3. CASE /\ line # <<>> /\ line' = Tail(line)
           /\ phase' = [phase EXCEPT ![Head(line)] = "put"]
  <2>1. /\ Tail(line) \in Seq(Uploads)
        /\ \A i \in DOMAIN Tail(line) :
              Tail(line)[i] # Head(line) /\ \E j \in DOMAIN line : Tail(line)[i] = line[j]
        /\ \A i, j \in DOMAIN Tail(line) : Tail(line)[i] = Tail(line)[j] => i = j
    BY <1>0, <1>3, TailOnce
  <2>2. \A v \in Uploads : v # Head(line) => phase'[v] = phase[v]
    BY <1>3 DEF Shapes
  <2> QED
    BY <1>0, <1>3, <2>1, <2>2
<1>4. ASSUME NEW u \in Uploads, LeavesLine(u),
             phase' = [phase EXCEPT ![u] = "cleanup"]
      PROVE  LineOK'
  <2>1. \A v \in Uploads : v # u => phase'[v] = phase[v]
    BY <1>4 DEF Shapes
  <2>2. CASE u \notin ToSet(line) /\ UNCHANGED line
    BY <1>0, <2>1, <2>2 DEF ToSet
  <2>3. ASSUME NEW k \in DOMAIN line, line[k] = u, line' = RemoveAt(line, k)
        PROVE  LineOK'
    <3>1. k \in 1 .. Len(line)
      BY <1>0, LenProperties
    <3>2. /\ RemoveAt(line, k) \in Seq(Uploads)
          /\ \A i \in DOMAIN RemoveAt(line, k) :
                /\ RemoveAt(line, k)[i] # line[k]
                /\ \E j \in DOMAIN line : RemoveAt(line, k)[i] = line[j]
          /\ \A i, j \in DOMAIN RemoveAt(line, k) :
                RemoveAt(line, k)[i] = RemoveAt(line, k)[j] => i = j
      BY <1>0, <3>1, RemoveAtIs, RemoveAtOnce
    <3> QED
      BY <1>0, <2>1, <2>3, <3>2
  <2> QED
    BY <1>4, <2>2, <2>3 DEF LeavesLine
<1> QED
  BY <1>1, <1>2, <1>3, <1>4, LineSteps DEF LineStep

-----------------------------------------------------------------------------
(* Shapes.                                                                 *)

LEMMA Numbers ==
    /\ Parts \in Nat \ {0} /\ Retries \in Nat \ {0} /\ Slots \in Nat
    /\ NSessions \in Nat \ {0} /\ PerSession \in Nat \ {0} /\ QueueSize \in Nat
    /\ None \in 0 .. Parts /\ 1 \in 1 .. Retries
    /\ 1 \in Sessions /\ \A w \in Workers : w[1] \in Sessions /\ <<w[1], 1>> \in Workers
<1>1. /\ Parts \in Nat \ {0} /\ Retries \in Nat \ {0} /\ Slots \in Nat
      /\ NSessions \in Nat \ {0} /\ PerSession \in Nat \ {0}
  BY UploadParameters
<1> QED
  BY <1>1 DEF None, QueueSize, Sessions, Workers

\* A part that a worker has is one of the file.
LEMMA WorkersPart ==
    ASSUME IInv, NEW u \in Uploads, NEW w \in Workers, worker[u][w] \in Busy
    PROVE  part[u][w] \in Handed(u) /\ Handed(u) \subseteq 1 .. Parts
<1>1. part[u][w] \in OnWay(queue[u], Working(u), part[u])
  BY DEF OnWay, Working
<1>2. OnWay(queue[u], Working(u), part[u]) \subseteq Handed(u)
  BY DEF IInv, PartsOK
<1>3. next[u] \in 1 .. Parts + 1
  BY DEF IInv, Shapes
<1>4. Handed(u) \subseteq 1 .. Parts
  BY <1>3, Numbers DEF Handed
<1> QED
  BY <1>1, <1>2, <1>4

\* What a cancellation of all workers leaves of an upload.
LEMMA CancelledFacts ==
    ASSUME Shapes, NEW u \in Uploads, CancelsWorkers(u)
    PROVE  /\ \A v \in Uploads : v # u => UNCHANGED <<worker[v], part[v]>>
           /\ \A w \in Workers : worker'[u][w] = IF worker[u][w] \in Busy THEN "stopping"
                                                 ELSE IF worker[u][w] = "get" THEN "cancelled"
                                                 ELSE worker[u][w]
           /\ Working(u)' = {}
           /\ worker' \in [Uploads -> [Workers -> WorkerStates]]
           /\ part' \in [Uploads -> [Workers -> 0 .. Parts]]
           /\ attempt' \in [Uploads -> [Workers -> 1 .. Retries]]
           /\ session' \in [Uploads -> [Workers -> Sessions]]
<1> DEFINE Ends(x) == IF x \in Busy THEN "stopping" ELSE IF x = "get" THEN "cancelled" ELSE x
<1>1. /\ worker' = [worker EXCEPT ![u] = [w \in Workers |-> Ends(worker[u][w])]]
      /\ part' = [part EXCEPT ![u] = [w \in Workers |-> None]]
      /\ attempt' = [attempt EXCEPT ![u] = [w \in Workers |-> 1]]
      /\ session' = [session EXCEPT ![u] = [w \in Workers |-> w[1]]]
  BY DEF CancelsWorkers
<1>2. \A x \in WorkerStates : Ends(x) \in WorkerStates \ Busy
  BY DEF WorkerStates, Gone, Busy
<1>3. \A w \in Workers : worker[u][w] \in WorkerStates
  BY DEF Shapes
<1> HIDE DEF Ends
<1>4. /\ \A v \in Uploads : v # u => UNCHANGED <<worker[v], part[v]>>
      /\ \A w \in Workers : worker'[u][w] = Ends(worker[u][w])
  BY <1>1 DEF Shapes
<1>5. Working(u)' = {}
  BY <1>2, <1>3, <1>4 DEF Working
<1>6. [w \in Workers |-> Ends(worker[u][w])] \in [Workers -> WorkerStates]
  BY <1>2, <1>3
<1>7. worker' \in [Uploads -> [Workers -> WorkerStates]]
  BY <1>1, <1>6 DEF Shapes
<1>8. /\ part' \in [Uploads -> [Workers -> 0 .. Parts]]
      /\ attempt' \in [Uploads -> [Workers -> 1 .. Retries]]
      /\ session' \in [Uploads -> [Workers -> Sessions]]
  <2>1. /\ [w \in Workers |-> None] \in [Workers -> 0 .. Parts]
        /\ [w \in Workers |-> 1] \in [Workers -> 1 .. Retries]
        /\ [w \in Workers |-> w[1]] \in [Workers -> Sessions]
    BY Numbers
  <2> QED
    BY <1>1, <2>1 DEF Shapes
<1> QED
  BY <1>4, <1>5, <1>7, <1>8 DEF Ends

LEMMA ActiveCounted == ASSUME NEW u PROVE Cardinality(Active(u)) \in Nat
BY WorkersFinite DEF Active

LEMMA ProducerShapes ==
    ASSUME IInv, NEW u \in Uploads,
           \/ Begin(u) \/ Read(u) \/ Drained(u) \/ AllPut(u) \/ PutTimesOut(u)
           \/ DrainStalls(u) \/ Cancel(u) \/ CancelCleanup(u) \/ Grows(u)
    PROVE  Shapes'
<1> USE DEF IInv, Shapes
<1>1. UNCHANGED <<next, queue, part, attempt, session, acked, accepted, up>>
  BY DEF Begin, Read, Drained, AllPut, PutTimesOut, DrainStalls, Cancel,
         CancelCleanup, Grows, producer, working, outcome
<1>2. \/ phase' = phase
      \/ \E p \in Phases : phase' = [phase EXCEPT ![u] = p]
  BY DEF Begin, Read, Drained, AllPut, PutTimesOut, DrainStalls, Cancel,
         CancelCleanup, Grows, producer, AcquirePart, Raises, StopsWorkers, Goto, Phases
<1>3. \/ result' = result
      \/ \E r \in Results : result' = [result EXCEPT ![u] = r]
  BY DEF Begin, Read, Drained, AllPut, PutTimesOut, DrainStalls, Cancel,
         CancelCleanup, Grows, producer, Raises, Results
<1>4. \/ nones' = nones
      \/ \E n \in Nat : nones' = [nones EXCEPT ![u] = n]
  BY ActiveCounted
     DEF Begin, Read, Drained, AllPut, PutTimesOut, DrainStalls, Cancel,
         CancelCleanup, Grows, producer, StopsWorkers
<1>5. worker' \in [Uploads -> [Workers -> WorkerStates]]
  <2>1. CASE Begin(u)
    <3>1. [w \in Workers |-> IF w[1] = 1 THEN "get" ELSE "none"] \in [Workers -> WorkerStates]
      BY DEF WorkerStates, Gone
    <3> QED
      BY <2>1, <3>1 DEF Begin
  <2>2. CASE Grows(u)
    <3>1. PICK s \in Sessions : worker' = [worker EXCEPT ![u] = [w \in Workers |->
                                              IF w[1] = s THEN "get" ELSE worker[u][w]]]
      BY <2>2 DEF Grows
    <3>2. [w \in Workers |-> IF w[1] = s THEN "get" ELSE worker[u][w]] \in [Workers -> WorkerStates]
      BY DEF WorkerStates
    <3> QED
      BY <3>1, <3>2
  <2>3. CASE \/ Read(u) \/ Drained(u) \/ AllPut(u) \/ PutTimesOut(u) \/ DrainStalls(u)
             \/ Cancel(u) \/ CancelCleanup(u)
    BY <2>3 DEF Read, Drained, AllPut, PutTimesOut, DrainStalls, Cancel, CancelCleanup, working
  <2> QED
    BY <2>1, <2>2, <2>3
<1>6. phase' \in [Uploads -> Phases]
  BY <1>2
<1>7. result' \in [Uploads -> Results]
  BY <1>3
<1>8. nones' \in [Uploads -> Nat]
  BY <1>4
<1> QED
  BY <1>1, <1>5, <1>6, <1>7, <1>8

\* The steps that cancel the workers, or wait until they have ended.
LEMMA CancelShapes ==
    ASSUME IInv, NEW u \in Uploads, NoneTimesOut(u) \/ WorkersStopped(u) \/ CleansUp(u)
    PROVE  Shapes'
<1> USE DEF IInv
<1>1. /\ UNCHANGED <<next, nones, queue, acked, accepted, up>>
      /\ UNCHANGED <<worker, part, attempt, session>> \/ CancelsWorkers(u)
      /\ \E p \in Phases : phase' = [phase EXCEPT ![u] = p]
      /\ result' = result \/ \E r \in Results : result' = [result EXCEPT ![u] = r]
  BY DEF NoneTimesOut, WorkersStopped, CleansUp, Goto, working, outcome, Phases, Results
<1>2. /\ worker' \in [Uploads -> [Workers -> WorkerStates]]
      /\ part' \in [Uploads -> [Workers -> 0 .. Parts]]
      /\ attempt' \in [Uploads -> [Workers -> 1 .. Retries]]
      /\ session' \in [Uploads -> [Workers -> Sessions]]
  BY <1>1, CancelledFacts DEF Shapes
<1>3. phase' \in [Uploads -> Phases]
  BY <1>1 DEF Shapes
<1>4. result' \in [Uploads -> Results]
  BY <1>1 DEF Shapes
<1> QED
  BY <1>1, <1>2, <1>3, <1>4 DEF Shapes

LEMMA GrantShapes ==
    ASSUME IInv, Grant
    PROVE  Shapes'
<1>1. Head(line) \in Uploads
  BY DEF Grant, IInv, LineOK
<1>2. /\ UNCHANGED <<result, next, nones, queue, worker, part, attempt, session, acked,
                     accepted, up>>
      /\ phase' = [phase EXCEPT ![Head(line)] = "put"]
  BY DEF Grant, Goto, working, outcome
<1> QED
  BY <1>1, <1>2 DEF IInv, Shapes, Phases

\* A step that puts x into the queue of u.
LEMMA QueueShapes ==
    ASSUME Shapes, NEW u \in Uploads, NEW x \in 0 .. Parts, Len(queue[u]) < QueueSize,
           queue' = [queue EXCEPT ![u] = Append(queue[u], x)]
    PROVE  queue' \in [Uploads -> Seq(0 .. Parts)] /\ \A v \in Uploads : Len(queue'[v]) <= QueueSize
<1>1. queue[u] \in Seq(0 .. Parts)
  BY DEF Shapes
<1>2. /\ Append(queue[u], x) \in Seq(0 .. Parts)
      /\ Len(Append(queue[u], x)) = Len(queue[u]) + 1 /\ Len(queue[u]) \in Nat
  BY <1>1, AppendProperties, LenProperties
<1>3. queue' \in [Uploads -> Seq(0 .. Parts)]
  BY <1>2 DEF Shapes
<1>4. queue'[u] = Append(queue[u], x) /\ \A v \in Uploads : v # u => queue'[v] = queue[v]
  BY DEF Shapes
<1>5. Len(queue'[u]) <= QueueSize
  BY <1>2, <1>4, Numbers
<1>6. \A v \in Uploads : Len(queue[v]) <= QueueSize
  BY DEF Shapes
<1> QED
  BY <1>3, <1>4, <1>5, <1>6

LEMMA PutShapes ==
    ASSUME IInv, NEW u \in Uploads, Put(u) \/ PutsNone(u)
    PROVE  Shapes'
<1> USE DEF IInv
<1>1. UNCHANGED <<result, worker, part, attempt, session, acked, accepted, up>>
  BY DEF Put, PutsNone, working, outcome
<1>2. CASE Put(u)
  <2>0. /\ phase[u] = "put" /\ Len(queue[u]) < QueueSize
        /\ queue' = [queue EXCEPT ![u] = Append(queue[u], next[u])]
        /\ next' = next \/ next' = [next EXCEPT ![u] = next[u] + 1]
        /\ nones' = nones \/ nones' = [nones EXCEPT ![u] = Cardinality(Active(u))]
        /\ \E p \in Phases : phase' = [phase EXCEPT ![u] = p]
    BY <1>2 DEF Put, StopsWorkers, AcquirePart, Goto, Phases
  <2>1. next[u] \in 1 .. Parts
    BY <2>0, Numbers DEF ProducerOK, Shapes
  <2>2. /\ queue' \in [Uploads -> Seq(0 .. Parts)]
        /\ \A v \in Uploads : Len(queue'[v]) <= QueueSize
    <3>1. next[u] \in 0 .. Parts
      BY <2>1, Numbers
    <3> QED
      BY <2>0, <3>1, QueueShapes
  <2>3. next' \in [Uploads -> 1 .. Parts + 1]
    <3>1. next[u] + 1 \in 1 .. Parts + 1
      BY <2>1, Numbers
    <3> QED
      BY <2>0, <3>1 DEF Shapes
  <2>4. nones' \in [Uploads -> Nat]
    <3>1. Cardinality(Active(u)) \in Nat /\ nones \in [Uploads -> Nat]
      BY ActiveCounted DEF Shapes
    <3> QED
      BY <2>0, <3>1
  <2>5. phase' \in [Uploads -> Phases]
    BY <2>0 DEF Shapes
  <2> QED
    BY <1>1, <2>2, <2>3, <2>4, <2>5 DEF Shapes
<1>3. CASE PutsNone(u)
  <2>2. /\ queue' \in [Uploads -> Seq(0 .. Parts)]
        /\ \A v \in Uploads : Len(queue'[v]) <= QueueSize
    BY <1>3, Numbers, QueueShapes DEF PutsNone
  <2>3. nones' \in [Uploads -> Nat] /\ UNCHANGED <<next, phase>>
    BY <1>3 DEF PutsNone, Shapes
  <2> QED
    BY <1>1, <2>2, <2>3 DEF Shapes
<1> QED
  BY <1>2, <1>3

LEMMA CleanupShapes ==
    ASSUME IInv, NEW u \in Uploads, Cleanup(u)
    PROVE  Shapes'
<1> USE DEF IInv, Shapes
<1>1. /\ UNCHANGED <<result, worker, part, attempt, session, acked, accepted, up>>
      /\ phase' = [phase EXCEPT ![u] = "over"]
      /\ next' = [next EXCEPT ![u] = 1] /\ nones' = [nones EXCEPT ![u] = 0]
      /\ queue' = [queue EXCEPT ![u] = <<>>]
  BY DEF Cleanup, Vanish, Goto, working, outcome
<1>2. /\ phase' \in [Uploads -> Phases] /\ next' \in [Uploads -> 1 .. Parts + 1]
      /\ nones' \in [Uploads -> Nat]
  BY <1>1, Numbers DEF Phases
<1>3. queue' \in [Uploads -> Seq(0 .. Parts)] /\ \A v \in Uploads : Len(queue'[v]) <= QueueSize
  BY <1>1, Numbers, EmptySeq
<1> QED
  BY <1>1, <1>2, <1>3

\* A step of worker w that changes its own place.
WorkerGoes(u, w, x) == worker' = [worker EXCEPT ![u][w] = x]

LEMMA WorkerShape ==
    ASSUME Shapes, NEW u \in Uploads, NEW w \in Workers, NEW x \in WorkerStates, WorkerGoes(u, w, x)
    PROVE  worker' \in [Uploads -> [Workers -> WorkerStates]]
BY DEF Shapes, WorkerGoes

\* _next_upload_session() finds a session of the pool.
LEMMA FailsOverSomewhere ==
    ASSUME IInv, NEW u \in Uploads, NEW w \in Workers, worker[u][w] = "send",
           NEW ready, FailsOver(u, w, ready)
    PROVE  \E to \in Sessions : \E x \in {"pause", "restart"} :
              /\ session' = [session EXCEPT ![u][w] = to]
              /\ WorkerGoes(u, w, x)
<1> DEFINE here == session[u][w]
           pool == {s \in Sessions : worker[u][<<s, 1>>] # "none"}
           ups == {s \in pool : ready[s]}
           choice == IF ups = {} THEN pool ELSE ups
           to == CHOOSE s \in choice : \A r \in choice : Ahead(here, s) <= Ahead(here, r)
<1>1. w[1] \in pool
  BY Numbers DEF IInv, WorkersOK
<1>2. choice \subseteq Sessions /\ choice # {}
  BY <1>1
<1>3. here \in Sessions
  BY DEF IInv, Shapes
<1>4. \A s \in Sessions : Ahead(here, s) \in Nat
  BY <1>3, Numbers DEF Ahead, Sessions
<1> HIDE DEF choice, here
<1>5. to \in choice
  <2> DEFINE T == {Ahead(here, s) : s \in choice}
  <2>1. T \in SUBSET Nat /\ T # {}
    BY <1>2, <1>4
  <2>2. PICK n \in T : \A m \in T : n <= m
    <3> HIDE DEF T
    <3> QED
      BY <2>1, LeastNumber
  <2>3. PICK s \in choice : n = Ahead(here, s)
    BY <2>2
  <2>4. \A r \in choice : Ahead(here, s) <= Ahead(here, r)
    BY <2>2, <2>3
  <2> QED
    BY <2>3, <2>4
<1>6. /\ session' = [session EXCEPT ![u][w] = to]
      /\ worker' = [worker EXCEPT ![u][w] = IF ready[to] THEN "pause" ELSE "restart"]
  BY DEF FailsOver, choice, here
<1> HIDE DEF to
<1> QED
  BY <1>2, <1>5, <1>6 DEF WorkerGoes

\* What an attempt that fails does to the worker.
LEMMA AttemptFails ==
    ASSUME IInv, NEW u \in Uploads, NEW w \in Workers,
           TransportFails(u, w) \/ Refused(u, w)
    PROVE  /\ \E x \in {"pause", "restart", "ended"} : WorkerGoes(u, w, x)
           /\ session' \in [Uploads -> [Workers -> Sessions]]
           /\ attempt' \in [Uploads -> [Workers -> 1 .. Retries]]
           /\ part' \in [Uploads -> [Workers -> 0 .. Parts]]
           /\ worker[u][w] = "send"
<1>1. CASE GivesUp(u, w)
  <2>1. w[1] \in Sessions
    BY Numbers
  <2>2. session' \in [Uploads -> [Workers -> Sessions]]
    BY <1>1, <2>1 DEF GivesUp, IInv, Shapes
  <2>3. attempt' \in [Uploads -> [Workers -> 1 .. Retries]]
    BY <1>1, Numbers DEF GivesUp, Forgets, IInv, Shapes
  <2>4. part' \in [Uploads -> [Workers -> 0 .. Parts]]
    BY <1>1, Numbers DEF GivesUp, Forgets, IInv, Shapes
  <2> QED
    BY <1>1, <2>2, <2>3, <2>4 DEF GivesUp, WorkerGoes, TransportFails, Refused
<1>2. ASSUME NEW ready, FailsOver(u, w, ready), attempt[u][w] # Retries, worker[u][w] = "send"
      PROVE  /\ \E x \in {"pause", "restart", "ended"} : WorkerGoes(u, w, x)
             /\ session' \in [Uploads -> [Workers -> Sessions]]
             /\ attempt' \in [Uploads -> [Workers -> 1 .. Retries]]
             /\ part' \in [Uploads -> [Workers -> 0 .. Parts]]
  <2>1. PICK to \in Sessions : \E x \in {"pause", "restart"} :
           /\ session' = [session EXCEPT ![u][w] = to]
           /\ WorkerGoes(u, w, x)
    BY <1>2, FailsOverSomewhere
  <2>2. session' \in [Uploads -> [Workers -> Sessions]]
    BY <2>1 DEF IInv, Shapes
  <2>3. attempt[u][w] \in 1 .. Retries /\ attempt' = [attempt EXCEPT ![u][w] = attempt[u][w] + 1]
    BY <1>2 DEF FailsOver, IInv, Shapes
  <2>4. attempt[u][w] + 1 \in 1 .. Retries
    BY <1>2, <2>3, Numbers
  <2>5. attempt' \in [Uploads -> [Workers -> 1 .. Retries]]
    BY <2>3, <2>4 DEF IInv, Shapes
  <2>6. part' \in [Uploads -> [Workers -> 0 .. Parts]]
    BY <1>2 DEF FailsOver, IInv, Shapes
  <2> QED
    BY <2>1, <2>2, <2>5, <2>6
<1>3. /\ worker[u][w] = "send"
      /\ \/ GivesUp(u, w)
         \/ attempt[u][w] # Retries /\ \E ready \in {up, up'} : FailsOver(u, w, ready)
  <2>1. attempt[u][w] < Retries => attempt[u][w] # Retries
    BY Numbers DEF IInv, Shapes
  <2> QED
    BY <2>1 DEF TransportFails, Refused
<1> QED
  BY <1>1, <1>2, <1>3

LEMMA FailShapes ==
    ASSUME IInv, NEW u \in Uploads, NEW w \in Workers,
           TransportFails(u, w) \/ Refused(u, w)
    PROVE  Shapes'
<1>1. /\ UNCHANGED <<phase, result, next, nones, queue, acked>>
      /\ worker[u][w] = "send"
  BY DEF TransportFails, Refused, producer
<1>2. worker' \in [Uploads -> [Workers -> WorkerStates]]
  BY AttemptFails, WorkerShape DEF IInv, WorkerStates, Busy, Gone
<1>3. accepted' \in [Uploads -> SUBSET (1 .. Parts)]
  <2>1. part[u][w] \in 1 .. Parts /\ accepted \in [Uploads -> SUBSET (1 .. Parts)]
    BY <1>1, WorkersPart DEF Busy, IInv, Shapes
  <2>2. \/ accepted' = accepted
        \/ \E got \in {{}, {part[u][w]}} : accepted' = [accepted EXCEPT ![u] = accepted[u] \cup got]
    BY DEF TransportFails, Refused
  <2>3. ASSUME NEW got \in {{}, {part[u][w]}},
               accepted' = [accepted EXCEPT ![u] = accepted[u] \cup got]
        PROVE  accepted' \in [Uploads -> SUBSET (1 .. Parts)]
    <3>1. accepted[u] \cup got \in SUBSET (1 .. Parts)
      BY <2>1, <2>3
    <3> QED
      BY <2>1, <2>3, <3>1
  <2> QED
    BY <2>1, <2>2, <2>3
<1>4. up' \in [Sessions -> BOOLEAN]
  <2>1. up' = up \/ up' = Quarantined(u, w)
    BY DEF TransportFails, Refused
  <2>2. up \in [Sessions -> BOOLEAN]
    BY DEF IInv, Shapes
  <2>3. Quarantined(u, w) \in [Sessions -> BOOLEAN]
    BY <2>2 DEF Quarantined
  <2> QED
    BY <2>1, <2>2, <2>3
<1> QED
  BY <1>1, <1>2, <1>3, <1>4, AttemptFails DEF IInv, Shapes

LEMMA GetShapes ==
    ASSUME IInv, NEW u \in Uploads, NEW w \in Workers, Get(u, w)
    PROVE  Shapes'
<1>1. /\ UNCHANGED <<phase, result, next, nones, session, acked, accepted, up>>
      /\ queue[u] # <<>> /\ queue' = [queue EXCEPT ![u] = Tail(queue[u])]
  BY DEF Get, producer, outcome
<1>2. /\ Tail(queue[u]) \in Seq(0 .. Parts) /\ Head(queue[u]) \in 0 .. Parts
      /\ Len(Tail(queue[u])) <= QueueSize
  <2>1. queue[u] \in Seq(0 .. Parts) /\ Len(queue[u]) <= QueueSize
    BY DEF IInv, Shapes
  <2>2. /\ Tail(queue[u]) \in Seq(0 .. Parts) /\ Head(queue[u]) \in 0 .. Parts
        /\ Len(Tail(queue[u])) = Len(queue[u]) - 1 /\ Len(queue[u]) \in Nat
    BY <1>1, <2>1, HeadTailProperties, LenProperties
  <2> QED
    BY <2>1, <2>2, Numbers
<1>3. queue' \in [Uploads -> Seq(0 .. Parts)] /\ \A v \in Uploads : Len(queue'[v]) <= QueueSize
  BY <1>1, <1>2 DEF IInv, Shapes
<1>4. worker' \in [Uploads -> [Workers -> WorkerStates]]
  <2>1. \E x \in WorkerStates : WorkerGoes(u, w, x)
    BY DEF Get, WorkerGoes, WorkerStates, Busy, Gone
  <2> QED
    BY <2>1, WorkerShape DEF IInv
<1>5. part' \in [Uploads -> [Workers -> 0 .. Parts]]
  <2>1. part' = part \/ part' = [part EXCEPT ![u][w] = Head(queue[u])]
    BY DEF Get
  <2>2. part \in [Uploads -> [Workers -> 0 .. Parts]] /\ Head(queue[u]) \in 0 .. Parts
    BY <1>2 DEF IInv, Shapes
  <2>3. [part EXCEPT ![u][w] = Head(queue[u])] \in [Uploads -> [Workers -> 0 .. Parts]]
    BY <2>2
  <2> QED
    BY <2>1, <2>2, <2>3
<1>6. attempt' \in [Uploads -> [Workers -> 1 .. Retries]]
  <2>1. attempt' = attempt \/ attempt' = [attempt EXCEPT ![u][w] = 1]
    BY DEF Get
  <2>2. attempt \in [Uploads -> [Workers -> 1 .. Retries]] /\ 1 \in 1 .. Retries
    BY Numbers DEF IInv, Shapes
  <2>3. [attempt EXCEPT ![u][w] = 1] \in [Uploads -> [Workers -> 1 .. Retries]]
    BY <2>2
  <2> QED
    BY <2>1, <2>2, <2>3
<1> QED
  BY <1>1, <1>3, <1>4, <1>5, <1>6 DEF IInv, Shapes

LEMMA AckedShapes ==
    ASSUME IInv, NEW u \in Uploads, NEW w \in Workers, Acked(u, w)
    PROVE  Shapes'
<1>1. /\ UNCHANGED <<phase, result, next, nones, queue, session, up>>
      /\ WorkerGoes(u, w, "get") /\ worker[u][w] = "send"
      /\ acked' = [acked EXCEPT ![u] = acked[u] + 1]
      /\ accepted' = [accepted EXCEPT ![u] = accepted[u] \cup {part[u][w]}]
      /\ part' = [part EXCEPT ![u][w] = None]
      /\ attempt' = [attempt EXCEPT ![u][w] = 1]
  BY DEF Acked, Forgets, WorkerGoes, producer
<1>2. worker' \in [Uploads -> [Workers -> WorkerStates]]
  BY <1>1, WorkerShape DEF IInv, WorkerStates
<1>3. part[u][w] \in 1 .. Parts
  BY <1>1, WorkersPart DEF Busy
<1>4. accepted' \in [Uploads -> SUBSET (1 .. Parts)] /\ acked' \in [Uploads -> Nat]
  BY <1>1, <1>3 DEF IInv, Shapes
<1>5. part' \in [Uploads -> [Workers -> 0 .. Parts]]
  BY <1>1, Numbers DEF IInv, Shapes
<1>6. attempt' \in [Uploads -> [Workers -> 1 .. Retries]]
  BY <1>1, Numbers DEF IInv, Shapes
<1> QED
  BY <1>1, <1>2, <1>4, <1>5, <1>6 DEF IInv, Shapes

LEMMA LinkShapes ==
    ASSUME IInv,
           \/ \E u \in Uploads, w \in Workers : Restarted(u, w) \/ SendsAgain(u, w) \/ Stops(u, w)
           \/ \E s \in Sessions : LinkLost(s) \/ Reconnected(s)
    PROVE  Shapes'
<1>1. UNCHANGED <<phase, result, next, nones, queue, part, attempt, session, acked, accepted>>
  BY DEF Restarted, SendsAgain, Stops, LinkLost, Reconnected, producer, working, outcome
<1>2. up' \in [Sessions -> BOOLEAN]
  <2>1. up' = up \/ \E s, b : b \in BOOLEAN /\ up' = [up EXCEPT ![s] = b]
    BY DEF Restarted, SendsAgain, Stops, LinkLost, Reconnected, Connects
  <2> QED
    BY <2>1 DEF IInv, Shapes
<1>3. worker' \in [Uploads -> [Workers -> WorkerStates]]
  <2>1. worker' = worker \/ \E u \in Uploads, w \in Workers, x \in WorkerStates : WorkerGoes(u, w, x)
    BY DEF Restarted, SendsAgain, Stops, LinkLost, Reconnected, WorkerGoes, WorkerStates, Busy, Gone,
           working
  <2> QED
    BY <2>1, WorkerShape DEF IInv, Shapes
<1> QED
  BY <1>1, <1>2, <1>3 DEF IInv, Shapes

\* The steps, one by one.
LEMMA ShapesKept ==
    ASSUME IInv, [Next]_vars
    PROVE  Shapes'
<1>1. CASE UNCHANGED vars
  BY <1>1 DEF IInv, Shapes, vars, semaphore, producer, working, outcome
<1>2. ASSUME NEW u \in Uploads,
             \/ Produce(u) \/ PutTimesOut(u) \/ DrainStalls(u) \/ Cancel(u)
             \/ CancelCleanup(u) \/ Grows(u)
      PROVE  Shapes'
  BY <1>2, ProducerShapes, CancelShapes, PutShapes, CleanupShapes DEF Produce
<1>3. ASSUME NEW u \in Uploads, NEW w \in Workers,
             Work(u, w) \/ TransportFails(u, w) \/ Refused(u, w)
      PROVE  Shapes'
  BY <1>3, GetShapes, AckedShapes, FailShapes, LinkShapes DEF Work
<1> QED
  BY <1>1, <1>2, <1>3, GrantShapes, LinkShapes DEF Next

-----------------------------------------------------------------------------
(* Producers and workers.                                                  *)

\* What one upload has is left alone.
LEMMA ProducerRests ==
    ASSUME NEW v, ProducerOK(v), UNCHANGED <<phase[v], next[v]>>
    PROVE  ProducerOK(v)'
BY DEF ProducerOK

LEMMA WorkersRest ==
    ASSUME NEW v, WorkersOK(v), UNCHANGED <<phase[v], worker[v], growth[v]>>
    PROVE  WorkersOK(v)'
BY DEF WorkersOK

LEMMA ProducersKept ==
    ASSUME IInv, [Next]_vars
    PROVE  \A v \in Uploads : ProducerOK(v)'
<1>0. /\ phase \in [Uploads -> Phases]
      /\ next \in [Uploads -> 1 .. Parts + 1] /\ Parts \in Nat \ {0}
      /\ \A v \in Uploads : ProducerOK(v)
  BY Numbers DEF IInv, Shapes
<1>1. CASE UNCHANGED <<phase, next>>
  BY <1>0, <1>1, ProducerRests
<1>2. CASE Grant
  <2>1. Head(line) \in Uploads /\ phase[Head(line)] = "line"
    BY <1>2, TailOnce DEF Grant, IInv, LineOK
  <2>2. phase' = [phase EXCEPT ![Head(line)] = "put"] /\ next' = next
    BY <1>2 DEF Grant, Goto
  <2> QED
    BY <1>0, <2>1, <2>2 DEF ProducerOK
<1>3. ASSUME NEW u \in Uploads, Read(u) PROVE \A v \in Uploads : ProducerOK(v)'
  <2>1. /\ next' = next /\ phase[u] = "read"
        /\ \A v \in Uploads : v # u => phase'[v] = phase[v]
        /\ \/ phase'[u] = "drain" /\ next[u] > Parts
           \/ phase'[u] = "cleanup"
           \/ phase'[u] \in {"put", "line"} /\ next[u] <= Parts
    BY <1>0, <1>3 DEF Read, Raises, AcquirePart, Goto
  <2> QED
    BY <1>0, <2>1 DEF ProducerOK
<1>4. ASSUME NEW u \in Uploads, Put(u) PROVE \A v \in Uploads : ProducerOK(v)'
  <2>1. /\ phase[u] = "put"
        /\ \A v \in Uploads : v # u => UNCHANGED <<phase[v], next[v]>>
        /\ \/ phase'[u] = "stop" /\ next'[u] = next[u]
           \/ u \notin Missing /\ phase'[u] = "read"
           \/ /\ u \notin Missing /\ phase'[u] \in {"put", "line"}
              /\ next'[u] = next[u] + 1 /\ next[u] # Parts
    BY <1>0, <1>4 DEF Put, StopsWorkers, AcquirePart, Goto
  <2> QED
    BY <1>0, <2>1 DEF ProducerOK
<1>5. ASSUME NEW u \in Uploads, Cleanup(u) PROVE \A v \in Uploads : ProducerOK(v)'
  <2>1. /\ phase'[u] = "over" /\ next'[u] = 1
        /\ \A v \in Uploads : v # u => UNCHANGED <<phase[v], next[v]>>
    BY <1>0, <1>5 DEF Cleanup, Vanish, Goto
  <2> QED
    BY <1>0, <2>1 DEF ProducerOK
<1>6. ASSUME NEW u \in Uploads,
             \/ Begin(u) \/ Drained(u) \/ PutsNone(u) \/ AllPut(u) \/ NoneTimesOut(u)
             \/ WorkersStopped(u) \/ CleansUp(u) \/ CancelCleanup(u)
             \/ PutTimesOut(u) \/ DrainStalls(u) \/ Cancel(u) \/ Grows(u)
      PROVE  \A v \in Uploads : ProducerOK(v)'
  <2>1. /\ next' = next
        /\ \/ phase' = phase
           \/ \E p \in Phases \ {"line", "put", "drain"} : phase' = [phase EXCEPT ![u] = p]
    BY <1>6 DEF Begin, Drained, PutsNone, AllPut, NoneTimesOut, WorkersStopped, CleansUp,
                CancelCleanup, PutTimesOut, DrainStalls, Cancel, Grows, producer, Raises,
                StopsWorkers, Goto, Phases
  <2> QED
    BY <1>0, <2>1 DEF ProducerOK
<1>7. ASSUME NEW u \in Uploads, NEW w \in Workers,
             Work(u, w) \/ TransportFails(u, w) \/ Refused(u, w)
      PROVE  UNCHANGED <<phase, next>>
  BY <1>7 DEF Work, Get, Acked, Restarted, SendsAgain, Stops, TransportFails, Refused, producer
<1>8. ASSUME NEW s \in Sessions, LinkLost(s) \/ Reconnected(s)
      PROVE  UNCHANGED <<phase, next>>
  BY <1>8 DEF LinkLost, Reconnected, producer
<1>9. ASSUME NEW u \in Uploads,
             \/ Produce(u) \/ PutTimesOut(u) \/ DrainStalls(u) \/ Cancel(u)
             \/ CancelCleanup(u) \/ Grows(u)
             \/ \E w \in Workers : Work(u, w) \/ TransportFails(u, w) \/ Refused(u, w)
      PROVE  \A v \in Uploads : ProducerOK(v)'
  BY <1>1, <1>3, <1>4, <1>5, <1>6, <1>7, <1>9 DEF Produce
<1>10. CASE UNCHANGED vars
  BY <1>1, <1>10 DEF vars, producer
<1> QED
  BY <1>1, <1>2, <1>8, <1>9, <1>10 DEF Next

LEMMA FlagsKept ==
    ASSUME IInv, [Next]_vars
    PROVE  Flags'
<1>0. growth \in [Uploads -> BOOLEAN] /\ errors \in [Uploads -> BOOLEAN]
  BY DEF IInv, Flags
<1>1. CASE UNCHANGED <<growth, errors>>
  BY <1>0, <1>1 DEF Flags
<1>2. ASSUME NEW u \in Uploads, growth' = [growth EXCEPT ![u] = FALSE], errors' = errors
      PROVE  Flags'
  BY <1>0, <1>2 DEF Flags
<1>3. ASSUME NEW u \in Uploads, Begin(u) PROVE Flags'
  BY <1>0, <1>3 DEF Flags, Begin, outcome
<1>4. ASSUME NEW u \in Uploads, growth' = growth, errors' = [errors EXCEPT ![u] = TRUE]
      PROVE  Flags'
  BY <1>0, <1>4 DEF Flags
<1>5. ASSUME NEW u \in Uploads, Read(u) \/ Drained(u) \/ PutsNone(u) \/ AllPut(u) \/ WorkersStopped(u)
             \/ NoneTimesOut(u) \/ PutTimesOut(u) \/ DrainStalls(u) \/ Cancel(u) \/ Grows(u)
             \/ CleansUp(u) \/ Cleanup(u) \/ CancelCleanup(u) \/ Put(u)
      PROVE  Flags'
  <2>1. errors' = errors /\ (growth' = growth \/ growth' = [growth EXCEPT ![u] = FALSE])
    BY <1>5 DEF Read, Drained, PutsNone, AllPut, WorkersStopped, NoneTimesOut, PutTimesOut,
                DrainStalls, Cancel, Grows, CleansUp, Cleanup, CancelCleanup, Put, StopsWorkers,
                producer, outcome
  <2> QED
    BY <1>1, <1>2, <2>1
<1>6. ASSUME NEW u \in Uploads, NEW w \in Workers,
             Work(u, w) \/ TransportFails(u, w) \/ Refused(u, w)
      PROVE  Flags'
  <2>1. growth' = growth /\ (errors' = errors \/ errors' = [errors EXCEPT ![u] = TRUE])
    BY <1>6 DEF Work, Get, Acked, Restarted, SendsAgain, Stops, TransportFails, Refused, GivesUp,
                FailsOver, producer, outcome
  <2> QED
    BY <1>1, <1>4, <2>1
<1>7. ASSUME NEW s \in Sessions, LinkLost(s) \/ Reconnected(s) PROVE Flags'
  BY <1>1, <1>7 DEF LinkLost, Reconnected, producer, outcome
<1>8. CASE Grant \/ UNCHANGED vars
  BY <1>1, <1>8 DEF Grant, vars, producer, outcome
<1>9. ASSUME NEW u \in Uploads,
             \/ Produce(u) \/ PutTimesOut(u) \/ DrainStalls(u) \/ Cancel(u)
             \/ CancelCleanup(u) \/ Grows(u)
             \/ \E w \in Workers : Work(u, w) \/ TransportFails(u, w) \/ Refused(u, w)
      PROVE  Flags'
  BY <1>3, <1>5, <1>6, <1>9 DEF Produce
<1> QED
  BY <1>7, <1>8, <1>9 DEF Next

\* Where a worker goes from its place, another worker has the one it had.
LEMMA WorkerGoesFacts ==
    ASSUME Shapes, NEW u \in Uploads, NEW w \in Workers, NEW x, WorkerGoes(u, w, x)
    PROVE  /\ \A v \in Uploads : v # u => worker'[v] = worker[v]
           /\ \A y \in Workers : worker'[u][y] = IF y = w THEN x ELSE worker[u][y]
BY DEF Shapes, WorkerGoes

LEMMA WorkersKept ==
    ASSUME IInv, [Next]_vars
    PROVE  \A v \in Uploads : WorkersOK(v)'
<1>0. /\ phase \in [Uploads -> Phases] /\ Shapes
      /\ worker \in [Uploads -> [Workers -> WorkerStates]]
      /\ \A v \in Uploads : WorkersOK(v)
  BY DEF IInv, Shapes
<1>a. growth \in [Uploads -> BOOLEAN]
  BY DEF IInv, Flags
<1>1. CASE UNCHANGED <<phase, worker, growth>>
  BY <1>0, <1>1, WorkersRest
<1>2. CASE Grant
  <2>1. Head(line) \in Uploads /\ phase[Head(line)] = "line"
    BY <1>2, TailOnce DEF Grant, IInv, LineOK
  <2>2. phase' = [phase EXCEPT ![Head(line)] = "put"] /\ UNCHANGED <<worker, growth>>
    BY <1>2 DEF Grant, Goto, working
  <2> QED
    BY <1>0, <2>1, <2>2 DEF WorkersOK
<1>3. ASSUME NEW u \in Uploads, Begin(u) PROVE \A v \in Uploads : WorkersOK(v)'
  <2>1. /\ \A v \in Uploads : v # u => UNCHANGED <<phase[v], worker[v], growth[v]>>
        /\ phase'[u] = "read"
        /\ \A w \in Workers : worker'[u][w] = IF w[1] = 1 THEN "get" ELSE "none"
    BY <1>0, <1>a, <1>3 DEF Begin, Goto
  <2>2. WorkersOK(u)'
    BY <2>1, Numbers DEF WorkersOK
  <2> QED
    BY <1>0, <2>1, <2>2, WorkersRest
<1>4. ASSUME NEW u \in Uploads, NoneTimesOut(u) \/ CleansUp(u) \/ (WorkersStopped(u) /\ CancelsWorkers(u))
      PROVE  \A v \in Uploads : WorkersOK(v)'
  <2>1. /\ \A v \in Uploads : v # u => UNCHANGED <<phase[v], growth[v]>>
        /\ phase'[u] \in {"wait", "cleanup"} \/ (phase'[u] = "join" /\ ~growth'[u])
        /\ CancelsWorkers(u)
    BY <1>0, <1>a, <1>4 DEF NoneTimesOut, CleansUp, WorkersStopped, Goto
  <2>2. /\ \A v \in Uploads : v # u => worker'[v] = worker[v]
        /\ \A w \in Workers : worker'[u][w] = IF worker[u][w] \in Busy THEN "stopping"
                                              ELSE IF worker[u][w] = "get" THEN "cancelled"
                                              ELSE worker[u][w]
    BY <1>0, <2>1, CancelledFacts
  <2>3. \A w \in Workers : worker[u][w] \in WorkerStates
    BY <1>0
  <2>4. \A w \in Workers : /\ worker'[u][w] \in Gone \cup {"stopping"}
                           /\ worker'[u][w] = "none" <=> worker[u][w] = "none"
    BY <2>2, <2>3 DEF WorkerStates, Busy, Gone
  <2>5. WorkersOK(u)'
    BY <1>0, <2>1, <2>4, Numbers DEF WorkersOK
  <2> QED
    BY <1>0, <2>1, <2>2, <2>5, WorkersRest
<1>5. ASSUME NEW u \in Uploads, Cleanup(u) PROVE \A v \in Uploads : WorkersOK(v)'
  <2>1. /\ \A v \in Uploads : v # u => phase'[v] = phase[v]
        /\ phase[u] = "join" /\ phase'[u] = "over" /\ UNCHANGED <<worker, growth>>
    BY <1>0, <1>5 DEF Cleanup, Goto, working
  <2> QED
    BY <1>0, <2>1 DEF WorkersOK
<1>6. ASSUME NEW u \in Uploads, Grows(u) PROVE \A v \in Uploads : WorkersOK(v)'
  <2>1. PICK s \in Sessions : worker' = [worker EXCEPT ![u] = [w \in Workers |->
                                            IF w[1] = s THEN "get" ELSE worker[u][w]]]
    BY <1>6 DEF Grows
  <2>2. /\ \A v \in Uploads : v # u => UNCHANGED <<phase[v], worker[v], growth[v]>>
        /\ growth[u] /\ UNCHANGED <<phase[u], growth[u]>>
        /\ \A w \in Workers : worker'[u][w] = IF w[1] = s THEN "get" ELSE worker[u][w]
    BY <1>0, <1>6, <2>1 DEF Grows, producer
  <2>3. WorkersOK(u)'
    BY <1>0, <2>2, Numbers DEF WorkersOK
  <2> QED
    BY <1>0, <2>2, <2>3, WorkersRest
<1>7. ASSUME NEW u \in Uploads,
             \/ Read(u) \/ Put(u) \/ Drained(u) \/ PutsNone(u) \/ AllPut(u)
             \/ WorkersStopped(u) /\ UNCHANGED working
             \/ PutTimesOut(u) \/ DrainStalls(u) \/ Cancel(u) \/ CancelCleanup(u)
      PROVE  \A v \in Uploads : WorkersOK(v)'
  <2>1. /\ worker' = worker
        /\ \/ phase' = phase
           \/ \E p \in Phases \ {"begin", "join", "over"} : phase' = [phase EXCEPT ![u] = p]
        /\ \A v \in Uploads : v # u => growth'[v] = growth[v]
        /\ growth' = growth \/ phase'[u] \in {"stop", "left"}
    BY <1>0, <1>a, <1>7 DEF Read, Put, Drained, PutsNone, AllPut, WorkersStopped, PutTimesOut, DrainStalls,
                Cancel, CancelCleanup, producer, working, Raises, StopsWorkers, AcquirePart, Goto, Phases
  <2> QED
    BY <1>0, <2>1 DEF WorkersOK
<1>8. ASSUME NEW u \in Uploads, NEW w \in Workers,
             Work(u, w) \/ TransportFails(u, w) \/ Refused(u, w)
      PROVE  \A v \in Uploads : WorkersOK(v)'
  <2>1. /\ UNCHANGED <<phase, growth>> /\ worker[u][w] # "none"
        /\ \/ /\ worker[u][w] \notin Gone \cup {"stopping"}
              /\ \E x \in WorkerStates \ {"none"} : WorkerGoes(u, w, x)
           \/ WorkerGoes(u, w, "cancelled")
    BY <1>8, AttemptFails DEF Work, Get, Acked, Restarted, SendsAgain, Stops, TransportFails, Refused,
            producer, WorkerGoes, Gone, Busy, WorkerStates
  <2>2. PICK x \in WorkerStates \ {"none"} :
           WorkerGoes(u, w, x) /\ (worker[u][w] \notin Gone \cup {"stopping"} \/ x = "cancelled")
    BY <2>1 DEF WorkerStates, Gone
  <2>3. /\ \A v \in Uploads : v # u => worker'[v] = worker[v]
        /\ \A y \in Workers : worker'[u][y] = IF y = w THEN x ELSE worker[u][y]
    BY <1>0, <2>2, WorkerGoesFacts
  <2>4. WorkersOK(u)'
    BY <1>0, <2>1, <2>2, <2>3, Numbers DEF WorkersOK, Gone
  <2> QED
    BY <1>0, <2>1, <2>3, <2>4, WorkersRest
<1>9. ASSUME NEW s \in Sessions, LinkLost(s) \/ Reconnected(s)
      PROVE  UNCHANGED <<phase, worker, growth>>
  BY <1>9 DEF LinkLost, Reconnected, producer, working
<1>10. ASSUME NEW u \in Uploads,
             \/ Produce(u) \/ PutTimesOut(u) \/ DrainStalls(u) \/ Cancel(u)
             \/ CancelCleanup(u) \/ Grows(u)
             \/ \E w \in Workers : Work(u, w) \/ TransportFails(u, w) \/ Refused(u, w)
      PROVE  \A v \in Uploads : WorkersOK(v)'
  BY <1>3, <1>4, <1>5, <1>6, <1>7, <1>8, <1>10 DEF Produce, WorkersStopped
<1>11. CASE UNCHANGED vars
  BY <1>1, <1>11 DEF vars, producer, working
<1> QED
  BY <1>1, <1>2, <1>9, <1>10, <1>11 DEF Next

-----------------------------------------------------------------------------
(* Parts on their way: what becomes of the set when one moves.             *)

LEMMA PartQueued ==
    ASSUME NEW q \in Seq(0 .. Parts), NEW W, NEW p, Distinct(q, W, p),
           NEW n \in 1 .. Parts, n \notin OnWay(q, W, p)
    PROVE  /\ Distinct(Append(q, n), W, p)
           /\ OnWay(Append(q, n), W, p) = OnWay(q, W, p) \cup {n}
<1> DEFINE r == Append(q, n)
<1>1. /\ DOMAIN q = 1 .. Len(q) /\ Len(q) \in Nat /\ DOMAIN r = 1 .. Len(q) + 1
      /\ \A i \in 1 .. Len(q) : r[i] = q[i]
      /\ r[Len(q) + 1] = n
  BY AppendProperties, LenProperties
<1> HIDE DEF r
<1>2. n # None /\ \A i \in DOMAIN q : q[i] # n
  BY Numbers DEF OnWay, Waiting, None
<1>3. Waiting(r) = Waiting(q) \cup {n}
  BY <1>1, <1>2 DEF Waiting
<1>4. \A i, j \in DOMAIN r : r[i] = r[j] => i = j \/ r[i] = None
  BY <1>1, <1>2 DEF Distinct
<1>5. \A w \in W : p[w] \notin Waiting(r)
  BY <1>3 DEF Distinct, OnWay
<1> QED
  BY <1>3, <1>4, <1>5 DEF Distinct, OnWay, r

LEMMA NoneQueued ==
    ASSUME NEW q \in Seq(0 .. Parts), NEW W, NEW p, Distinct(q, W, p)
    PROVE  /\ Distinct(Append(q, None), W, p)
           /\ OnWay(Append(q, None), W, p) = OnWay(q, W, p)
<1> DEFINE r == Append(q, None)
<1>0. None \in 0 .. Parts
  BY Numbers
<1>1. /\ DOMAIN q = 1 .. Len(q) /\ Len(q) \in Nat /\ DOMAIN r = 1 .. Len(q) + 1
      /\ \A i \in 1 .. Len(q) : r[i] = q[i]
      /\ r[Len(q) + 1] = None
  BY <1>0, AppendProperties, LenProperties
<1> HIDE DEF r
<1>3. Waiting(r) = Waiting(q)
  BY <1>1 DEF Waiting
<1>4. \A i, j \in DOMAIN r : r[i] = r[j] => i = j \/ r[i] = None
  BY <1>1 DEF Distinct
<1> QED
  BY <1>3, <1>4 DEF Distinct, OnWay, r

LEMMA NoneTaken ==
    ASSUME NEW q \in Seq(0 .. Parts), q # <<>>, Head(q) = None, NEW W, NEW p, Distinct(q, W, p)
    PROVE  /\ Distinct(Tail(q), W, p)
           /\ OnWay(Tail(q), W, p) = OnWay(q, W, p)
<1> DEFINE r == Tail(q)
<1>1. /\ DOMAIN q = 1 .. Len(q) /\ Len(q) \in Nat \ {0} /\ DOMAIN r = 1 .. Len(q) - 1
      /\ \A i \in 1 .. Len(q) - 1 : r[i] = q[i + 1]
      /\ q[1] = None
  BY HeadTailProperties, LenProperties, EmptySeq
<1> HIDE DEF r
<1>3. Waiting(r) = Waiting(q)
  <2>1. ASSUME NEW x \in Waiting(q) PROVE x \in Waiting(r)
    <3>1. PICK i \in DOMAIN q : x = q[i]
      BY <2>1 DEF Waiting
    <3>2. i # 1 /\ x # None
      BY <1>1, <2>1, <3>1 DEF Waiting
    <3>3. i - 1 \in DOMAIN r /\ r[i - 1] = x
      BY <1>1, <3>1, <3>2
    <3> QED
      BY <3>2, <3>3 DEF Waiting
  <2>2. ASSUME NEW x \in Waiting(r) PROVE x \in Waiting(q)
    <3>1. PICK i \in DOMAIN r : x = r[i] /\ x # None
      BY <2>2 DEF Waiting
    <3>2. i + 1 \in DOMAIN q /\ x = q[i + 1]
      BY <1>1, <3>1
    <3> QED
      BY <3>1, <3>2 DEF Waiting
  <2> QED
    BY <2>1, <2>2
<1>4. ASSUME NEW i \in DOMAIN r, NEW j \in DOMAIN r, r[i] = r[j]
      PROVE  i = j \/ r[i] = None
  <2>1. i + 1 \in DOMAIN q /\ j + 1 \in DOMAIN q /\ q[i + 1] = r[i] /\ q[j + 1] = r[j]
    BY <1>1
  <2>2. i + 1 = j + 1 \/ q[i + 1] = None
    BY <1>4, <2>1 DEF Distinct
  <2> QED
    BY <1>1, <2>1, <2>2
<1> QED
  BY <1>3, <1>4 DEF Distinct, OnWay, r

LEMMA PartTaken ==
    ASSUME NEW q \in Seq(0 .. Parts), q # <<>>, Head(q) # None, NEW W, NEW p, Distinct(q, W, p),
           NEW w, w \notin W, NEW V, V = W \cup {w}, NEW r, r[w] = Head(q), \A v \in W : r[v] = p[v]
    PROVE  /\ Distinct(Tail(q), V, r)
           /\ OnWay(Tail(q), V, r) = OnWay(q, W, p)
<1> DEFINE t == Tail(q)
<1>1. /\ DOMAIN q = 1 .. Len(q) /\ Len(q) \in Nat \ {0} /\ DOMAIN t = 1 .. Len(q) - 1
      /\ \A i \in 1 .. Len(q) - 1 : t[i] = q[i + 1]
      /\ q[1] = Head(q)
  BY HeadTailProperties, LenProperties, EmptySeq
<1> HIDE DEF t
<1>2. Head(q) \in Waiting(q)
  BY <1>1 DEF Waiting
<1>3. Waiting(t) = Waiting(q) \ {Head(q)}
  <2>1. ASSUME NEW x \in Waiting(q), x # Head(q) PROVE x \in Waiting(t)
    <3>1. PICK i \in DOMAIN q : x = q[i]
      BY <2>1 DEF Waiting
    <3>2. i # 1 /\ x # None
      BY <1>1, <2>1, <3>1 DEF Waiting
    <3>3. i - 1 \in DOMAIN t /\ t[i - 1] = x
      BY <1>1, <3>1, <3>2
    <3> QED
      BY <3>2, <3>3 DEF Waiting
  <2>2. ASSUME NEW x \in Waiting(t) PROVE x \in Waiting(q) /\ x # Head(q)
    <3>1. PICK i \in DOMAIN t : x = t[i] /\ x # None
      BY <2>2 DEF Waiting
    <3>2. i + 1 \in DOMAIN q /\ x = q[i + 1] /\ i + 1 # 1 /\ 1 \in DOMAIN q
      BY <1>1, <3>1
    <3>3. x # q[1]
      BY <3>1, <3>2 DEF Distinct
    <3> QED
      BY <1>1, <3>1, <3>2, <3>3 DEF Waiting
  <2> QED
    BY <2>1, <2>2
<1>4. ASSUME NEW i \in DOMAIN t, NEW j \in DOMAIN t, t[i] = t[j]
      PROVE  i = j \/ t[i] = None
  <2>1. i + 1 \in DOMAIN q /\ j + 1 \in DOMAIN q /\ q[i + 1] = t[i] /\ q[j + 1] = t[j]
    BY <1>1
  <2>2. i + 1 = j + 1 \/ q[i + 1] = None
    BY <1>4, <2>1 DEF Distinct
  <2> QED
    BY <1>1, <2>1, <2>2
<1>5. \A x, y \in V : r[x] = r[y] => x = y
  BY <1>2 DEF Distinct
<1>6. \A x \in V : r[x] \notin Waiting(t)
  BY <1>3 DEF Distinct
<1>7. OnWay(t, V, r) = OnWay(q, W, p)
  BY <1>2, <1>3 DEF OnWay
<1> QED
  BY <1>4, <1>5, <1>6, <1>7 DEF Distinct, t

LEMMA FewerWorkers ==
    ASSUME NEW q, NEW W, NEW p, Distinct(q, W, p),
           NEW V \in SUBSET W, NEW r, \A v \in V : r[v] = p[v]
    PROVE  /\ Distinct(q, V, r)
           /\ OnWay(q, V, r) \subseteq OnWay(q, W, p)
           /\ \A w \in W \ V : p[w] \notin OnWay(q, V, r)
BY DEF Distinct, OnWay

-----------------------------------------------------------------------------
(* The parts of an upload.                                                 *)

LEMMA PartSets ==
    ASSUME NEW S \in SUBSET (1 .. Parts)
    PROVE  /\ IsFiniteSet(S) /\ Cardinality(S) \in Nat /\ Cardinality(S) <= Parts
           /\ Cardinality(S) >= Parts => S = 1 .. Parts
           /\ \A T \in SUBSET S : Cardinality(T) \in Nat /\ Cardinality(T) <= Cardinality(S)
           /\ \A x \in S : Cardinality(S \ {x}) = Cardinality(S) - 1
<1>1. IsFiniteSet(1 .. Parts) /\ Cardinality(1 .. Parts) = Parts
  <2>1. 1 \in Int /\ Parts \in Int /\ ~(1 > Parts)
    BY Numbers
  <2> QED
    BY <2>1, FS_Interval
<1>2. /\ IsFiniteSet(S) /\ Cardinality(S) <= Parts
      /\ Cardinality(S) = Parts => S = 1 .. Parts
  BY <1>1, FS_Subset
<1>3. Cardinality(S) \in Nat
  BY <1>2, FS_CardinalityType
<1>4. \A T \in SUBSET S : Cardinality(T) \in Nat /\ Cardinality(T) <= Cardinality(S)
  BY <1>2, FS_Subset, FS_CardinalityType
<1>5. \A x \in S : Cardinality(S \ {x}) = Cardinality(S) - 1
  BY <1>2, FS_RemoveElement
<1> QED
  BY <1>2, <1>3, <1>4, <1>5, Numbers

LEMMA HandedParts == ASSUME NEW u, next[u] \in 1 .. Parts + 1 PROVE Handed(u) \subseteq 1 .. Parts
BY Numbers DEF Handed

LEMMA HandedPartsNext == ASSUME NEW u, next'[u] \in 1 .. Parts + 1 PROVE Handed(u)' \subseteq 1 .. Parts
BY Numbers DEF Handed

Moving == {"begin", "read", "line", "put", "drain"}

LEMMA PartsFacts ==
    ASSUME IInv, NEW u \in Uploads
    PROVE  /\ Handed(u) \subseteq 1 .. Parts
           /\ OnWay(queue[u], Working(u), part[u]) \subseteq Handed(u)
           /\ Distinct(queue[u], Working(u), part[u])
           /\ Settled(u) \subseteq 1 .. Parts
           /\ Cardinality(Settled(u)) \in Nat /\ acked[u] \in 0 .. Parts
           /\ phase[u] # "over" => acked[u] <= Cardinality(Settled(u))
           /\ u \notin Missing /\ ~errors[u] /\ phase[u] \in Moving => Settled(u) \subseteq accepted[u]
           /\ u \notin Missing /\ ~errors[u] /\ phase[u] \in {"stop", "wait"}
                 => accepted[u] = 1 .. Parts
           /\ result[u] = "file" => accepted[u] = 1 .. Parts
<1>1. Handed(u) \subseteq 1 .. Parts
  BY HandedParts DEF IInv, Shapes
<1>2. Settled(u) \in SUBSET (1 .. Parts)
  BY <1>1 DEF Settled
<1>3. Cardinality(Settled(u)) \in Nat
  BY <1>2, PartSets
<1>4. acked[u] \in Nat /\ PartsOK(u)
  BY DEF IInv, Shapes
<1> QED
  BY <1>1, <1>2, <1>3, <1>4, Numbers DEF PartsOK, Moving

\* What is to be shown of an upload that is not over.
LEMMA PartsGo ==
    ASSUME IInv, Shapes', NEW u \in Uploads,
           OnWay(queue'[u], Working(u)', part'[u]) \subseteq Handed(u)',
           Distinct(queue'[u], Working(u)', part'[u]),
           acked'[u] <= Cardinality(Settled(u)'),
           accepted[u] \subseteq accepted'[u],
           u \notin Missing /\ ~errors'[u] =>
              /\ phase'[u] \in Moving => Settled(u)' \subseteq accepted'[u]
              /\ phase'[u] \in {"stop", "wait"} =>
                    \/ ~errors[u] /\ phase[u] \in {"stop", "wait"}
                    \/ accepted'[u] = 1 .. Parts,
           result'[u] = "file" => result[u] = "file" \/ accepted'[u] = 1 .. Parts
    PROVE  PartsOK(u)'
<1>1. accepted'[u] \subseteq 1 .. Parts /\ next'[u] \in 1 .. Parts + 1 /\ acked'[u] \in Nat
  BY DEF Shapes
<1>2. Settled(u)' \in SUBSET (1 .. Parts)
  BY <1>1, HandedPartsNext DEF Settled
<1>3. Cardinality(Settled(u)') \in Nat /\ Cardinality(Settled(u)') <= Parts
  BY <1>2, PartSets
<1>4. acked'[u] <= Parts
  BY <1>1, <1>3, Numbers
<1>5. accepted[u] = 1 .. Parts => accepted'[u] = 1 .. Parts
  BY <1>1
<1>6. result'[u] = "file" => accepted'[u] = 1 .. Parts
  BY <1>5, PartsFacts
<1>7. u \notin Missing /\ ~errors'[u] /\ phase'[u] \in {"stop", "wait"} => accepted'[u] = 1 .. Parts
  BY <1>5, PartsFacts
<1> QED
  BY <1>4, <1>6, <1>7 DEF PartsOK, Moving

\* No part moves.
LEMMA PartsStay ==
    ASSUME IInv, Shapes', NEW u \in Uploads, Working(u)' = Working(u),
           UNCHANGED <<queue[u], part[u], acked[u], errors[u], next[u]>>,
           accepted[u] \subseteq accepted'[u],
           u \in Missing /\ phase'[u] \in Moving \ {"drain"} => phase[u] \in Moving \ {"drain"},
           phase'[u] = "over" <=> phase[u] = "over",
           u \notin Missing /\ ~errors[u] =>
              /\ phase'[u] \in Moving => phase[u] \in Moving
              /\ phase'[u] \in {"stop", "wait"} =>
                    \/ phase[u] \in {"stop", "wait"}
                    \/ phase[u] = "drain" /\ acked[u] >= Parts,
           result'[u] = "file" =>
              \/ result[u] = "file"
              \/ phase[u] = "wait" /\ ~errors[u] /\ u \notin Missing
    PROVE  PartsOK(u)'
<1>1. Handed(u) \subseteq Handed(u)'
  BY DEF Handed, Moving
<1>2. OnWay(queue'[u], Working(u)', part'[u]) = OnWay(queue[u], Working(u), part[u])
  OBVIOUS
<1>3. /\ OnWay(queue'[u], Working(u)', part'[u]) \subseteq Handed(u)'
      /\ Distinct(queue'[u], Working(u)', part'[u])
  BY <1>1, <1>2, PartsFacts
<1>4. Settled(u) \subseteq Settled(u)' /\ (u \notin Missing => Settled(u)' = Settled(u))
  BY <1>1, <1>2 DEF Settled, Handed
<1>5. accepted'[u] \subseteq 1 .. Parts /\ next'[u] \in 1 .. Parts + 1
  BY DEF Shapes
<1>6. Settled(u)' \in SUBSET (1 .. Parts)
  BY <1>5, HandedPartsNext DEF Settled
<1>7. CASE phase'[u] = "over"
  <2>1. result'[u] = "file" => accepted'[u] = 1 .. Parts
    BY <1>5, <1>7, PartsFacts
  <2>2. acked'[u] <= Parts
    BY PartsFacts, Numbers
  <2> QED
    BY <1>3, <1>7, <2>1, <2>2 DEF PartsOK
<1>8. CASE phase'[u] # "over"
  <2>1. acked'[u] <= Cardinality(Settled(u)')
    <3>1. Cardinality(Settled(u)') \in Nat /\ Cardinality(Settled(u)) <= Cardinality(Settled(u)')
      BY <1>4, <1>6, PartSets
    <3>2. /\ Cardinality(Settled(u)) \in Nat /\ acked[u] \in 0 .. Parts
          /\ acked[u] <= Cardinality(Settled(u)) /\ acked'[u] = acked[u]
      BY <1>8, PartsFacts
    <3> QED
      BY <3>1, <3>2
  <2>2. ASSUME u \notin Missing, ~errors[u], phase[u] = "drain", acked[u] >= Parts
        PROVE  accepted'[u] = 1 .. Parts
    <3>1. /\ Settled(u) \in SUBSET (1 .. Parts) /\ Settled(u) \subseteq accepted[u]
          /\ Cardinality(Settled(u)) \in Nat /\ acked[u] \in 0 .. Parts
          /\ acked[u] <= Cardinality(Settled(u))
      BY <2>2, PartsFacts DEF Moving
    <3>2. Cardinality(Settled(u)) >= Parts
      BY <2>2, <3>1, Numbers
    <3>3. Settled(u) = 1 .. Parts
      BY <3>1, <3>2, PartSets
    <3> QED
      BY <1>5, <3>1, <3>3
  <2>3. u \notin Missing /\ ~errors'[u] =>
           /\ phase'[u] \in Moving => Settled(u)' \subseteq accepted'[u]
           /\ phase'[u] \in {"stop", "wait"} =>
                 \/ ~errors[u] /\ phase[u] \in {"stop", "wait"}
                 \/ accepted'[u] = 1 .. Parts
    BY <1>4, <2>2, PartsFacts
  <2>4. result'[u] = "file" => result[u] = "file" \/ accepted'[u] = 1 .. Parts
    BY <1>5, PartsFacts
  <2> QED
    BY <1>3, <2>1, <2>3, <2>4, PartsGo
<1> QED
  BY <1>7, <1>8

\* Nothing of the upload changes.
LEMMA PartsRest ==
    ASSUME IInv, Shapes', NEW u \in Uploads,
           UNCHANGED <<worker[u], queue[u], part[u], acked[u], errors[u], next[u], accepted[u],
                       phase[u], result[u]>>
    PROVE  PartsOK(u)'
<1>1. Working(u)' = Working(u)
  BY DEF Working
<1> QED
  BY <1>1, PartsStay

-----------------------------------------------------------------------------
(* The steps of the producer and the parts.                                *)

LEMMA OnwardKeepsParts ==
    ASSUME IInv, Shapes', NEW u \in Uploads,
           \/ Begin(u) \/ Read(u) \/ Drained(u) \/ AllPut(u)
           \/ WorkersStopped(u) /\ UNCHANGED working
           \/ PutTimesOut(u) \/ DrainStalls(u) \/ Cancel(u) \/ CancelCleanup(u) \/ Grows(u)
    PROVE  \A v \in Uploads : PartsOK(v)'
<1>0. /\ phase \in [Uploads -> Phases] /\ result \in [Uploads -> Results]
      /\ worker \in [Uploads -> [Workers -> WorkerStates]]
  BY DEF IInv, Shapes
<1>1. UNCHANGED <<next, queue, part, acked, accepted, errors>>
  BY DEF Begin, Read, Drained, AllPut, WorkersStopped, PutTimesOut, DrainStalls, Cancel,
         CancelCleanup, Grows,
         producer, working, outcome
<1>2. \A v \in Uploads : v # u => UNCHANGED <<phase[v], result[v], worker[v]>>
  BY <1>0 DEF Begin, Read, Drained, AllPut, WorkersStopped, PutTimesOut, DrainStalls, Cancel,
         CancelCleanup, Grows,
         producer, working, Raises, StopsWorkers, AcquirePart, Goto
<1>3. Working(u)' = Working(u)
  <2>1. CASE Begin(u)
    <3>1. Working(u) = {}
      BY <2>1 DEF Begin, Working, Busy, Gone, IInv, WorkersOK
    <3>2. Working(u)' = {}
      BY <1>0, <2>1 DEF Begin, Working, Busy
    <3> QED
      BY <3>1, <3>2
  <2>2. CASE Grows(u)
    <3>1. PICK s \in Sessions :
             /\ \A k \in 1 .. PerSession : worker[u][<<s, k>>] = "none"
             /\ worker' = [worker EXCEPT ![u] = [w \in Workers |->
                              IF w[1] = s THEN "get" ELSE worker[u][w]]]
      BY <2>2 DEF Grows
    <3>2. \A w \in Workers : w[1] = s => worker[u][w] = "none"
      BY <3>1 DEF Workers
    <3>3. \A w \in Workers : worker'[u][w] = IF w[1] = s THEN "get" ELSE worker[u][w]
      BY <1>0, <3>1
    <3> QED
      BY <3>2, <3>3 DEF Working, Busy
  <2>3. CASE \/ Read(u) \/ Drained(u) \/ AllPut(u)
             \/ WorkersStopped(u) /\ UNCHANGED working
             \/ PutTimesOut(u) \/ DrainStalls(u) \/ Cancel(u) \/ CancelCleanup(u)
    BY <2>3 DEF Read, Drained, AllPut, PutTimesOut, DrainStalls, Cancel, CancelCleanup, working,
                Working
  <2> QED
    BY <2>1, <2>2, <2>3
<1>4. \/ phase[u] \in Moving /\ phase'[u] \in Moving \ {"drain"} /\ phase[u] # "drain"
      \/ phase[u] = "read" /\ phase'[u] = "drain"
      \/ phase[u] \notin {"over"} /\ phase'[u] \in {"cleanup", "left"}
      \/ phase[u] = "drain" /\ phase'[u] = "stop" /\ (errors[u] \/ acked[u] >= Total(u))
      \/ phase[u] = "stop" /\ phase'[u] = "wait"
      \/ phase'[u] = phase[u]
  BY <1>0 DEF Begin, Read, Drained, AllPut, WorkersStopped, PutTimesOut, DrainStalls, Cancel,
         CancelCleanup, Grows,
         producer, Raises, StopsWorkers, AcquirePart, Goto, Moving
<1>5. result'[u] = "file" =>
         result[u] = "file" \/ (phase[u] = "wait" /\ ~errors[u] /\ u \notin Missing)
  BY <1>0 DEF Begin, Read, Drained, AllPut, WorkersStopped, PutTimesOut, DrainStalls, Cancel,
         CancelCleanup, Grows,
         producer, Raises
<1>6. PartsOK(u)'
  BY <1>1, <1>3, <1>4, <1>5, PartsStay DEF Moving, Total
<1> QED
  BY <1>1, <1>2, <1>6, PartsRest

LEMMA GrantKeepsParts ==
    ASSUME IInv, Shapes', Grant
    PROVE  \A v \in Uploads : PartsOK(v)'
<1>1. Head(line) \in Uploads /\ phase[Head(line)] = "line"
  BY TailOnce DEF Grant, IInv, LineOK
<1>2. /\ UNCHANGED <<worker, queue, part, acked, errors, next, accepted, result>>
      /\ phase' = [phase EXCEPT ![Head(line)] = "put"]
  BY DEF Grant, Goto, working, outcome
<1>3. /\ \A v \in Uploads : v # Head(line) => phase'[v] = phase[v]
      /\ phase'[Head(line)] = "put"
  BY <1>1, <1>2 DEF IInv, Shapes
<1>4. ASSUME NEW v \in Uploads, phase[v] = "line", phase'[v] = "put" PROVE PartsOK(v)'
  <2>1. Working(v)' = Working(v)
    BY <1>2 DEF Working
  <2> QED
    BY <1>2, <1>4, <2>1, PartsStay DEF Moving
<1> QED
  BY <1>1, <1>2, <1>3, <1>4, PartsRest

\* Another upload is not touched by a step that only updates u.
LEMMA OthersKeepParts ==
    ASSUME IInv, Shapes', NEW u \in Uploads, PartsOK(u)',
           \A v \in Uploads : v # u =>
              UNCHANGED <<worker[v], queue[v], part[v], acked[v], errors[v], next[v], accepted[v],
                          phase[v], result[v]>>
    PROVE  \A v \in Uploads : PartsOK(v)'
BY PartsRest

LEMMA PutKeepsParts ==
    ASSUME IInv, Shapes', NEW u \in Uploads, Put(u)
    PROVE  \A v \in Uploads : PartsOK(v)'
<1>0. /\ phase \in [Uploads -> Phases] /\ queue \in [Uploads -> Seq(0 .. Parts)]
      /\ next \in [Uploads -> 1 .. Parts + 1]
  BY DEF IInv, Shapes
<1>1. /\ UNCHANGED <<result, worker, part, acked, accepted, errors>>
      /\ phase[u] = "put"
      /\ queue' = [queue EXCEPT ![u] = Append(queue[u], next[u])]
      /\ \/ u \in Missing /\ next' = next /\ phase' = [phase EXCEPT ![u] = "stop"]
         \/ /\ u \notin Missing /\ next' = [next EXCEPT ![u] = next[u] + 1]
            /\ \E p \in {"read", "put", "line"} : phase' = [phase EXCEPT ![u] = p]
  BY DEF Put, StopsWorkers, AcquirePart, Goto, working, outcome
<1>2. \A v \in Uploads : v # u => UNCHANGED <<phase[v], queue[v], next[v]>>
  BY <1>0, <1>1
<1>3. queue'[u] = Append(queue[u], next[u]) /\ queue[u] \in Seq(0 .. Parts)
  BY <1>0, <1>1
<1>4. next[u] \in 1 .. Parts /\ (u \in Missing => next[u] = 1)
  BY <1>0, <1>1, Numbers DEF IInv, ProducerOK
<1>5. Handed(u) = IF u \notin Missing THEN 1 .. next[u] - 1 ELSE {}
  BY <1>1 DEF Handed
<1>6. Handed(u)' = Handed(u) \cup {next[u]}
  <2>1. CASE u \in Missing
    <3>1. phase'[u] = "stop"
      BY <1>0, <1>1, <2>1
    <3> QED
      BY <1>4, <1>5, <2>1, <3>1 DEF Handed
  <2>2. CASE u \notin Missing
    <3>1. next'[u] = next[u] + 1
      BY <1>0, <1>1, <2>2
    <3>2. Handed(u)' = 1 .. next[u]
      BY <1>4, <2>2, <3>1 DEF Handed
    <3> QED
      BY <1>4, <1>5, <2>2, <3>2
  <2> QED
    BY <2>1, <2>2
<1>7. next[u] \notin Handed(u)
  BY <1>4, <1>5
<1>8. next[u] \notin OnWay(queue[u], Working(u), part[u])
  BY <1>7, PartsFacts
<1>9. Working(u)' = Working(u) /\ part'[u] = part[u]
  BY <1>1 DEF Working
<1>10. /\ Distinct(queue'[u], Working(u)', part'[u])
       /\ OnWay(queue'[u], Working(u)', part'[u]) = OnWay(queue[u], Working(u), part[u]) \cup {next[u]}
  BY <1>3, <1>4, <1>8, <1>9, PartsFacts, PartQueued
<1>11. OnWay(queue'[u], Working(u)', part'[u]) \subseteq Handed(u)'
  BY <1>6, <1>10, PartsFacts
<1>12. Settled(u)' = Settled(u)
  BY <1>6, <1>7, <1>10 DEF Settled
<1>13. phase'[u] = "stop" => u \in Missing
  BY <1>0, <1>1
<1>14. /\ acked'[u] <= Cardinality(Settled(u)')
       /\ u \notin Missing /\ ~errors'[u] => Settled(u)' \subseteq accepted'[u]
  BY <1>1, <1>12, PartsFacts DEF Moving
<1>15. phase'[u] \in {"stop", "wait"} => u \in Missing
  BY <1>0, <1>1
<1>16. PartsOK(u)'
  BY <1>1, <1>10, <1>11, <1>14, <1>15, PartsGo
<1> QED
  BY <1>1, <1>2, <1>16, OthersKeepParts

LEMMA PutsNoneKeepsParts ==
    ASSUME IInv, Shapes', NEW u \in Uploads, PutsNone(u)
    PROVE  \A v \in Uploads : PartsOK(v)'
<1>0. queue \in [Uploads -> Seq(0 .. Parts)]
  BY DEF IInv, Shapes
<1>1. /\ UNCHANGED <<phase, result, next, worker, part, acked, accepted, errors>>
      /\ phase[u] = "stop"
      /\ queue' = [queue EXCEPT ![u] = Append(queue[u], None)]
  BY DEF PutsNone, working, outcome
<1>2. /\ queue'[u] = Append(queue[u], None) /\ queue[u] \in Seq(0 .. Parts)
      /\ \A v \in Uploads : v # u => queue'[v] = queue[v]
  BY <1>0, <1>1
<1>3. Working(u)' = Working(u) /\ part'[u] = part[u] /\ Handed(u)' = Handed(u)
  BY <1>1 DEF Working, Handed
<1>4. /\ Distinct(queue'[u], Working(u)', part'[u])
      /\ OnWay(queue'[u], Working(u)', part'[u]) = OnWay(queue[u], Working(u), part[u])
  BY <1>2, <1>3, PartsFacts, NoneQueued
<1>5. Settled(u)' = Settled(u)
  BY <1>3, <1>4 DEF Settled
<1>6. PartsOK(u)'
  BY <1>1, <1>3, <1>4, <1>5, PartsFacts, PartsGo
<1> QED
  BY <1>1, <1>2, <1>6, OthersKeepParts

\* The parts that the workers had are lost with them.
LEMMA CancelKeepsParts ==
    ASSUME IInv, Shapes', NEW u \in Uploads,
           NoneTimesOut(u) \/ CleansUp(u) \/ (WorkersStopped(u) /\ CancelsWorkers(u))
    PROVE  \A v \in Uploads : PartsOK(v)'
<1>1. /\ UNCHANGED <<next, queue, acked, accepted, errors>>
      /\ \/ phase[u] = "stop" /\ phase' = [phase EXCEPT ![u] = "wait"]
         \/ \E p \in {"cleanup", "join"} :
               phase[u] \in {"wait", "cleanup"} /\ phase' = [phase EXCEPT ![u] = p]
      /\ CancelsWorkers(u)
  BY DEF NoneTimesOut, CleansUp, WorkersStopped, Goto, outcome
<1>2. /\ \/ phase[u] = "stop" /\ phase'[u] = "wait"
         \/ phase[u] \in {"wait", "cleanup"} /\ phase'[u] \in {"cleanup", "join"}
      /\ \A v \in Uploads : v # u => phase'[v] = phase[v]
  BY <1>1 DEF IInv, Shapes
<1>3. /\ \A v \in Uploads : v # u => UNCHANGED <<worker[v], part[v]>>
      /\ Working(u)' = {}
  BY <1>1, CancelledFacts DEF IInv
<1>4. Handed(u)' = Handed(u)
  BY <1>1, <1>2 DEF Handed
<1>5. /\ Distinct(queue[u], {}, part'[u])
      /\ OnWay(queue[u], {}, part'[u]) \subseteq OnWay(queue[u], Working(u), part[u])
  BY PartsFacts, FewerWorkers
<1>6. /\ Distinct(queue'[u], Working(u)', part'[u])
      /\ OnWay(queue'[u], Working(u)', part'[u]) \subseteq OnWay(queue[u], Working(u), part[u])
  BY <1>1, <1>3, <1>5
<1>7. Settled(u) \subseteq Settled(u)' /\ Settled(u)' \in SUBSET (1 .. Parts)
  BY <1>4, <1>6, PartsFacts DEF Settled
<1>8. acked'[u] <= Cardinality(Settled(u)')
  <2>1. Cardinality(Settled(u)') \in Nat /\ Cardinality(Settled(u)) <= Cardinality(Settled(u)')
    BY <1>7, PartSets
  <2> QED
    BY <1>1, <1>2, <2>1, PartsFacts
<1>9. /\ result'[u] = "file" => result[u] = "file" \/ accepted'[u] = 1 .. Parts
      /\ \A v \in Uploads : v # u => result'[v] = result[v]
  <2>1. CASE NoneTimesOut(u) \/ CleansUp(u)
    BY <2>1 DEF NoneTimesOut, CleansUp
  <2>2. CASE WorkersStopped(u)
    <3>1. /\ phase[u] = "wait" /\ \A v \in Uploads : v # u => result'[v] = result[v]
          /\ result'[u] = "file" => u \notin Missing /\ ~errors[u]
      BY <2>2 DEF WorkersStopped, IInv, Shapes
    <3> QED
      BY <1>1, <3>1, PartsFacts
  <2> QED
    BY <2>1, <2>2
<1>10. OnWay(queue'[u], Working(u)', part'[u]) \subseteq Handed(u)'
  BY <1>4, <1>6, PartsFacts
<1>11. u \notin Missing /\ ~errors'[u] =>
          /\ phase'[u] \in Moving => Settled(u)' \subseteq accepted'[u]
          /\ phase'[u] \in {"stop", "wait"} =>
                \/ ~errors[u] /\ phase[u] \in {"stop", "wait"}
                \/ accepted'[u] = 1 .. Parts
  BY <1>1, <1>2 DEF Moving
<1>12. PartsOK(u)'
  BY <1>1, <1>6, <1>8, <1>9, <1>10, <1>11, PartsGo
<1> QED
  BY <1>1, <1>2, <1>3, <1>9, <1>12, OthersKeepParts

LEMMA CleanupKeepsParts ==
    ASSUME IInv, Shapes', NEW u \in Uploads, Cleanup(u)
    PROVE  \A v \in Uploads : PartsOK(v)'
<1>0. /\ phase \in [Uploads -> Phases] /\ queue \in [Uploads -> Seq(0 .. Parts)]
      /\ next \in [Uploads -> 1 .. Parts + 1]
  BY DEF IInv, Shapes
<1>1. /\ UNCHANGED <<result, worker, part, acked, accepted, errors>> /\ phase[u] = "join"
      /\ phase' = [phase EXCEPT ![u] = "over"]
      /\ queue' = [queue EXCEPT ![u] = <<>>] /\ next' = [next EXCEPT ![u] = 1]
  BY DEF Cleanup, Goto, Vanish, working, outcome
<1>2. /\ phase'[u] = "over" /\ queue'[u] = <<>>
      /\ \A v \in Uploads : v # u => UNCHANGED <<phase[v], queue[v], next[v]>>
  BY <1>0, <1>1
<1>3. Working(u)' = {}
  BY <1>1 DEF Working, Busy, Gone, IInv, WorkersOK
<1>4. OnWay(queue'[u], Working(u)', part'[u]) = {} /\ Distinct(queue'[u], Working(u)', part'[u])
  BY <1>2, <1>3 DEF OnWay, Waiting, Distinct
<1>5. OnWay(queue'[u], Working(u)', part'[u]) \subseteq Handed(u)'
  BY <1>4
<1>6. acked'[u] <= Parts
  BY <1>1, PartsFacts, Numbers
<1>7. result'[u] = "file" => accepted'[u] = 1 .. Parts
  BY <1>1, PartsFacts
<1>8. PartsOK(u)'
  BY <1>2, <1>4, <1>5, <1>6, <1>7 DEF PartsOK
<1> QED
  BY <1>1, <1>2, <1>8, OthersKeepParts

-----------------------------------------------------------------------------
(* The steps of the workers and the parts.                                 *)

LEMMA BusyIsNotOver ==
    ASSUME IInv, NEW u \in Uploads, NEW w \in Workers,
           worker[u][w] \notin Gone \cup {"stopping"}
    PROVE  phase[u] # "over"
BY DEF IInv, WorkersOK

\* A part goes from the queue to a worker.
LEMMA GetKeepsParts ==
    ASSUME IInv, Shapes', NEW u \in Uploads, NEW w \in Workers, Get(u, w)
    PROVE  \A v \in Uploads : PartsOK(v)'
<1>0. /\ queue \in [Uploads -> Seq(0 .. Parts)]
      /\ part \in [Uploads -> [Workers -> 0 .. Parts]] /\ Shapes
  BY DEF IInv, Shapes
<1>1. /\ UNCHANGED <<phase, result, next, acked, accepted, errors>>
      /\ worker[u][w] = "get" /\ queue[u] # <<>>
      /\ queue' = [queue EXCEPT ![u] = Tail(queue[u])]
      /\ \/ Head(queue[u]) = None /\ WorkerGoes(u, w, "ended") /\ part' = part
         \/ /\ Head(queue[u]) # None /\ WorkerGoes(u, w, "send")
            /\ part' = [part EXCEPT ![u][w] = Head(queue[u])]
  BY DEF Get, WorkerGoes, producer, outcome
<1>2. /\ queue'[u] = Tail(queue[u]) /\ queue[u] \in Seq(0 .. Parts)
      /\ \A v \in Uploads : v # u => queue'[v] = queue[v] /\ part'[v] = part[v]
  BY <1>0, <1>1
<1>3. \A v \in Uploads : v # u => worker'[v] = worker[v]
  BY <1>0, <1>1, WorkerGoesFacts
<1>4. phase[u] # "over"
  BY <1>1, BusyIsNotOver DEF Gone
<1>5. /\ Distinct(queue'[u], Working(u)', part'[u])
      /\ OnWay(queue'[u], Working(u)', part'[u]) = OnWay(queue[u], Working(u), part[u])
  <2>1. CASE Head(queue[u]) = None
    <3>1. WorkerGoes(u, w, "ended") /\ part'[u] = part[u]
      BY <1>1, <2>1
    <3>2. \A y \in Workers : worker'[u][y] = IF y = w THEN "ended" ELSE worker[u][y]
      BY <1>0, <3>1, WorkerGoesFacts
    <3>3. Working(u)' = Working(u)
      BY <1>1, <3>2 DEF Working, Busy
    <3> QED
      BY <1>1, <1>2, <2>1, <3>1, <3>3, PartsFacts, NoneTaken
  <2>2. CASE Head(queue[u]) # None
    <3>1. WorkerGoes(u, w, "send") /\ part' = [part EXCEPT ![u][w] = Head(queue[u])]
      BY <1>1, <2>2
    <3>2. \A y \in Workers : worker'[u][y] = IF y = w THEN "send" ELSE worker[u][y]
      BY <1>0, <3>1, WorkerGoesFacts
    <3>3. w \notin Working(u) /\ Working(u)' = Working(u) \cup {w}
      BY <1>1, <3>2 DEF Working, Busy
    <3>4. part'[u][w] = Head(queue[u]) /\ \A v \in Working(u) : part'[u][v] = part[u][v]
      BY <1>0, <3>1, <3>3 DEF Working
    <3>5. Distinct(queue[u], Working(u), part[u]) /\ queue[u] # <<>> /\ queue[u] \in Seq(0 .. Parts)
      BY <1>1, <1>2, PartsFacts
    <3>6. /\ Distinct(Tail(queue[u]), Working(u)', part'[u])
          /\ OnWay(Tail(queue[u]), Working(u)', part'[u]) = OnWay(queue[u], Working(u), part[u])
      BY <2>2, <3>3, <3>4, <3>5, PartTaken
    <3> QED
      BY <1>2, <3>6
  <2> QED
    BY <2>1, <2>2
<1>6. Handed(u)' = Handed(u)
  BY <1>1 DEF Handed
<1>7. Settled(u)' = Settled(u)
  BY <1>5, <1>6 DEF Settled
<1>8. PartsOK(u)'
  BY <1>1, <1>4, <1>5, <1>6, <1>7, PartsFacts, PartsGo
<1> QED
  BY <1>1, <1>2, <1>3, <1>8, OthersKeepParts

\* A worker is done with its part, well or not.
LEMMA OneSettled ==
    ASSUME IInv, NEW u \in Uploads, NEW w \in Workers, worker[u][w] = "send",
           NEW x \in {"get", "ended"}, WorkerGoes(u, w, x),
           \A y \in Workers \ {w} : part'[u][y] = part[u][y], UNCHANGED <<phase, next, queue>>
    PROVE  /\ OnWay(queue'[u], Working(u)', part'[u]) \subseteq Handed(u)'
           /\ Distinct(queue'[u], Working(u)', part'[u])
           /\ Settled(u)' = Settled(u) \cup {part[u][w]}
           /\ Cardinality(Settled(u)') = Cardinality(Settled(u)) + 1
<1>1. \A y \in Workers : worker'[u][y] = IF y = w THEN x ELSE worker[u][y]
  BY WorkerGoesFacts DEF IInv
<1>2. w \in Working(u) /\ Working(u)' = Working(u) \ {w}
  BY <1>1 DEF Working, Busy
<1>3. \A v \in Working(u)' : part'[u][v] = part[u][v]
  <2>1. \A v \in Working(u) \ {w} : part'[u][v] = part[u][v]
    BY DEF Working
  <2> QED
    BY <1>2, <2>1
<1>4. /\ Distinct(queue'[u], Working(u)', part'[u])
      /\ OnWay(queue'[u], Working(u)', part'[u])
            = OnWay(queue[u], Working(u), part[u]) \ {part[u][w]}
  <2>1. Distinct(queue[u], Working(u), part[u])
    BY PartsFacts
  <2>2. Distinct(queue[u], Working(u)', part'[u])
    BY <1>2, <1>3, <2>1 DEF Distinct
  <2>3. OnWay(queue[u], Working(u)', part'[u]) = OnWay(queue[u], Working(u), part[u]) \ {part[u][w]}
    BY <1>2, <1>3, <2>1 DEF OnWay, Distinct
  <2> QED
    BY <2>2, <2>3
<1>5. Handed(u)' = Handed(u)
  BY DEF Handed
<1>6. part[u][w] \in OnWay(queue[u], Working(u), part[u])
  BY <1>2 DEF OnWay
<1>7. part[u][w] \in Handed(u) \ Settled(u)
  BY <1>6, PartsFacts DEF Settled
<1>8. Settled(u)' = Settled(u) \cup {part[u][w]}
  BY <1>4, <1>5, <1>7 DEF Settled
<1>9. Cardinality(Settled(u)') = Cardinality(Settled(u)) + 1
  <2>1. Settled(u) \in SUBSET (1 .. Parts)
    BY PartsFacts
  <2>2. IsFiniteSet(Settled(u))
    BY <2>1, PartSets
  <2> QED
    BY <1>7, <1>8, <2>2, FS_AddElement
<1>10. OnWay(queue'[u], Working(u)', part'[u]) \subseteq Handed(u)'
  BY <1>4, <1>5, PartsFacts
<1> QED
  BY <1>4, <1>8, <1>9, <1>10

LEMMA AckedKeepsParts ==
    ASSUME IInv, Shapes', NEW u \in Uploads, NEW w \in Workers, Acked(u, w)
    PROVE  \A v \in Uploads : PartsOK(v)'
<1>1. /\ UNCHANGED <<phase, result, next, queue, errors>>
      /\ worker[u][w] = "send" /\ WorkerGoes(u, w, "get")
      /\ acked' = [acked EXCEPT ![u] = acked[u] + 1]
      /\ accepted' = [accepted EXCEPT ![u] = accepted[u] \cup {part[u][w]}]
      /\ part' = [part EXCEPT ![u][w] = None]
  BY DEF Acked, Forgets, WorkerGoes, producer
<1>1a. \A y \in Workers \ {w} : part'[u][y] = part[u][y]
  BY <1>1 DEF IInv, Shapes
<1>2. /\ OnWay(queue'[u], Working(u)', part'[u]) \subseteq Handed(u)'
      /\ Distinct(queue'[u], Working(u)', part'[u])
      /\ Settled(u)' = Settled(u) \cup {part[u][w]}
      /\ Cardinality(Settled(u)') = Cardinality(Settled(u)) + 1
  BY <1>1, <1>1a, OneSettled
<1>3. phase[u] # "over"
  BY <1>1, BusyIsNotOver DEF Gone
<1>4. acked'[u] = acked[u] + 1 /\ accepted'[u] = accepted[u] \cup {part[u][w]}
  BY <1>1 DEF IInv, Shapes
<1>5. acked'[u] <= Cardinality(Settled(u)')
  BY <1>2, <1>3, <1>4, PartsFacts
<1>6. PartsOK(u)'
  BY <1>1, <1>2, <1>4, <1>5, PartsFacts, PartsGo
<1>7. \A v \in Uploads : v # u =>
         UNCHANGED <<worker[v], part[v], acked[v], accepted[v]>>
  <2>1. \A v \in Uploads : v # u => worker'[v] = worker[v]
    BY <1>1, WorkerGoesFacts DEF IInv
  <2> QED
    BY <1>1, <2>1 DEF IInv, Shapes
<1> QED
  BY <1>1, <1>6, <1>7, OthersKeepParts

\* The server may have received a part although the attempt failed.
LEMMA MoreAccepted ==
    ASSUME Shapes, NEW u \in Uploads, NEW S,
           \/ accepted' = accepted
           \/ \E got \in {{}, S} : accepted' = [accepted EXCEPT ![u] = accepted[u] \cup got]
    PROVE  accepted[u] \subseteq accepted'[u] /\ \A v \in Uploads : v # u => accepted'[v] = accepted[v]
<1>1. ASSUME NEW got, accepted' = [accepted EXCEPT ![u] = accepted[u] \cup got]
      PROVE  accepted[u] \subseteq accepted'[u] /\ \A v \in Uploads : v # u => accepted'[v] = accepted[v]
  BY <1>1 DEF Shapes
<1> QED
  BY <1>1

\* An error of a worker: its part is given up, and errors says so.
LEMMA GivesUpKeepsParts ==
    ASSUME IInv, Shapes', NEW u \in Uploads, NEW w \in Workers, worker[u][w] = "send",
           GivesUp(u, w), UNCHANGED <<phase, result, next, queue, acked>>,
           \/ accepted' = accepted
           \/ \E got \in {{}, {part[u][w]}} : accepted' = [accepted EXCEPT ![u] = accepted[u] \cup got]
    PROVE  \A v \in Uploads : PartsOK(v)'
<1>1. /\ WorkerGoes(u, w, "ended") /\ errors' = [errors EXCEPT ![u] = TRUE]
      /\ part' = [part EXCEPT ![u][w] = None]
  BY DEF GivesUp, Forgets, WorkerGoes
<1>1a. \A y \in Workers \ {w} : part'[u][y] = part[u][y]
  BY <1>1 DEF IInv, Shapes
<1>2. /\ OnWay(queue'[u], Working(u)', part'[u]) \subseteq Handed(u)'
      /\ Distinct(queue'[u], Working(u)', part'[u])
      /\ Cardinality(Settled(u)') = Cardinality(Settled(u)) + 1
  BY <1>1, <1>1a, OneSettled
<1>3. phase[u] # "over"
  BY BusyIsNotOver DEF Gone
<1>4. accepted[u] \subseteq accepted'[u] /\ \A v \in Uploads : v # u => accepted'[v] = accepted[v]
  BY MoreAccepted DEF IInv
<1>5. errors'[u] /\ \A v \in Uploads : v # u => errors'[v] = errors[v]
  BY <1>1 DEF IInv, Flags
<1>6. acked'[u] <= Cardinality(Settled(u)')
  BY <1>2, <1>3, PartsFacts
<1>7. PartsOK(u)'
  BY <1>2, <1>4, <1>5, <1>6, PartsGo
<1>8. \A v \in Uploads : v # u => UNCHANGED <<worker[v], part[v]>>
  <2>1. \A v \in Uploads : v # u => worker'[v] = worker[v]
    BY <1>1, WorkerGoesFacts DEF IInv
  <2> QED
    BY <1>1, <2>1 DEF IInv, Shapes
<1> QED
  BY <1>4, <1>5, <1>7, <1>8, OthersKeepParts

\* A worker keeps its part, for another attempt.
LEMMA KeepsItsPart ==
    ASSUME IInv, Shapes', NEW u \in Uploads, NEW w \in Workers, worker[u][w] \in Busy,
           NEW x \in Busy, WorkerGoes(u, w, x),
           UNCHANGED <<phase, result, next, queue, part, acked, errors>>,
           \/ accepted' = accepted
           \/ \E got \in {{}, {part[u][w]}} : accepted' = [accepted EXCEPT ![u] = accepted[u] \cup got]
    PROVE  \A v \in Uploads : PartsOK(v)'
<1>1. /\ \A v \in Uploads : v # u => worker'[v] = worker[v]
      /\ \A y \in Workers : worker'[u][y] = IF y = w THEN x ELSE worker[u][y]
  BY WorkerGoesFacts DEF IInv
<1>2. Working(u)' = Working(u)
  BY <1>1 DEF Working
<1>3. accepted[u] \subseteq accepted'[u] /\ \A v \in Uploads : v # u => accepted'[v] = accepted[v]
  BY MoreAccepted DEF IInv
<1>4. PartsOK(u)'
  BY <1>2, <1>3, PartsStay
<1> QED
  BY <1>1, <1>3, <1>4, OthersKeepParts

LEMMA FailKeepsParts ==
    ASSUME IInv, Shapes', NEW u \in Uploads, NEW w \in Workers,
           TransportFails(u, w) \/ Refused(u, w)
    PROVE  \A v \in Uploads : PartsOK(v)'
<1>1. /\ UNCHANGED <<phase, result, next, queue, acked>>
      /\ worker[u][w] = "send"
      /\ \/ accepted' = accepted
         \/ \E got \in {{}, {part[u][w]}} :
                accepted' = [accepted EXCEPT ![u] = accepted[u] \cup got]
      /\ GivesUp(u, w) \/ \E ready : FailsOver(u, w, ready)
  BY DEF TransportFails, Refused, producer
<1>2. ASSUME NEW ready, FailsOver(u, w, ready) PROVE \A v \in Uploads : PartsOK(v)'
  <2>1. PICK x \in {"pause", "restart"} : WorkerGoes(u, w, x)
    <3>1. \E to \in Sessions : \E x \in {"pause", "restart"} :
             /\ session' = [session EXCEPT ![u][w] = to]
             /\ WorkerGoes(u, w, x)
      BY <1>1, <1>2, FailsOverSomewhere
    <3> QED
      BY <3>1
  <2>2. UNCHANGED <<part, errors>> /\ x \in Busy /\ worker[u][w] \in Busy
    BY <1>1, <1>2 DEF FailsOver, Busy
  <2> QED
    BY <1>1, <2>1, <2>2, KeepsItsPart
<1> QED
  BY <1>1, <1>2, GivesUpKeepsParts

\* The finally of a worker: it has no part any more.
LEMMA StopsKeepsParts ==
    ASSUME IInv, Shapes', NEW u \in Uploads, NEW w \in Workers, Stops(u, w)
    PROVE  \A v \in Uploads : PartsOK(v)'
<1>1. /\ UNCHANGED <<phase, result, next, queue, part, acked, errors, accepted>>
      /\ worker[u][w] = "stopping" /\ WorkerGoes(u, w, "cancelled")
  BY DEF Stops, WorkerGoes, producer, outcome
<1>2. /\ \A v \in Uploads : v # u => worker'[v] = worker[v]
      /\ \A y \in Workers : worker'[u][y] = IF y = w THEN "cancelled" ELSE worker[u][y]
  BY <1>1, WorkerGoesFacts DEF IInv
<1>3. Working(u)' = Working(u)
  BY <1>1, <1>2 DEF Working, Busy
<1>4. PartsOK(u)'
  BY <1>1, <1>3, PartsStay
<1> QED
  BY <1>1, <1>2, <1>4, OthersKeepParts

LEMMA LinkKeepsParts ==
    ASSUME IInv, Shapes',
           \/ \E u \in Uploads, w \in Workers : Restarted(u, w) \/ SendsAgain(u, w)
           \/ \E s \in Sessions : LinkLost(s) \/ Reconnected(s)
    PROVE  \A v \in Uploads : PartsOK(v)'
<1>1. UNCHANGED <<phase, result, next, queue, part, acked, errors, accepted>>
  BY DEF Restarted, SendsAgain, LinkLost, Reconnected, producer, working, outcome
<1>2. ASSUME NEW u \in Uploads, NEW w \in Workers, Restarted(u, w) \/ SendsAgain(u, w)
      PROVE  \A v \in Uploads : PartsOK(v)'
  <2>1. worker[u][w] \in Busy /\ \E x \in Busy : WorkerGoes(u, w, x)
    BY <1>2 DEF Restarted, SendsAgain, WorkerGoes, Busy
  <2> QED
    BY <1>1, <2>1, KeepsItsPart
<1>3. ASSUME NEW s \in Sessions, LinkLost(s) \/ Reconnected(s)
      PROVE  \A v \in Uploads : PartsOK(v)'
  <2>1. worker' = worker
    BY <1>3 DEF LinkLost, Reconnected, working
  <2> QED
    BY <1>1, <2>1, PartsRest
<1> QED
  BY <1>2, <1>3

LEMMA PartsKept ==
    ASSUME IInv, Shapes', [Next]_vars
    PROVE  \A v \in Uploads : PartsOK(v)'
<1>1. CASE UNCHANGED vars
  <2>1. UNCHANGED <<worker, queue, part, acked, errors, next, accepted, phase, result>>
    BY <1>1 DEF vars, producer, working, outcome
  <2> QED
    BY <2>1, PartsRest
<1>2. ASSUME NEW u \in Uploads,
             \/ Produce(u) \/ PutTimesOut(u) \/ DrainStalls(u) \/ Cancel(u)
             \/ CancelCleanup(u) \/ Grows(u)
      PROVE  \A v \in Uploads : PartsOK(v)'
  BY <1>2, OnwardKeepsParts, PutKeepsParts, PutsNoneKeepsParts, CancelKeepsParts,
     CleanupKeepsParts DEF Produce, WorkersStopped
<1>3. ASSUME NEW u \in Uploads, NEW w \in Workers,
             Work(u, w) \/ TransportFails(u, w) \/ Refused(u, w)
      PROVE  \A v \in Uploads : PartsOK(v)'
  BY <1>3, GetKeepsParts, AckedKeepsParts, FailKeepsParts, LinkKeepsParts, StopsKeepsParts DEF Work
<1> QED
  BY <1>1, <1>2, <1>3, GrantKeepsParts, LinkKeepsParts DEF Next

-----------------------------------------------------------------------------
(* The theorems.                                                           *)

LEMMA IInvAtInit == Init => IInv
<1> SUFFICES ASSUME Init PROVE IInv
  OBVIOUS
<1>1. /\ Parts \in Nat \ {0} /\ Slots \in Nat /\ QueueSize \in Nat /\ 1 \in 1 .. Retries
      /\ \A w \in Workers : w[1] \in Sessions
      /\ lent \in 0 .. Slots
  BY Numbers, UploadParameters DEF Init
<1>2. Shapes
  <2>1. /\ phase \in [Uploads -> Phases] /\ result \in [Uploads -> Results]
        /\ next \in [Uploads -> 1 .. Parts + 1] /\ nones \in [Uploads -> Nat]
        /\ acked \in [Uploads -> Nat] /\ accepted \in [Uploads -> SUBSET (1 .. Parts)]
        /\ up \in [Sessions -> BOOLEAN]
    BY <1>1 DEF Init, Phases, Results
  <2>2. queue \in [Uploads -> Seq(0 .. Parts)] /\ \A u \in Uploads : Len(queue[u]) <= QueueSize
    BY <1>1, EmptySeq DEF Init
  <2>3. /\ worker \in [Uploads -> [Workers -> WorkerStates]]
        /\ part \in [Uploads -> [Workers -> 0 .. Parts]]
    BY <1>1 DEF Init, WorkerStates, Gone, None
  <2>4. /\ attempt \in [Uploads -> [Workers -> 1 .. Retries]]
        /\ session \in [Uploads -> [Workers -> Sessions]]
    BY <1>1 DEF Init
  <2> QED
    BY <2>1, <2>2, <2>3, <2>4 DEF Shapes
<1>3. SlotsOK
  <2>1. held \in [Uploads -> 0 .. Slots] /\ \A u \in Uploads : held[u] = 0
    BY <1>1 DEF Init
  <2>2. Cardinality(Holdings) = 0
    BY <2>1, HoldingsAreTokens, TokensOfNobody, <1>1
  <2> QED
    BY <1>1, <2>1, <2>2 DEF Init, SlotsOK
<1>4. LineOK
  BY EmptySeq DEF Init, LineOK
<1>5. ASSUME NEW u \in Uploads PROVE ProducerOK(u) /\ WorkersOK(u) /\ PartsOK(u)
  <2>1. /\ phase[u] = "begin" /\ next[u] = 1 /\ ~growth[u] /\ queue[u] = <<>>
        /\ acked[u] = 0 /\ accepted[u] = {} /\ result[u] = "none"
        /\ \A w \in Workers : worker[u][w] = "none"
    BY DEF Init
  <2>2. Working(u) = {}
    BY <2>1 DEF Working, Busy
  <2>3. ProducerOK(u) /\ WorkersOK(u)
    BY <2>1, Numbers DEF Gone, ProducerOK, WorkersOK
  <2>4. Handed(u) = {}
    BY <2>1 DEF Handed
  <2>5. OnWay(queue[u], Working(u), part[u]) = {} /\ Distinct(queue[u], Working(u), part[u])
    BY <2>1, <2>2 DEF OnWay, Waiting, Distinct
  <2>6. Settled(u) = {} /\ Cardinality(Settled(u)) = 0
    BY <2>4, FS_EmptySet DEF Settled
  <2>7. PartsOK(u)
    BY <1>1, <2>1, <2>4, <2>5, <2>6 DEF PartsOK
  <2> QED
    BY <2>3, <2>7
<1>6. Flags
  BY DEF Init, Flags
<1> QED
  BY <1>2, <1>3, <1>4, <1>5, <1>6 DEF IInv

LEMMA IInvKept == IInv /\ [Next]_vars => IInv'
<1> SUFFICES ASSUME IInv, [Next]_vars PROVE IInv'
  OBVIOUS
<1>1. Shapes'
  BY ShapesKept
<1>2. phase' \in [Uploads -> Phases]
  BY <1>1 DEF Shapes
<1> QED
  BY <1>1, <1>2, FlagsKept, SlotsKept, LineKept, ProducersKept, WorkersKept, PartsKept DEF IInv

LEMMA Invariant == Spec => []IInv
BY IInvAtInit, IInvKept, PTL DEF Spec

\* A slot of read_ahead_slots is free, lent, or held by one upload: budget.acquire()
\* and release() of however many parts and workers lose none and make none.
THEOREM SlotsConservedAlways == Spec => []SlotsConserved
<1>1. ASSUME IInv PROVE SlotsConserved
  <2>1. acked \in [Uploads -> 0 .. Parts]
    BY <1>1, PartsFacts DEF IInv, Shapes
  <2>2. free \in 0 .. Slots
    <3>1. Cardinality(Holdings) \in Nat
      BY <1>1, HoldingsAreTokens, TokensFinite, UploadParameters DEF IInv, SlotsOK
    <3> QED
      BY <1>1, <3>1, Numbers DEF IInv, SlotsOK
  <2> QED
    BY <1>1, <2>1, <2>2 DEF SlotsConserved, TypeOK, IInv, Shapes, SlotsOK, Phases, Results,
                            WorkerStates
<1> QED
  BY <1>1, Invariant, PTL

\* An InputFile is returned only of a file that the server has whole: no part is
\* counted twice, so as many acknowledgements as parts are those of all parts.
THEOREM FileIsCompleteAlways == Spec => []FileIsComplete
<1>1. ASSUME IInv PROVE FileIsComplete
  BY <1>1 DEF FileIsComplete, IInv, PartsOK
<1> QED
  BY <1>1, Invariant, PTL

\* A connection is taken down by its own failure, or by a part that was sent over
\* it: never by the late failure of a part that was sent over an older one.
THEOREM FreshStaysUpAlways == Spec => FreshStaysUp
<1> DEFINE Fresh == \A s \in Sessions : up[s] /\ ~up'[s] =>
              \/ LinkLost(s)
              \/ \E u \in Uploads, w \in Workers :
                    worker[u][w] = "send" /\ session[u][w] = s /\ ~stale[u][w]
<1>1. ASSUME IInv, [Next]_vars PROVE Fresh
  <2>0. up \in [Sessions -> BOOLEAN]
    BY <1>1 DEF IInv, Shapes
  <2>1. SUFFICES ASSUME NEW s \in Sessions, up[s], ~up'[s]
                 PROVE  \/ LinkLost(s)
                        \/ \E u \in Uploads, w \in Workers :
                              worker[u][w] = "send" /\ session[u][w] = s /\ ~stale[u][w]
    OBVIOUS
  <2>2. CASE \E r \in Sessions : LinkLost(r)
    BY <2>0, <2>1, <2>2 DEF LinkLost
  <2>3. ASSUME NEW u \in Uploads, NEW w \in Workers, TransportFails(u, w)
        PROVE  worker[u][w] = "send" /\ session[u][w] = s /\ ~stale[u][w]
    <3>1. worker[u][w] = "send" /\ (up' = up \/ up' = Quarantined(u, w))
      BY <2>3 DEF TransportFails
    <3>2. up' = Quarantined(u, w)
      BY <2>1, <3>1
    <3>3. session[u][w] = s /\ ~stale[u][w]
      BY <2>0, <2>1, <3>2 DEF Quarantined
    <3> QED
      BY <3>1, <3>3
  <2>4. ASSUME \/ \E u \in Uploads, w \in Workers : Restarted(u, w)
               \/ \E r \in Sessions : Reconnected(r)
        PROVE  FALSE
    <3>1. up' = up \/ \E r : up' = [up EXCEPT ![r] = TRUE]
      BY <2>4 DEF Restarted, Reconnected, Connects
    <3> QED
      BY <2>0, <2>1, <3>1
  <2>5. ASSUME NEW u \in Uploads,
               \/ Produce(u) \/ PutTimesOut(u) \/ DrainStalls(u) \/ Cancel(u)
             \/ CancelCleanup(u) \/ Grows(u)
               \/ \E w \in Workers : Get(u, w) \/ Acked(u, w) \/ SendsAgain(u, w) \/ Stops(u, w) \/ Refused(u, w)
        PROVE  FALSE
    <3>1. up' = up
      BY <2>5 DEF Produce, Begin, Read, Put, Drained, PutsNone, AllPut, NoneTimesOut, WorkersStopped,
                  CleansUp, Cleanup, CancelCleanup, PutTimesOut, DrainStalls, Cancel, Grows, Get,
                  Acked, SendsAgain, Stops, Refused
    <3> QED
      BY <2>1, <3>1
  <2>6. CASE Grant \/ UNCHANGED vars
    <3>1. up' = up
      BY <2>6 DEF Grant, vars
    <3> QED
      BY <2>1, <3>1
  <2> QED
    BY <1>1, <2>2, <2>3, <2>4, <2>5, <2>6 DEF Next, Work
<1>2. Spec => [][Fresh]_vars
  BY <1>1, Invariant, PTL DEF Spec
<1> QED
  BY <1>2 DEF FreshStaysUp
=============================================================================
