--------------------------- MODULE MediaPoolProofs ---------------------------
(***************************************************************************)
(* The pooled media sessions, for every number of builders, of transfers,  *)
(* of sessions and faults, and every size of the pool.                     *)
(***************************************************************************)
EXTENDS MediaPool, SequenceTheorems, FiniteSetTheorems, TLAPS

-----------------------------------------------------------------------------
(* The inductive invariant.                                                *)

LineTyped == line \in Seq({line[i] : i \in DOMAIN line})

Shapes ==
    /\ mine \in [Builders -> SUBSET Sessions]
    /\ making \in [Builders -> SUBSET Sessions]
    /\ left \in [Builders \cup {Reaper, Owner} -> SUBSET Sessions]
    /\ keep \in SUBSET Sessions
    /\ outlived \in SUBSET Sessions
    /\ LineTyped

\* terminate() stops the sessions of the pool, or has done it.
Closed == term \in {"stop", "over"}

\* Not connected, and no transfer can restart it.
Forgotten(s) == life[s] \notin Live /\ s \notin Taken

\* What is left of a list after the task that had it is gone.
HandsOK ==
    /\ ~Closed => detached = {}
    /\ \A b \in Builders :
          /\ builder[b] \notin {"grow", "ends"} => making[b] = {}
          /\ builder[b] \notin {"sort", "grow", "ends"} => mine[b] = {}
          /\ builder[b] # "sort" => left[b] = {}
    /\ reaper # "reap" => keep = {} /\ left[Reaper] = {}

\* The pool may be replaced by S: it has nothing else that is connected.
Covers(S) ==
    /\ S \subseteq pool
    /\ \A s \in pool : s \in S \cup outlived \/ Forgotten(s)

BuilderOK(b) ==
    /\ builder[b] = "sort" => Covers(mine[b] \cup left[b])
    /\ builder[b] \in {"grow", "ends"} =>
          /\ Covers(mine[b])
          /\ kind = "upload" => pool = mine[b]
          /\ IsFiniteSet(Made(b)) /\ Cardinality(Made(b)) <= Size
    /\ \A s \in making[b] : /\ life[s] = "starting"
                            /\ s \notin pool \cup mine[b] \cup Taken

ReaperOK == reaper = "reap" => Covers(keep \cup left[Reaper])

\* Whatever is connected, or may be again, is in a list.
Owned ==
    \A s \in Sessions :
        Forgotten(s) \/ s \in pool \cup outlived \/ \E b \in Builders : s \in Made(b)

PoolOK ==
    /\ Cardinality(pool) <= Size
    /\ \A b \in Builders : BuilderOK(b)
    /\ ReaperOK
    /\ Owned

IInv == TypeOK /\ Shapes /\ HandsOK /\ (~Closed => PoolOK)

-----------------------------------------------------------------------------
(* The line.                                                               *)

LEMMA OwnElements ==
    ASSUME NEW S, NEW s \in Seq(S)
    PROVE  s \in Seq({s[i] : i \in DOMAIN s})
<1>1. Len(s) \in Nat /\ DOMAIN s = 1 .. Len(s) /\ s \in [1 .. Len(s) -> S]
  BY LenProperties
<1>2. s \in [1 .. Len(s) -> {s[i] : i \in DOMAIN s}]
  BY <1>1
<1> QED
  BY <1>1, <1>2, SeqDef

\* A task that joins comes after the one that has the lock.
LEMMA AppendKeepsHead ==
    ASSUME NEW S, NEW s \in Seq(S), NEW a
    PROVE  /\ Append(s, a) \in Seq({Append(s, a)[i] : i \in DOMAIN Append(s, a)})
           /\ Len(s) > 0 => Len(Append(s, a)) > 0 /\ Append(s, a)[1] = s[1]
<1> DEFINE t == Append(s, a)
<1>1. s \in Seq(S \cup {a}) /\ Len(s) \in Nat
  BY LenProperties, SeqDef
<1>2. t \in Seq(S \cup {a}) /\ Len(t) = Len(s) + 1
  BY <1>1, AppendProperties
<1>3. \A i \in 1 .. Len(s) : t[i] = s[i]
  BY <1>1, AppendProperties
<1>4. t \in Seq({t[i] : i \in DOMAIN t})
  <2> HIDE DEF t
  <2> QED
    BY <1>2, OwnElements
<1>5. Len(s) > 0 => Len(t) > 0 /\ t[1] = s[1]
  <2> HIDE DEF t
  <2> QED
    BY <1>1, <1>2, <1>3
<1> QED
  BY <1>4, <1>5

LEMMA TailTyped ==
    ASSUME NEW S, NEW s \in Seq(S), Len(s) > 0
    PROVE  Tail(s) \in Seq({Tail(s)[i] : i \in DOMAIN Tail(s)})
<1>1. s # <<>>
  BY EmptySeq
<1>2. Tail(s) \in Seq(S)
  BY <1>1, HeadTailProperties
<1> QED
  BY <1>2, OwnElements

\* Whoever leaves, the one that has the lock keeps it unless it leaves too.
LEMMA WithoutKeepsHead ==
    ASSUME NEW S, line \in Seq(S), NEW gone
    PROVE  /\ Without(gone) \in Seq({Without(gone)[i] : i \in DOMAIN Without(gone)})
           /\ Len(line) > 0 /\ line[1] \notin gone =>
                 Len(Without(gone)) > 0 /\ Without(gone)[1] = line[1]
<1> DEFINE stay == {i \in DOMAIN line : line[i] \notin gone}
           Place(i) == Cardinality({j \in stay : j <= i})
           k == Cardinality(stay)
           e(n) == line[CHOOSE i \in stay : Place(i) = n]
           t == Without(gone)
<1>1. Len(line) \in Nat /\ DOMAIN line = 1 .. Len(line)
  BY LenProperties
<1>2. IsFiniteSet(stay) /\ k \in Nat
  <2>1. IsFiniteSet(1 .. Len(line))
    BY <1>1, FS_Interval
  <2>2. stay \in SUBSET (1 .. Len(line))
    BY <1>1
  <2>3. IsFiniteSet(stay)
    BY <2>1, <2>2, FS_Subset
  <2> QED
    BY <2>3, FS_CardinalityType
<1>3. t = [n \in 1 .. k |-> e(n)]
  BY DEF Without
<1>4. t \in Seq({t[i] : i \in DOMAIN t}) /\ Len(t) = k
  <2> DEFINE R == {t[i] : i \in DOMAIN t}
  <2> HIDE DEF k, e, t
  <2>1. t \in [1 .. k -> R]
    BY <1>3
  <2> HIDE DEF R
  <2>2. t \in Seq(R) /\ DOMAIN t = 1 .. k
    BY <1>2, <2>1, SeqDef
  <2>3. Len(t) = k
    BY <1>2, <2>2, LenProperties
  <2> QED
    BY <2>2, <2>3 DEF R
<1>5. ASSUME Len(line) > 0, line[1] \notin gone
      PROVE  Len(t) > 0 /\ t[1] = line[1]
  <2>1. 1 \in stay /\ \A j \in stay : j \in Nat /\ 1 <= j
    BY <1>1, <1>5
  <2>2. k # 0
    BY <1>2, <2>1, FS_EmptySet
  <2>3. Place(1) = 1
    <3>1. {j \in stay : j <= 1} = {1}
      BY <2>1
    <3> QED
      BY <3>1, FS_Singleton
  <2>4. ASSUME NEW i \in stay, i # 1 PROVE Place(i) # 1
    <3> DEFINE T == {j \in stay : j <= i}
    <3>1. 1 \in T /\ i \in T
      BY <2>1
    <3>2. T \in SUBSET stay
      OBVIOUS
    <3>3. IsFiniteSet(T)
      BY <1>2, <3>2, FS_Subset
    <3> HIDE DEF T
    <3>4. Cardinality(T) # 1
      <4>1. SUFFICES ASSUME Cardinality(T) = 1 PROVE FALSE
        OBVIOUS
      <4>2. PICK x : T = {x}
        BY <3>3, <4>1, FS_Singleton
      <4> QED
        BY <2>4, <3>1, <4>2
    <3> QED
      BY <3>4 DEF T
  <2>5. (CHOOSE i \in stay : Place(i) = 1) = 1
    <3> HIDE DEF stay, Place
    <3> QED
      BY <2>1, <2>3, <2>4
  <2>6. e(1) = line[1]
    BY <2>5
  <2>7. 1 \in 1 .. k
    BY <1>2, <2>2
  <2>8. t[1] = e(1)
    <3> HIDE DEF k, e, t
    <3> QED
      BY <1>3, <2>7
  <2> QED
    BY <1>2, <1>4, <2>2, <2>6, <2>8
<1> QED
  BY <1>4, <1>5

\* The three ways in which the line changes.
LEMMA Joins ==
    ASSUME LineTyped, NEW a, line' = Append(line, a)
    PROVE  LineTyped' /\ \A z : Holds(z) => Holds(z)'
<1>1. /\ Append(line, a) \in Seq({Append(line, a)[i] : i \in DOMAIN Append(line, a)})
      /\ Len(line) > 0 => Len(Append(line, a)) > 0 /\ Append(line, a)[1] = line[1]
  BY AppendKeepsHead DEF LineTyped
<1> QED
  BY <1>1 DEF LineTyped, Holds

LEMMA Unlocks ==
    ASSUME LineTyped, NEW a, Holds(a), line' = Tail(line)
    PROVE  LineTyped'
<1>1. Tail(line) \in Seq({Tail(line)[i] : i \in DOMAIN Tail(line)})
  BY TailTyped DEF LineTyped, Holds
<1> QED
  BY <1>1 DEF LineTyped

LEMMA Departs ==
    ASSUME LineTyped, NEW gone, line' = Without(gone)
    PROVE  LineTyped' /\ \A z : Holds(z) /\ z \notin gone => Holds(z)'
<1>1. /\ Without(gone) \in Seq({Without(gone)[i] : i \in DOMAIN Without(gone)})
      /\ Len(line) > 0 /\ line[1] \notin gone =>
            Len(Without(gone)) > 0 /\ Without(gone)[1] = line[1]
  BY WithoutKeepsHead DEF LineTyped
<1> QED
  BY <1>1 DEF LineTyped, Holds

LEMMA Stays ==
    ASSUME line' = line
    PROVE  (LineTyped => LineTyped') /\ \A z : Holds(z) <=> Holds(z)'
BY DEF LineTyped, Holds

\* One task has the lock: a builder that sorts, grows or ends, or the reaper.
LEMMA OneHolder ==
    ASSUME TypeOK, NEW b \in Builders, builder[b] \in {"sort", "grow", "ends"}
    PROVE  /\ \A c \in Builders : builder[c] \in {"sort", "grow", "ends"} => c = b
           /\ reaper # "reap"
BY MediaPoolParameters DEF TypeOK, Holds

LEMMA ReaperHolds ==
    ASSUME TypeOK, reaper = "reap"
    PROVE  \A c \in Builders : builder[c] \notin {"sort", "grow", "ends"}
BY MediaPoolParameters DEF TypeOK, Holds

-----------------------------------------------------------------------------
(* Types.                                                                  *)

Types == TypeOK /\ Shapes

LEMMA TypesInit == Init => Types
<1> SUFFICES ASSUME Init PROVE Types
  OBVIOUS
<1>1. LineTyped
  <2>1. <<>> \in Seq({})
    OBVIOUS
  <2> QED
    BY <2>1, OwnElements DEF Init, LineTyped
<1>2. TypeOK
  BY MediaPoolParameters DEF Init, TypeOK, Live
<1> QED
  BY <1>1, <1>2 DEF Init, Types, Shapes

LEMMA TypesOfBuilders ==
    ASSUME Types, HandsOK, NEW b \in Builders,
           \/ Calls(b) \/ Build(b) \/ GrowFails(b) \/ Cancel(b)
           \/ \E s \in Sessions : Started(b, s) \/ StartFails(b, s) \/ Undone(b, s)
    PROVE  Types'
<1> USE MediaPoolParameters DEF Types, TypeOK, Shapes, Live, building, reaping, using, closing
<1>1. CASE Calls(b)
  <2>1. LineTyped' /\ \A z : Holds(z) => Holds(z)'
    BY <1>1, Joins DEF Calls
  <2> QED
    BY <1>1, <2>1 DEF Calls, EnsureReaper
<1>2. CASE Locked(b)
  <2>1. LineTyped' /\ \A z : Holds(z) <=> Holds(z)'
    BY <1>2, Stays DEF Locked
  <2> QED
    BY <1>2, <2>1 DEF Locked
<1>3. CASE DropsDead(b)
  <2>1. LineTyped' /\ \A z : Holds(z) <=> Holds(z)'
    BY <1>3, Stays DEF DropsDead
  <2> QED
    BY <1>3, <2>1 DEF DropsDead, Stop, Touched
<1>4. CASE Sorted(b)
  <2>1. LineTyped'
    BY <1>4, Unlocks DEF Sorted, Leaves
  <2>2. /\ \A c \in Builders : builder[c] \in {"sort", "grow", "ends"} => c = b
        /\ reaper # "reap"
    BY <1>4, OneHolder DEF Sorted
  <2> QED
    BY <1>4, <2>1, <2>2 DEF Sorted, Leaves, Touched, EnsureReaper
<1>5. CASE Grows(b)
  <2>1. LineTyped' /\ \A z : Holds(z) <=> Holds(z)'
    BY <1>5, Stays DEF Grows
  <2> DEFINE news == Unused(Needed(mine[b] \cup left[b]))
  <2>2. news \in SUBSET Sessions
    BY DEF Unused
  <2> HIDE DEF news
  <2> QED
    BY <1>5, <2>1, <2>2 DEF Grows, Touched, news
<1>6. CASE Grown(b)
  <2>1. LineTyped'
    BY <1>6, Unlocks DEF Grown, Leaves
  <2>2. /\ \A c \in Builders : builder[c] \in {"sort", "grow", "ends"} => c = b
        /\ reaper # "reap"
    BY <1>6, OneHolder DEF Grown
  <2> QED
    BY <1>6, <2>1, <2>2 DEF Grown, Leaves, EnsureReaper
<1>7. CASE GrowFails(b)
  <2>1. LineTyped'
    BY <1>7, Unlocks DEF GrowFails, Leaves
  <2>2. /\ \A c \in Builders : builder[c] \in {"sort", "grow", "ends"} => c = b
        /\ reaper # "reap"
    BY <1>7, OneHolder DEF GrowFails
  <2> QED
    BY <1>7, <2>1, <2>2 DEF GrowFails, Leaves, Touched
<1>8. CASE Cancel(b)
  <2>1. CASE builder[b] \in {"line", "sort"}
    <3>1. LineTyped' /\ \A z : Holds(z) /\ z \notin {b} => Holds(z)'
      BY <1>8, <2>1, Departs DEF Cancel
    <3> QED
      BY <1>8, <2>1, <3>1 DEF Cancel
  <2>2. CASE builder[b] = "grow"
    <3>1. LineTyped' /\ \A z : Holds(z) <=> Holds(z)'
      BY <1>8, <2>2, Stays DEF Cancel
    <3> QED
      BY <1>8, <2>2, <3>1 DEF Cancel
  <2> QED
    BY <1>8, <2>1, <2>2 DEF Cancel
<1>9. ASSUME NEW s \in Sessions, Started(b, s) PROVE Types'
  <2>1. LineTyped' /\ \A z : Holds(z) <=> Holds(z)'
    BY <1>9, Stays DEF Started
  <2> QED
    BY <1>9, <2>1 DEF Started
<1>10. ASSUME NEW s \in Sessions, StartFails(b, s) PROVE Types'
  <2>1. LineTyped' /\ \A z : Holds(z) <=> Holds(z)'
    BY <1>10, Stays DEF StartFails
  <2> QED
    BY <1>10, <2>1 DEF StartFails
<1>11. ASSUME NEW s \in Sessions, Undone(b, s) PROVE Types'
  <2>1. LineTyped' /\ \A z : Holds(z) <=> Holds(z)'
    BY <1>11, Stays DEF Undone
  <2> QED
    BY <1>11, <2>1 DEF Undone
<1>12. CASE Ends(b)
  <2>1. LineTyped'
    BY <1>12, Unlocks DEF Ends, Leaves
  <2>2. /\ \A c \in Builders : builder[c] \in {"sort", "grow", "ends"} => c = b
        /\ reaper # "reap"
    BY <1>12, OneHolder DEF Ends
  <2> QED
    BY <1>12, <2>1, <2>2 DEF Ends, Leaves
<1> QED
  BY <1>1, <1>2, <1>3, <1>4, <1>5, <1>6, <1>7, <1>8, <1>9, <1>10, <1>11, <1>12 DEF Build

LEMMA TypesOfReaper ==
    ASSUME Types, Reap
    PROVE  Types'
<1> USE MediaPoolParameters DEF Types, TypeOK, Shapes, Live, building, reaping, using, closing
<1>1. CASE Wakes
  <2>1. LineTyped' /\ \A z : Holds(z) => Holds(z)'
    BY <1>1, Joins DEF Wakes
  <2> QED
    BY <1>1, <2>1 DEF Wakes
<1>2. CASE Looks
  <2>1. LineTyped' /\ \A z : Holds(z) <=> Holds(z)'
    BY <1>2, Stays DEF Looks
  <2> QED
    BY <1>2, <2>1 DEF Looks
<1>3. CASE Reaps
  <2>1. LineTyped' /\ \A z : Holds(z) <=> Holds(z)'
    BY <1>3, Stays DEF Reaps
  <2> QED
    BY <1>3, <2>1 DEF Reaps, Stop
<1>4. CASE Reaped
  <2>1. LineTyped'
    BY <1>4, Unlocks DEF Reaped
  <2>2. \A c \in Builders : builder[c] \notin {"sort", "grow", "ends"}
    BY <1>4, ReaperHolds DEF Reaped
  <2> QED
    BY <1>4, <2>1, <2>2 DEF Reaped
<1>5. CASE ReaperEnds
  <2>1. LineTyped' /\ \A z : Holds(z) <=> Holds(z)'
    BY <1>5, Stays DEF ReaperEnds
  <2> QED
    BY <1>5, <2>1 DEF ReaperEnds
<1> QED
  BY <1>1, <1>2, <1>3, <1>4, <1>5 DEF Reap

LEMMA TypesOfTransfers ==
    ASSUME Types, NEW x \in Transfers,
           \/ Invokes(x) \/ Answered(x) \/ Finishes(x)
           \/ \E s \in Sessions : Takes(x, s)
    PROVE  Types'
<1> USE DEF Types, TypeOK, Shapes, Live, building, reaping, using, closing
<1>1. LineTyped' /\ \A z : Holds(z) <=> Holds(z)'
  BY Stays DEF Invokes, Answered, Finishes, Takes
<1>2. CASE Invokes(x)
  BY <1>1, <1>2 DEF Invokes
<1>3. CASE Answered(x) \/ Finishes(x)
  BY <1>1, <1>3 DEF Answered, Finishes
<1>4. ASSUME NEW s \in Sessions, Takes(x, s) PROVE Types'
  BY <1>1, <1>4 DEF Takes
<1> QED
  BY <1>2, <1>3, <1>4

LEMMA TypesOfSessions ==
    ASSUME Types, NEW s \in Sessions,
           LinkLost(s) \/ Restarts(s) \/ RestartFails(s) \/ Idles(s)
    PROVE  Types'
<1> USE DEF Types, TypeOK, Shapes, Live, building, reaping, using, closing
<1>1. LineTyped' /\ \A z : Holds(z) <=> Holds(z)'
  BY Stays DEF LinkLost, Restarts, RestartFails, Idles, SessionOnly
<1> QED
  BY <1>1 DEF LinkLost, Restarts, RestartFails, Idles, SessionOnly

LEMMA TypesOfTerminate ==
    ASSUME Types, TermBegins \/ Terminates
    PROVE  Types'
<1> USE MediaPoolParameters DEF Types, TypeOK, Shapes, Live, building, reaping, using, closing
<1>1. CASE TermBegins
  <2> DEFINE gone == {b \in Registered : builder[b] \in {"line", "sort"}}
  <2>1. LineTyped' /\ \A z : Holds(z) /\ z \notin gone => Holds(z)'
    BY <1>1, Departs DEF TermBegins
  <2>2. Reaper \notin gone
    OBVIOUS
  <2> QED
    BY <1>1, <2>1, <2>2 DEF TermBegins
<1>2. CASE TermTells
  <2>1. LineTyped' /\ \A z : Holds(z) <=> Holds(z)'
    BY <1>2, Stays DEF TermTells
  <2> QED
    BY <1>2, <2>1 DEF TermTells
<1>3. CASE TermGoesOn
  <2>1. LineTyped' /\ \A z : Holds(z) <=> Holds(z)'
    BY <1>3, Stays DEF TermGoesOn
  <2> QED
    BY <1>3, <2>1 DEF TermGoesOn
<1>4. CASE TermStops
  <2>1. LineTyped' /\ \A z : Holds(z) <=> Holds(z)'
    BY <1>4, Stays DEF TermStops
  <2> QED
    BY <1>4, <2>1 DEF TermStops, Stop
<1>5. CASE TermEnds
  <2>1. LineTyped' /\ \A z : Holds(z) <=> Holds(z)'
    BY <1>5, Stays DEF TermEnds
  <2> QED
    BY <1>5, <2>1 DEF TermEnds
<1> QED
  BY <1>1, <1>2, <1>3, <1>4, <1>5 DEF Terminates

-----------------------------------------------------------------------------
(* Lists of tasks that are gone.                                           *)

LEMMA HandsStep ==
    ASSUME Types, HandsOK, Next
    PROVE  HandsOK'
<1> USE MediaPoolParameters DEF Types, TypeOK, Shapes, HandsOK, Closed, building, reaping, using, closing
<1>1. ASSUME NEW b \in Builders,
             Calls(b) \/ Build(b) \/ GrowFails(b) \/ Cancel(b)
      PROVE  HandsOK'
  <2>1. CASE Calls(b) \/ Locked(b) \/ DropsDead(b)
    <3>1. CASE Calls(b)
      BY <3>1 DEF Calls, EnsureReaper
    <3>2. CASE Locked(b)
      BY <3>2 DEF Locked
    <3>3. CASE DropsDead(b)
      BY <3>3 DEF DropsDead
    <3> QED
      BY <2>1, <3>1, <3>2, <3>3
  <2>2. CASE Sorted(b)
    BY <2>2 DEF Sorted, Leaves, EnsureReaper
  <2>3. CASE Grows(b)
    <3> DEFINE news == Unused(Needed(mine[b] \cup left[b]))
    <3> HIDE DEF news
    <3> QED
      BY <2>3 DEF Grows, news
  <2>4. CASE Grown(b)
    BY <2>4 DEF Grown, Leaves, EnsureReaper
  <2>5. CASE GrowFails(b)
    BY <2>5 DEF GrowFails, Leaves
  <2>6. CASE Cancel(b)
    BY <2>6 DEF Cancel
  <2>7. CASE Ends(b)
    BY <2>7 DEF Ends, Leaves
  <2> QED
    BY <1>1, <2>1, <2>2, <2>3, <2>4, <2>5, <2>6, <2>7 DEF Build
<1>2. ASSUME NEW b \in Builders, NEW s \in Sessions, Started(b, s) PROVE HandsOK'
  <2>1. builder[b] = "grow"
    BY <1>2 DEF Started
  <2>2. \A c \in Builders : left'[c] = left[c]
    BY <1>2 DEF Started
  <2>3. left'[Reaper] = left[Reaper]
    BY <1>2 DEF Started, Reaper, Owner
  <2>4. \A c \in Builders : c # b => mine'[c] = mine[c] /\ making'[c] = making[c]
    BY <1>2 DEF Started
  <2> QED
    BY <1>2, <2>1, <2>2, <2>3, <2>4 DEF Started
<1>3. ASSUME NEW b \in Builders, NEW s \in Sessions, StartFails(b, s) \/ Undone(b, s)
      PROVE  HandsOK'
  <2>1. CASE StartFails(b, s)
    BY <2>1 DEF StartFails
  <2>2. CASE Undone(b, s)
    BY <2>2 DEF Undone
  <2> QED
    BY <1>3, <2>1, <2>2
<1>4. CASE Reap
  BY <1>4 DEF Reap, Wakes, Looks, Reaps, Reaped, ReaperEnds
<1>5. CASE \E x \in Transfers :
              \/ Invokes(x) \/ Answered(x) \/ Finishes(x)
              \/ \E s \in Sessions : Takes(x, s)
  BY <1>5 DEF Invokes, Answered, Finishes, Takes
<1>6. CASE \E s \in Sessions : LinkLost(s) \/ Restarts(s) \/ RestartFails(s) \/ Idles(s)
  BY <1>6 DEF LinkLost, Restarts, RestartFails, Idles, SessionOnly
<1>7. CASE TermBegins
  BY <1>7 DEF TermBegins
<1>8. CASE Terminates
  <2>1. /\ \A c \in Builders : left'[c] = left[c]
        /\ left'[Reaper] = left[Reaper]
    BY <1>8 DEF Terminates, TermTells, TermGoesOn, TermStops, TermEnds, Reaper, Owner
  <2>2. UNCHANGED <<builder, mine, making, reaper, keep>>
    BY <1>8 DEF Terminates, TermTells, TermGoesOn, TermStops, TermEnds
  <2>3. ~Closed' => ~Closed /\ UNCHANGED detached
    BY <1>8 DEF Terminates, TermTells, TermGoesOn, TermStops, TermEnds
  <2> QED
    BY <2>1, <2>2, <2>3
<1> QED
  BY <1>1, <1>2, <1>3, <1>4, <1>5, <1>6, <1>7, <1>8 DEF Next

-----------------------------------------------------------------------------
(* The pool.                                                               *)

LEMMA SessionsFinite == IsFiniteSet(Sessions) /\ Cardinality(Sessions) \in Nat
<1>1. IsFiniteSet(Sessions)
  <2>1. 1 \in Int /\ NSessions \in Int
    BY MediaPoolParameters
  <2> QED
    BY <2>1, FS_Interval DEF Sessions
<1> QED
  BY <1>1, FS_CardinalityType

LEMMA SmallerPool ==
    ASSUME pool \in SUBSET Sessions, Cardinality(pool) <= Size, NEW S \in SUBSET pool
    PROVE  IsFiniteSet(S) /\ Cardinality(S) \in Nat /\ Cardinality(S) <= Size
<1>1. IsFiniteSet(pool) /\ Cardinality(pool) \in Nat
  BY SessionsFinite, FS_Subset, FS_CardinalityType
<1>2. IsFiniteSet(S) /\ Cardinality(S) <= Cardinality(pool)
  BY <1>1, FS_Subset
<1>3. Cardinality(S) \in Nat
  BY <1>2, FS_CardinalityType
<1>4. Size \in Nat
  BY MediaPoolParameters
<1> QED
  BY <1>1, <1>2, <1>3, <1>4

\* New numbers are no session's that somebody knows.
LEMMA UnusedIs ==
    ASSUME NEW n \in Nat, NEW s \in Unused(n)
    PROVE  /\ s \in Sessions
           /\ life[s] \in {"new", "stopped"}
           /\ s \notin Referenced
           /\ Cardinality(Unused(n)) = n
BY DEF Unused

\* What is made is as much as is missing.
LEMMA MadeAreEnough ==
    ASSUME NEW ready \in SUBSET Sessions, Unused(Needed(ready)) # {},
           Unused(Needed(ready)) \cap ready = {}
    PROVE  LET all == ready \cup Unused(Needed(ready))
           IN  IsFiniteSet(all) /\ Cardinality(all) <= Size
<1> DEFINE n == Needed(ready)
           news == Unused(n)
<1>1. IsFiniteSet(ready) /\ Cardinality(ready) \in Nat /\ Size \in Nat
  BY SessionsFinite, FS_Subset, FS_CardinalityType, MediaPoolParameters
<1>2. n \in Nat
  BY <1>1 DEF Needed
<1>3. news \in SUBSET Sessions /\ Cardinality(news) = n
  <2> HIDE DEF n
  <2>1. \A s \in news : s \in Sessions /\ Cardinality(news) = n
    BY <1>2, UnusedIs
  <2>2. news # {}
    BY DEF n
  <2> QED
    BY <2>1, <2>2
<1>4. IsFiniteSet(news)
  BY <1>3, SessionsFinite, FS_Subset
<1>5. n # 0
  <2> HIDE DEF n
  <2>1. news # {}
    BY DEF n
  <2> QED
    BY <1>3, <1>4, <2>1, FS_EmptySet
<1>6. Cardinality(ready) + n = Size
  BY <1>1, <1>5 DEF Needed
<1>7. ready \cap news = {}
  OBVIOUS
<1> HIDE DEF n, news
<1>8. /\ IsFiniteSet(ready \cup news)
      /\ Cardinality(ready \cup news)
           = Cardinality(ready) + Cardinality(news) - Cardinality(ready \cap news)
  BY <1>1, <1>4, FS_Union
<1>9. Cardinality(ready \cap news) = 0
  BY <1>7, FS_EmptySet
<1> QED
  BY <1>1, <1>2, <1>3, <1>6, <1>8, <1>9 DEF n, news

\* Neither lists nor places change: nobody forgets or takes a forgotten session.
LEMMA ListsStay ==
    ASSUME Types, PoolOK,
           UNCHANGED <<kind, pool, mine, making, left, keep>>,
           \A b \in Builders : builder'[b] \in {"sort", "grow", "ends"} => builder'[b] = builder[b],
           reaper' = "reap" => reaper = "reap",
           outlived \subseteq outlived',
           \A s \in Sessions : Forgotten(s) => Forgotten(s)',
           \A s \in Sessions \ (pool \cup Taken) :
               life[s] = "starting" => life'[s] = "starting" /\ s \notin Taken'
    PROVE  PoolOK'
<1>1. \A s \in pool : s \in Sessions
  BY DEF Types, TypeOK
<1>2. ASSUME NEW b \in Builders PROVE BuilderOK(b)'
  <2>1. BuilderOK(b) /\ making[b] \in SUBSET Sessions
    BY DEF PoolOK, Types, Shapes
  <2>2. builder'[b] = "sort" => Covers(mine[b] \cup left[b])'
    BY <1>1, <2>1 DEF BuilderOK, Covers
  <2>3. builder'[b] \in {"grow", "ends"} => Covers(mine[b])'
    BY <1>1, <2>1 DEF BuilderOK, Covers
  <2> QED
    BY <2>1, <2>2, <2>3 DEF BuilderOK, Made
<1>3. ReaperOK'
  BY <1>1 DEF ReaperOK, PoolOK, Covers
<1>4. Owned'
  BY DEF Owned, PoolOK, Made
<1> QED
  BY <1>2, <1>3, <1>4 DEF PoolOK

LEMMA PoolAndTransfers ==
    ASSUME Types, PoolOK, NEW x \in Transfers,
           \/ Invokes(x) \/ Answered(x) \/ Finishes(x)
           \/ \E s \in Sessions : Takes(x, s)
    PROVE  PoolOK'
<1> USE DEF building, reaping, using, closing
<1>1. /\ UNCHANGED <<kind, pool, mine, making, left, keep, builder, reaper, outlived>>
      /\ uses \in [Transfers -> Sessions \cup {None}]
      /\ life \in [Sessions -> Live \cup {"new", "down", "stopped"}]
  BY DEF Invokes, Answered, Finishes, Takes, Types, TypeOK
<1>2. CASE Invokes(x)
  <2>1. Taken' = Taken /\ uses[x] \in Taken
    BY <1>2 DEF Invokes, Taken
  <2>2. \A s \in Sessions : s # uses[x] => life'[s] = life[s]
    BY <1>1, <1>2 DEF Invokes
  <2> QED
    BY <1>1, <2>1, <2>2, ListsStay DEF Forgotten
<1>3. CASE Answered(x)
  BY <1>1, <1>3, ListsStay DEF Answered, Forgotten, Taken
<1>4. CASE Finishes(x)
  <2>1. Taken' \subseteq Taken \cup {None} /\ None \notin Sessions
    BY <1>1, <1>4 DEF Finishes, Taken, None, Sessions
  <2>2. life' = life
    BY <1>4 DEF Finishes
  <2> QED
    BY <1>1, <2>1, <2>2, ListsStay DEF Forgotten
<1>5. ASSUME NEW s \in Sessions, Takes(x, s) PROVE PoolOK'
  <2>1. Taken' \subseteq Taken \cup {s}
    BY <1>1, <1>5 DEF Takes, Taken
  <2>2. life' = life /\ s \in pool /\ life[s] \in Live
    BY <1>5 DEF Takes, Live
  <2> QED
    BY <1>1, <2>1, <2>2, ListsStay DEF Forgotten
<1> QED
  BY <1>2, <1>3, <1>4, <1>5

LEMMA PoolAndSessions ==
    ASSUME Types, PoolOK, NEW s \in Sessions,
           LinkLost(s) \/ Restarts(s) \/ RestartFails(s) \/ Idles(s)
    PROVE  PoolOK'
<1> USE DEF SessionOnly, building, reaping, using, closing
<1>1. /\ UNCHANGED <<kind, pool, mine, making, left, keep, builder, reaper, outlived, uses>>
      /\ life \in [Sessions -> Live \cup {"new", "down", "stopped"}]
  BY DEF LinkLost, Restarts, RestartFails, Idles, Types, TypeOK
<1>2. Taken' = Taken
  BY <1>1 DEF Taken
<1>3. /\ \A t \in Sessions : t # s => life'[t] = life[t]
      /\ life[s] \in {"up", "restarting"} \/ life' = life
  BY <1>1 DEF LinkLost, Restarts, RestartFails, Idles
<1> QED
  BY <1>1, <1>2, <1>3, ListsStay DEF Forgotten, Live

\* Nobody has the lock any more: what there is is in the pool.
LEMMA LockIsFree ==
    ASSUME HandsOK', Cardinality(pool') <= Size, Owned',
           \A b \in Builders : builder'[b] \notin {"sort", "grow", "ends"},
           reaper' # "reap"
    PROVE  PoolOK'
BY DEF HandsOK, PoolOK, BuilderOK, ReaperOK

\* A builder that leaves replaces the pool by S, or does not.
LEMMA Replaced ==
    ASSUME Types, HandsOK, HandsOK', PoolOK, NEW b \in Builders, builder[b] \in {"sort", "grow", "ends"},
           NEW S, Covers(S), pool' = pool \/ pool' = S,
           builder' = [builder EXCEPT ![b] = "over"],
           reaper' # "reap", mine[b] \subseteq pool, making[b] = {},
           UNCHANGED <<life, uses, outlived>>
    PROVE  PoolOK'
<1>1. /\ \A c \in Builders : c # b => builder[c] \notin {"sort", "grow", "ends"}
      /\ \A c \in Builders : c # b => Made(c) = {}
  BY OneHolder DEF HandsOK, Made, Types
<1>2. \A c \in Builders : builder'[c] \notin {"sort", "grow", "ends"}
  BY <1>1 DEF Types, TypeOK
<1>3. Cardinality(pool') <= Size
  <2>1. Cardinality(S) <= Size
    BY SmallerPool DEF PoolOK, Covers, Types, TypeOK
  <2> QED
    BY <2>1 DEF PoolOK
<1>4. Taken' = Taken
  BY DEF Taken
<1>5. \A s \in Sessions : Forgotten(s) => Forgotten(s)'
  BY <1>4 DEF Forgotten
<1>6. Owned'
  <2> SUFFICES ASSUME NEW s \in Sessions
               PROVE  Forgotten(s)' \/ s \in pool' \cup outlived'
    BY DEF Owned
  <2>1. CASE s \in pool
    BY <1>5, <2>1 DEF Covers
  <2>2. CASE s \notin pool
    <3>1. Forgotten(s) \/ s \in outlived
      BY <1>1, <2>2 DEF PoolOK, Owned, Made
    <3> QED
      BY <1>5, <3>1
  <2> QED
    BY <2>1, <2>2
<1> QED
  BY <1>2, <1>3, <1>6, LockIsFree

\* Builders are cancelled: those of gone leave, the ones that grow keep their lists.
LEMMA Cancelled ==
    ASSUME Types, HandsOK, PoolOK, NEW gone \in SUBSET Builders,
           \A b \in gone : builder[b] \in {"line", "sort"},
           \A b \in Builders : b \in gone =>
               builder'[b] = "over" /\ mine'[b] = {} /\ left'[b] = {},
           \A b \in Builders : b \notin gone =>
               /\ \/ builder'[b] = builder[b]
                  \/ builder[b] = "grow" /\ builder'[b] = "ends"
               /\ mine'[b] = mine[b] /\ left'[b] = left[b],
           left'[Reaper] = left[Reaper],
           UNCHANGED <<kind, life, pool, making, keep, reaper, uses, outlived>>
    PROVE  PoolOK'
<1>1. Taken' = Taken
  BY DEF Taken
<1>2. \A s \in Sessions : Forgotten(s) <=> Forgotten(s)'
  BY <1>1 DEF Forgotten
<1>3. \A s \in pool : s \in Sessions
  BY DEF Types, TypeOK
<1>4. ASSUME NEW b \in Builders PROVE BuilderOK(b)'
  <2>1. CASE b \in gone
    <3>1. making[b] = {}
      BY <2>1 DEF HandsOK
    <3> QED
      BY <2>1, <3>1 DEF BuilderOK
  <2>2. CASE b \notin gone
    <3>1. BuilderOK(b)
      BY DEF PoolOK
    <3>2. builder'[b] = "sort" => Covers(mine[b] \cup left[b])'
      BY <1>2, <1>3, <2>2, <3>1 DEF BuilderOK, Covers
    <3>3. builder'[b] \in {"grow", "ends"} => Covers(mine[b])'
      BY <1>2, <1>3, <2>2, <3>1 DEF BuilderOK, Covers
    <3> QED
      BY <1>1, <2>2, <3>1, <3>2, <3>3 DEF BuilderOK, Made
  <2> QED
    BY <2>1, <2>2
<1>5. ReaperOK'
  BY <1>2, <1>3 DEF ReaperOK, PoolOK, Covers
<1>6. Owned'
  <2> SUFFICES ASSUME NEW s \in Sessions
               PROVE  \/ Forgotten(s)' \/ s \in pool' \cup outlived'
                      \/ \E b \in Builders : s \in Made(b)'
    BY DEF Owned
  <2>1. Forgotten(s) \/ s \in pool \cup outlived \/ \E b \in Builders : s \in Made(b)
    BY DEF PoolOK, Owned
  <2>2. ASSUME NEW b \in gone, s \in Made(b) PROVE s \in pool
    <3>1. making[b] = {} /\ BuilderOK(b)
      BY <2>2 DEF HandsOK, PoolOK
    <3>2. builder[b] = "sort"
      BY <2>2, <3>1 DEF HandsOK, Made
    <3> QED
      BY <2>2, <3>1, <3>2 DEF BuilderOK, Covers, Made
  <2> QED
    BY <1>2, <2>1, <2>2 DEF Made
<1> QED
  BY <1>4, <1>5, <1>6 DEF PoolOK

\* Grows makes sessions that nobody knows, and has what it sorted.
LEMMA PoolGrows ==
    ASSUME Types, HandsOK, PoolOK, ~Closed, NEW b \in Builders, Grows(b)
    PROVE  PoolOK'
<1> DEFINE ready == mine[b] \cup left[b]
           news == Unused(Needed(ready))
<1>1. /\ builder[b] = "sort" /\ news # {}
      /\ builder' = [builder EXCEPT ![b] = "grow"]
      /\ mine' = [mine EXCEPT ![b] = ready]
      /\ left' = [left EXCEPT ![b] = {}]
      /\ pool' = IF kind = "upload" THEN ready ELSE pool
      /\ making' = [making EXCEPT ![b] = news]
      /\ life' = [s \in Sessions |-> IF s \in news THEN "starting" ELSE life[s]]
      /\ outlived' = outlived \ news
      /\ UNCHANGED <<kind, line, reaping, using>>
  BY DEF Grows, HandsOK
<1>2. /\ \A c \in Builders : c # b => builder[c] \notin {"sort", "grow", "ends"}
      /\ reaper # "reap"
  BY <1>1, OneHolder DEF Types
<1>3. Covers(ready) /\ ready \in SUBSET Sessions
  BY <1>1 DEF PoolOK, BuilderOK, Types, Shapes
<1>4. Needed(ready) \in Nat
  BY <1>3, SmallerPool, MediaPoolParameters DEF Needed, PoolOK, Covers, Types, TypeOK
<1>5. \A s \in news : s \in Sessions /\ s \notin pool /\ s \notin Taken
  <2> HIDE DEF ready
  <2> QED
    BY <1>4, UnusedIs DEF Referenced
<1>6. ready \subseteq pool /\ news \cap ready = {}
  <2> HIDE DEF news, ready
  <2> QED
    BY <1>3, <1>5 DEF Covers
<1>7. IsFiniteSet(ready \cup news) /\ Cardinality(ready \cup news) <= Size
  <2> HIDE DEF ready
  <2> QED
    BY <1>1, <1>3, <1>6, MadeAreEnough
<1> HIDE DEF ready, news
<1>8. Taken' = Taken
  BY <1>1 DEF Taken, using
<1>9. /\ builder'[b] = "grow" /\ mine'[b] = ready /\ making'[b] = news
      /\ \A c \in Builders : c # b => builder'[c] = builder[c] /\ mine'[c] = mine[c]
                                      /\ making'[c] = making[c]
  BY <1>1 DEF Types, TypeOK, Shapes
<1>10. \A c \in Builders : c # b => making[c] = {}
  BY <1>2 DEF HandsOK
<1>11. \A s \in Sessions : s \notin news => (Forgotten(s) <=> Forgotten(s)')
  BY <1>1, <1>8 DEF Forgotten
<1>12. Covers(mine[b])'
  <2>1. \A s \in pool : s \in Sessions /\ s \notin news
    BY <1>5 DEF Types, TypeOK
  <2>2. ready \subseteq pool' /\ pool' \subseteq pool
    BY <1>1, <1>6
  <2> QED
    BY <1>1, <1>3, <1>9, <1>11, <2>1, <2>2 DEF Covers
<1>13. ASSUME NEW c \in Builders PROVE BuilderOK(c)'
  <2>1. CASE c = b
    <3>1. (kind = "upload" => pool = mine[b])'
      BY <1>1, <1>9
    <3>2. Made(b)' = ready \cup news
      BY <1>9 DEF Made
    <3>3. \A s \in news : life'[s] = "starting" /\ s \notin pool' \cup ready \cup Taken'
      BY <1>1, <1>5, <1>6, <1>8
    <3> QED
      BY <1>7, <1>9, <1>12, <2>1, <3>1, <3>2, <3>3 DEF BuilderOK
  <2>2. CASE c # b
    BY <1>2, <1>9, <1>10, <2>2 DEF BuilderOK
  <2> QED
    BY <2>1, <2>2
<1>14. ReaperOK'
  BY <1>1, <1>2 DEF ReaperOK, reaping
<1>15. Cardinality(pool') <= Size
  BY <1>1, <1>3, SmallerPool DEF PoolOK, Covers, Types, TypeOK
<1>16. Owned'
  <2> SUFFICES ASSUME NEW s \in Sessions
               PROVE  \/ Forgotten(s)' \/ s \in pool' \cup outlived'
                      \/ \E c \in Builders : s \in Made(c)'
    BY DEF Owned
  <2>1. CASE s \in news
    BY <1>9, <2>1 DEF Made
  <2>2. CASE s \in pool
    <3>1. s \in mine'[b] \/ s \in outlived \/ Forgotten(s)
      BY <1>3, <1>9, <2>2 DEF Covers
    <3> QED
      BY <1>1, <1>5, <1>11, <2>2, <3>1 DEF Made
  <2>3. CASE s \notin news /\ s \notin pool
    <3>1. \/ Forgotten(s) \/ s \in outlived \/ \E c \in Builders : s \in Made(c)
      BY <2>3 DEF PoolOK, Owned
    <3>2. Made(b) \subseteq Made(b)'
      BY <1>1, <1>9 DEF Made, ready, HandsOK
    <3>3. \A c \in Builders : c # b => Made(c)' = Made(c)
      BY <1>9 DEF Made
    <3> QED
      BY <1>1, <1>11, <2>3, <3>1, <3>2, <3>3
  <2> QED
    BY <2>1, <2>2, <2>3
<1> QED
  BY <1>13, <1>14, <1>15, <1>16 DEF PoolOK

\* A session is up, and with the others of the list.
LEMMA PoolAndStarted ==
    ASSUME Types, HandsOK, PoolOK, ~Closed, NEW b \in Builders, NEW s \in Sessions,
           Started(b, s)
    PROVE  PoolOK'
<1>1. /\ builder[b] = "grow" /\ s \in making[b] /\ detached = {}
      /\ mine[b] \in SUBSET Sessions /\ making[b] \in SUBSET Sessions
  BY DEF Started, HandsOK, Types, Shapes
<1>2. /\ life' = [life EXCEPT ![s] = "up"]
      /\ mine'[b] = mine[b] \cup {s} /\ making'[b] = making[b] \ {s}
      /\ \A c \in Builders : c # b => mine'[c] = mine[c] /\ making'[c] = making[c]
      /\ UNCHANGED <<kind, builder, reaper, keep, uses, outlived>>
  BY DEF Started, Types, Shapes, using, reaping
<1>3. /\ \A c \in Builders : c # b => builder[c] \notin {"sort", "grow", "ends"} /\ making[c] = {}
      /\ reaper # "reap"
  BY <1>1, OneHolder DEF Types, HandsOK
<1>4. /\ Covers(mine[b]) /\ (kind = "upload" => pool = mine[b])
      /\ IsFiniteSet(Made(b)) /\ Cardinality(Made(b)) <= Size
      /\ \A t \in making[b] : life[t] = "starting" /\ t \notin pool \cup mine[b] \cup Taken
  BY <1>1 DEF PoolOK, BuilderOK
<1>5. pool' = mine'[b]
  <2>1. kind \in {"media", "upload"}
    BY DEF Types, TypeOK
  <2>2. CASE kind = "media"
    BY <1>1, <2>2 DEF Started
  <2>3. CASE kind = "upload"
    BY <1>1, <1>2, <1>4, <2>3 DEF Started
  <2> QED
    BY <2>1, <2>2, <2>3
<1>6. Made(b)' = Made(b)
  BY <1>1, <1>2 DEF Made
<1>7. Cardinality(pool') <= Size
  <2>1. mine'[b] \in SUBSET Made(b)
    BY <1>6 DEF Made
  <2>2. /\ IsFiniteSet(mine'[b]) /\ Cardinality(mine'[b]) <= Cardinality(Made(b))
    BY <1>4, <2>1, FS_Subset
  <2>3. Cardinality(mine'[b]) \in Nat /\ Cardinality(Made(b)) \in Nat /\ Size \in Nat
    BY <1>4, <2>2, FS_CardinalityType, MediaPoolParameters
  <2> QED
    BY <1>4, <1>5, <2>2, <2>3
<1>8. Taken' = Taken /\ s \notin Taken
  BY <1>1, <1>2, <1>4 DEF Taken
<1>9. \A t \in Sessions : t # s => life'[t] = life[t] /\ (Forgotten(t) <=> Forgotten(t)')
  BY <1>2, <1>8 DEF Forgotten, Types, TypeOK
<1>10. ASSUME NEW c \in Builders PROVE BuilderOK(c)'
  <2>1. CASE c = b
    <3>1. Covers(mine[b])'
      BY <1>5 DEF Covers
    <3>2. \A t \in making'[b] : life'[t] = "starting" /\ t \notin pool' \cup mine'[b] \cup Taken'
      BY <1>1, <1>2, <1>4, <1>5, <1>8, <1>9
    <3> QED
      BY <1>1, <1>2, <1>4, <1>5, <1>6, <2>1, <3>1, <3>2 DEF BuilderOK
  <2>2. CASE c # b
    BY <1>2, <1>3, <2>2 DEF BuilderOK
  <2> QED
    BY <2>1, <2>2
<1>11. ReaperOK'
  BY <1>2, <1>3 DEF ReaperOK
<1>12. Owned'
  <2> SUFFICES ASSUME NEW t \in Sessions
               PROVE  \/ Forgotten(t)' \/ t \in pool' \cup outlived'
                      \/ \E c \in Builders : t \in Made(c)'
    BY DEF Owned
  <2>1. CASE t = s
    BY <1>2, <1>5, <2>1
  <2>2. CASE t # s /\ t \in pool
    BY <1>2, <1>4, <1>5, <1>9, <2>2 DEF Covers
  <2>3. CASE t # s /\ t \notin pool
    <3>1. \/ Forgotten(t) \/ t \in outlived \/ \E c \in Builders : t \in Made(c)
      BY <2>3 DEF PoolOK, Owned
    <3>2. \A c \in Builders : Made(c)' = Made(c)
      BY <1>2, <1>6 DEF Made
    <3> QED
      BY <1>2, <1>9, <2>3, <3>1, <3>2
  <2> QED
    BY <2>1, <2>2, <2>3
<1> QED
  BY <1>7, <1>10, <1>11, <1>12 DEF PoolOK

\* A session could not start, or its start was cancelled.
LEMMA PoolAndFailed ==
    ASSUME Types, HandsOK, PoolOK, NEW b \in Builders, NEW s \in making[b],
           life' = [life EXCEPT ![s] = "stopped"],
           making' = [making EXCEPT ![b] = @ \ {s}],
           \/ builder' = builder
           \/ builder[b] = "grow" /\ builder' = [builder EXCEPT ![b] = "ends"],
           UNCHANGED <<kind, mine, pool, left, reaper, keep, uses, outlived>>
    PROVE  PoolOK'
<1>1. /\ builder[b] \in {"grow", "ends"} /\ s \in Sessions
      /\ making[b] \in SUBSET Sessions /\ mine[b] \in SUBSET Sessions
  BY DEF HandsOK, Types, Shapes
<1>2. /\ \A c \in Builders : c # b => builder[c] \notin {"sort", "grow", "ends"} /\ making[c] = {}
      /\ reaper # "reap"
  BY <1>1, OneHolder DEF Types, HandsOK
<1>3. /\ Covers(mine[b]) /\ (kind = "upload" => pool = mine[b])
      /\ IsFiniteSet(Made(b)) /\ Cardinality(Made(b)) <= Size
      /\ \A t \in making[b] : life[t] = "starting" /\ t \notin pool \cup mine[b] \cup Taken
  BY <1>1 DEF PoolOK, BuilderOK
<1>4. /\ making'[b] = making[b] \ {s}
      /\ \A c \in Builders : c # b => making'[c] = making[c] /\ builder'[c] = builder[c]
      /\ builder'[b] \in {"grow", "ends"}
  BY <1>1 DEF Types, TypeOK, Shapes
<1>5. Taken' = Taken
  BY DEF Taken
<1>6. \A t \in Sessions : /\ t # s => life'[t] = life[t]
                          /\ Forgotten(t) => Forgotten(t)'
                          /\ t = s => Forgotten(t)'
  BY <1>1, <1>3, <1>5 DEF Forgotten, Live, Types, TypeOK
<1>7. IsFiniteSet(Made(b)') /\ Cardinality(Made(b)') <= Size
  <2>1. Made(b)' \in SUBSET Made(b)
    BY <1>4 DEF Made
  <2>2. IsFiniteSet(Made(b)') /\ Cardinality(Made(b)') <= Cardinality(Made(b))
    BY <1>3, <2>1, FS_Subset
  <2>3. Cardinality(Made(b)') \in Nat /\ Cardinality(Made(b)) \in Nat /\ Size \in Nat
    BY <1>3, <2>2, FS_CardinalityType, MediaPoolParameters
  <2> QED
    BY <1>3, <2>2, <2>3
<1>8. ASSUME NEW c \in Builders PROVE BuilderOK(c)'
  <2>1. CASE c = b
    <3>1. Covers(mine[b])'
      BY <1>3, <1>6 DEF Covers, Types, TypeOK
    <3>2. \A t \in making'[b] : life'[t] = "starting" /\ t \notin pool' \cup mine'[b] \cup Taken'
      BY <1>1, <1>3, <1>4, <1>5, <1>6
    <3> QED
      BY <1>1, <1>3, <1>4, <1>7, <2>1, <3>1, <3>2 DEF BuilderOK
  <2>2. CASE c # b
    BY <1>2, <1>4, <2>2 DEF BuilderOK
  <2> QED
    BY <2>1, <2>2
<1>9. ReaperOK'
  BY <1>2 DEF ReaperOK
<1>10. Owned'
  <2> SUFFICES ASSUME NEW t \in Sessions
               PROVE  \/ Forgotten(t)' \/ t \in pool' \cup outlived'
                      \/ \E c \in Builders : t \in Made(c)'
    BY DEF Owned
  <2>1. CASE t = s
    BY <1>6, <2>1
  <2>2. CASE t # s
    <3>1. \/ Forgotten(t) \/ t \in pool \cup outlived \/ \E c \in Builders : t \in Made(c)
      BY DEF PoolOK, Owned
    <3>2. ASSUME NEW c \in Builders, t \in Made(c) PROVE t \in Made(c)'
      BY <1>4, <2>2, <3>2 DEF Made
    <3> QED
      BY <1>6, <3>1, <3>2
  <2> QED
    BY <2>1, <2>2
<1> QED
  BY <1>8, <1>9, <1>10 DEF PoolOK

LEMMA PoolAndBuilders ==
    ASSUME Types, HandsOK, HandsOK', PoolOK, ~Closed, NEW b \in Builders,
           \/ Calls(b) \/ Build(b) \/ GrowFails(b) \/ Cancel(b)
           \/ \E s \in Sessions : Started(b, s) \/ StartFails(b, s) \/ Undone(b, s)
    PROVE  PoolOK'
<1> USE DEF building, reaping, using, closing
<1>0. detached = {}
  BY DEF HandsOK
<1>1. CASE Calls(b)
  <2>1. /\ UNCHANGED <<kind, pool, mine, making, left, keep, life, outlived, uses>>
        /\ builder' = [builder EXCEPT ![b] = "line"]
        /\ reaper' = "reap" => reaper = "reap"
    BY <1>1 DEF Calls, EnsureReaper
  <2>2. Taken' = Taken
    BY <2>1 DEF Taken
  <2>3. \A c \in Builders : builder'[c] \in {"sort", "grow", "ends"} => builder'[c] = builder[c]
    BY <2>1 DEF Types, TypeOK
  <2> QED
    BY <2>1, <2>2, <2>3, ListsStay DEF Forgotten
<1>2. CASE Locked(b)
  <2>1. /\ UNCHANGED <<kind, pool, mine, making, keep, life, outlived, uses, reaper>>
        /\ builder[b] = "line" /\ builder' = [builder EXCEPT ![b] = "sort"]
        /\ left'[b] = pool
        /\ \A c \in Builders : c # b => left'[c] = left[c]
        /\ left'[Reaper] = left[Reaper]
    BY <1>2, MediaPoolParameters DEF Locked, Types, Shapes
  <2>2. Taken' = Taken
    BY <2>1 DEF Taken
  <2>3. \A s \in Sessions : Forgotten(s) <=> Forgotten(s)'
    BY <2>1, <2>2 DEF Forgotten
  <2>4. builder'[b] = "sort" /\ \A c \in Builders : c # b => builder'[c] = builder[c]
    BY <2>1 DEF Types, TypeOK
  <2>5. ASSUME NEW c \in Builders PROVE BuilderOK(c)'
    <3>1. BuilderOK(c) /\ \A s \in pool : s \in Sessions
      BY DEF PoolOK, Types, TypeOK
    <3>2. CASE c = b
      <4>1. mine[b] = {} /\ making[b] = {}
        BY <2>1 DEF HandsOK
      <4> QED
        BY <2>1, <2>4, <3>2, <4>1 DEF BuilderOK, Covers
    <3>3. CASE c # b
      <4>1. builder'[c] = "sort" => Covers(mine[c] \cup left[c])'
        BY <2>1, <2>3, <2>4, <3>1, <3>3 DEF BuilderOK, Covers
      <4>2. builder'[c] \in {"grow", "ends"} => Covers(mine[c])'
        BY <2>1, <2>3, <2>4, <3>1, <3>3 DEF BuilderOK, Covers
      <4> QED
        BY <2>1, <2>2, <2>4, <3>1, <3>3, <4>1, <4>2 DEF BuilderOK, Made
    <3> QED
      BY <3>2, <3>3
  <2>6. ReaperOK'
    BY <2>1, <2>3 DEF ReaperOK, PoolOK, Covers, Types, TypeOK
  <2>7. Owned'
    BY <2>1, <2>3 DEF Owned, PoolOK, Made
  <2> QED
    BY <2>1, <2>5, <2>6, <2>7 DEF PoolOK
<1>3. CASE DropsDead(b)
  <2>1. PICK s \in left[b] :
            /\ ~Ready(s) /\ Stop(s)
            /\ mine' = [mine EXCEPT ![b] = @ \cup {t \in left[b] : t < s}]
            /\ left' = [left EXCEPT ![b] = @ \ ({t \in left[b] : t < s} \cup {s})]
    BY <1>3 DEF DropsDead
  <2>2. /\ UNCHANGED <<kind, pool, making, keep, uses, reaper, builder>>
        /\ builder[b] = "sort"
    BY <1>3 DEF DropsDead
  <2>3. /\ \A c \in Builders : c # b => builder[c] \notin {"sort", "grow", "ends"} /\ making[c] = {} /\ mine[c] = {}
        /\ reaper # "reap" /\ making[b] = {}
    BY <2>2, OneHolder DEF Types, HandsOK
  <2>4. /\ Covers(mine[b] \cup left[b])
        /\ mine[b] \in SUBSET Sessions /\ left[b] \in SUBSET Sessions
    BY <2>2 DEF PoolOK, BuilderOK, Types, Shapes
  <2>5. /\ mine'[b] \cup left'[b] = (mine[b] \cup left[b]) \ {s}
           \/ mine'[b] \cup left'[b] = mine[b] \cup left[b]
        /\ \A c \in Builders : c # b => mine'[c] = mine[c]
    BY <2>1 DEF Types, Shapes
  <2>6. Taken' = Taken
    BY <2>2 DEF Taken
  <2>7. /\ \A t \in Sessions : t # s => (Forgotten(t) <=> Forgotten(t)')
        /\ s \in outlived' \/ Forgotten(s)'
        /\ outlived \subseteq outlived'
    BY <2>1, <2>4, <2>6 DEF Forgotten, Stop, Ready, Live, Types, TypeOK
  <2>8. Covers(mine[b] \cup left[b])'
    <3>1. \A t \in mine'[b] \cup left'[b] : t \in pool'
      BY <2>2, <2>4, <2>5 DEF Covers
    <3>2. ASSUME NEW t \in pool'
          PROVE  t \in (mine'[b] \cup left'[b]) \cup outlived' \/ Forgotten(t)'
      <4>1. t \in pool /\ t \in Sessions
        BY <2>2 DEF Types, TypeOK
      <4> QED
        BY <2>4, <2>5, <2>7, <4>1 DEF Covers
    <3> QED
      BY <3>1, <3>2 DEF Covers
  <2>9. ASSUME NEW c \in Builders PROVE BuilderOK(c)'
    BY <2>2, <2>3, <2>8 DEF BuilderOK
  <2>10. ReaperOK'
    BY <2>2, <2>3 DEF ReaperOK
  <2>11. Owned'
    <3> SUFFICES ASSUME NEW t \in Sessions
                 PROVE  \/ Forgotten(t)' \/ t \in pool' \cup outlived'
      BY DEF Owned
    <3>1. Forgotten(t) \/ t \in pool \cup outlived
      BY <2>3, <2>4 DEF PoolOK, Owned, Made, Covers
    <3> QED
      BY <2>2, <2>7, <3>1
  <2> QED
    BY <2>2, <2>9, <2>10, <2>11 DEF PoolOK
<1>4. ASSUME builder[b] = "sort",
             pool' = pool \/ pool' = mine[b] \cup left[b],
             builder' = [builder EXCEPT ![b] = "over"],
             reaper' # "reap", UNCHANGED <<life, uses, outlived>>
      PROVE  PoolOK'
  <2> DEFINE S == mine[b] \cup left[b]
  <2>1. Covers(S) /\ mine[b] \subseteq pool /\ making[b] = {}
    BY <1>4 DEF PoolOK, BuilderOK, HandsOK, Covers
  <2>2. pool' = pool \/ pool' = S
    BY <1>4
  <2> HIDE DEF S
  <2> QED
    BY <1>4, <2>1, <2>2, Replaced
<1>5. CASE Sorted(b)
  <2>1. builder[b] = "sort" /\ reaper # "reap"
    BY <1>5, OneHolder DEF Types, Sorted
  <2>2. /\ pool' = mine[b] \cup left[b]
        /\ builder' = [builder EXCEPT ![b] = "over"]
        /\ reaper' # "reap" /\ UNCHANGED <<life, uses, outlived>>
    BY <1>0, <1>5, <2>1 DEF Sorted, Leaves, EnsureReaper
  <2> QED
    BY <1>4, <2>1, <2>2
<1>6. CASE GrowFails(b)
  <2>1. builder[b] = "sort" /\ reaper # "reap"
    BY <1>6, OneHolder DEF Types, GrowFails
  <2>2. /\ pool' = pool \/ pool' = mine[b] \cup left[b]
        /\ builder' = [builder EXCEPT ![b] = "over"]
        /\ reaper' # "reap" /\ UNCHANGED <<life, uses, outlived>>
    BY <1>6, <2>1 DEF GrowFails, Leaves
  <2> QED
    BY <1>4, <2>1, <2>2
<1>7. ASSUME builder[b] \in {"grow", "ends"}, making[b] = {},
             pool' = pool \/ pool' = mine[b],
             builder' = [builder EXCEPT ![b] = "over"],
             reaper' # "reap", UNCHANGED <<life, uses, outlived>>
      PROVE  PoolOK'
  <2> DEFINE S == mine[b]
  <2>1. Covers(S) /\ S \subseteq pool
    BY <1>7 DEF PoolOK, BuilderOK, Covers
  <2> HIDE DEF S
  <2> QED
    BY <1>7, <2>1, Replaced DEF S
<1>8. CASE Grown(b) \/ Ends(b)
  <2>1. builder[b] \in {"grow", "ends"} /\ reaper # "reap"
    BY <1>8, OneHolder DEF Types, Grown, Ends
  <2>2. /\ pool' = pool \/ pool' = mine[b]
        /\ builder' = [builder EXCEPT ![b] = "over"]
        /\ reaper' # "reap" /\ UNCHANGED <<life, uses, outlived>>
        /\ making[b] = {}
    BY <1>8, <2>1 DEF Grown, Ends, Leaves, EnsureReaper
  <2> QED
    BY <1>7, <2>1, <2>2
<1>9. CASE Grows(b)
  BY <1>9, PoolGrows
<1>10. CASE Cancel(b)
  <2> DEFINE gone == IF builder[b] = "grow" THEN {} ELSE {b}
  <2>1. gone \in SUBSET Builders /\ \A c \in gone : builder[c] \in {"line", "sort"}
    BY <1>10 DEF Cancel
  <2>2. \A c \in Builders : c \in gone =>
            builder'[c] = "over" /\ mine'[c] = {} /\ left'[c] = {}
    BY <1>10, MediaPoolParameters DEF Cancel, Types, TypeOK, Shapes
  <2>3. \A c \in Builders : c \notin gone =>
            /\ \/ builder'[c] = builder[c]
               \/ builder[c] = "grow" /\ builder'[c] = "ends"
            /\ mine'[c] = mine[c] /\ left'[c] = left[c]
    BY <1>10, MediaPoolParameters DEF Cancel, Types, TypeOK, Shapes
  <2>4. /\ left'[Reaper] = left[Reaper]
        /\ UNCHANGED <<kind, life, pool, making, keep, reaper, uses, outlived>>
    BY <1>10, MediaPoolParameters DEF Cancel, Types, Shapes
  <2> HIDE DEF gone
  <2> QED
    BY <2>1, <2>2, <2>3, <2>4, Cancelled
<1>11. ASSUME NEW s \in Sessions, Started(b, s) PROVE PoolOK'
  BY <1>11, PoolAndStarted
<1>12. ASSUME NEW s \in Sessions, StartFails(b, s) \/ Undone(b, s) PROVE PoolOK'
  <2>1. /\ s \in making[b]
        /\ life' = [life EXCEPT ![s] = "stopped"]
        /\ making' = [making EXCEPT ![b] = @ \ {s}]
        /\ \/ builder' = builder
           \/ builder[b] = "grow" /\ builder' = [builder EXCEPT ![b] = "ends"]
        /\ UNCHANGED <<kind, mine, pool, left, reaper, keep, uses, outlived>>
    BY <1>12 DEF StartFails, Undone
  <2> QED
    BY <2>1, PoolAndFailed
<1> QED
  BY <1>1, <1>2, <1>3, <1>5, <1>6, <1>8, <1>9, <1>10, <1>11, <1>12 DEF Build

LEMMA PoolAndReaper ==
    ASSUME Types, HandsOK, HandsOK', PoolOK, Reap
    PROVE  PoolOK'
<1> USE DEF building, reaping, using, closing
<1>1. CASE Wakes \/ ReaperEnds
  <2>1. /\ UNCHANGED <<kind, pool, mine, making, left, keep, life, outlived, uses, builder>>
        /\ reaper' # "reap"
    BY <1>1 DEF Wakes, ReaperEnds
  <2>2. Taken' = Taken
    BY <2>1 DEF Taken
  <2> QED
    BY <2>1, <2>2, ListsStay DEF Forgotten
<1>2. CASE Looks \/ Reaps \/ Reaped
  <2>1. \A b \in Builders : /\ builder[b] \notin {"sort", "grow", "ends"}
                            /\ Made(b) = {}
    <3>1. CASE Looks
      <4>1. \A b \in Builders : builder[b] \notin {"sort", "grow", "ends"}
        BY <3>1, MediaPoolParameters DEF Looks, Types, TypeOK, Holds
      <4> QED
        BY <4>1 DEF HandsOK, Made
    <3>2. CASE Reaps \/ Reaped
      BY <3>2, ReaperHolds DEF Reaps, Reaped, Types, HandsOK, Made
    <3> QED
      BY <1>2, <3>1, <3>2
  <2>2. /\ UNCHANGED <<kind, mine, making, builder, uses>>
    BY <1>2 DEF Looks, Reaps, Reaped
  <2>3. \A b \in Builders : BuilderOK(b)'
    BY <2>1, <2>2 DEF BuilderOK, Made
  <2>4. Taken' = Taken
    BY <2>2 DEF Taken
  <2>5. \A s \in Sessions : Forgotten(s) \/ s \in pool \cup outlived
    BY <2>1 DEF PoolOK, Owned
  <2>6. CASE Looks
    <3>1. /\ UNCHANGED <<life, pool, outlived>> /\ keep' = {} /\ left'[Reaper] = pool
      BY <2>6 DEF Looks, Types, Shapes
    <3>2. ReaperOK'
      BY <3>1 DEF ReaperOK, Covers
    <3>3. Owned'
      BY <2>4, <2>5, <3>1 DEF Owned, Forgotten
    <3> QED
      BY <2>3, <3>1, <3>2, <3>3 DEF PoolOK
  <2>7. CASE Reaps
    <3>1. PICK s \in left[Reaper] :
              /\ Stop(s)
              /\ keep' = keep \cup {t \in left[Reaper] : t < s}
              /\ left' = [left EXCEPT ![Reaper] = @ \ ({t \in left[Reaper] : t < s} \cup {s})]
      BY <2>7 DEF Reaps
    <3>2. reaper = "reap" /\ pool' = pool
      BY <2>7 DEF Reaps
    <3>3. Covers(keep \cup left[Reaper]) /\ left[Reaper] \in SUBSET Sessions
      BY <3>2 DEF PoolOK, ReaperOK, Types, Shapes
    <3>4. \/ keep' \cup left'[Reaper] = (keep \cup left[Reaper]) \ {s}
          \/ keep' \cup left'[Reaper] = keep \cup left[Reaper]
      BY <3>1 DEF Types, Shapes
    <3>5. /\ \A t \in Sessions : t # s => (Forgotten(t) <=> Forgotten(t)')
          /\ s \in outlived' \/ Forgotten(s)'
          /\ outlived \subseteq outlived'
      BY <2>4, <3>1, <3>3 DEF Forgotten, Stop, Live, Types, TypeOK
    <3>6. Covers(keep \cup left[Reaper])'
      <4>1. \A t \in keep' \cup left'[Reaper] : t \in pool'
        BY <3>2, <3>3, <3>4 DEF Covers
      <4>2. ASSUME NEW t \in pool'
            PROVE  t \in (keep' \cup left'[Reaper]) \cup outlived' \/ Forgotten(t)'
        <5>1. t \in pool /\ t \in Sessions
          BY <3>2 DEF Types, TypeOK
        <5> QED
          BY <3>3, <3>4, <3>5, <5>1 DEF Covers
      <4> QED
        BY <4>1, <4>2 DEF Covers
    <3>7. Owned'
      BY <2>5, <3>2, <3>5 DEF Owned
    <3> QED
      BY <2>3, <3>2, <3>6, <3>7 DEF PoolOK, ReaperOK
  <2>8. CASE Reaped
    <3> DEFINE S == keep \cup left[Reaper]
    <3>1. /\ pool' = S /\ Covers(S) /\ reaper' # "reap"
          /\ UNCHANGED <<life, outlived>>
      BY <2>8 DEF Reaped, PoolOK, ReaperOK
    <3> HIDE DEF S
    <3>2. Cardinality(pool') <= Size
      BY <3>1, SmallerPool DEF PoolOK, Covers, Types, TypeOK
    <3>3. Owned'
      BY <2>4, <2>5, <3>1 DEF Owned, Forgotten, Covers
    <3> QED
      BY <2>1, <2>2, <3>1, <3>2, <3>3, LockIsFree
  <2> QED
    BY <1>2, <2>6, <2>7, <2>8
<1> QED
  BY <1>1, <1>2 DEF Reap

LEMMA PoolAndTerminate ==
    ASSUME Types, HandsOK, PoolOK, TermBegins \/ Terminates, ~Closed'
    PROVE  PoolOK'
<1> USE DEF building, reaping, using, closing
<1>1. CASE TermBegins
  <2> DEFINE gone == {b \in Registered : builder[b] \in {"line", "sort"}}
  <2>1. gone \in SUBSET Builders /\ \A b \in gone : builder[b] \in {"line", "sort"}
    BY MediaPoolParameters
  <2>2. Reaper \notin gone
    BY <2>1, MediaPoolParameters
  <2>3. /\ \A b \in Builders : b \notin gone =>
               \/ builder'[b] = builder[b]
               \/ builder[b] = "grow" /\ builder'[b] = "ends"
        /\ \A b \in Builders : b \in gone => builder'[b] = "over"
    BY <1>1 DEF TermBegins
  <2>4. /\ mine' = [b \in Builders |-> IF b \in gone THEN {} ELSE mine[b]]
        /\ left' = [a \in DOMAIN left |-> IF a \in gone THEN {} ELSE left[a]]
        /\ UNCHANGED <<kind, life, pool, making, keep, reaper, uses, outlived>>
    BY <1>1 DEF TermBegins
  <2> HIDE DEF gone
  <2>5. /\ \A b \in Builders : b \in gone => mine'[b] = {} /\ left'[b] = {}
        /\ \A b \in Builders : b \notin gone => mine'[b] = mine[b] /\ left'[b] = left[b]
        /\ left'[Reaper] = left[Reaper]
    BY <2>2, <2>4 DEF Types, Shapes
  <2> QED
    BY <2>1, <2>3, <2>4, <2>5, Cancelled
<1>2. CASE TermTells
  <2>1. UNCHANGED <<kind, pool, mine, making, left, keep, life, outlived, uses, builder, reaper>>
    BY <1>2 DEF TermTells
  <2>2. Taken' = Taken
    BY <2>1 DEF Taken
  <2> QED
    BY <2>1, <2>2, ListsStay DEF Forgotten
<1>3. CASE TermGoesOn \/ TermStops \/ TermEnds
  BY <1>3 DEF TermGoesOn, TermStops, TermEnds, Closed
<1> QED
  BY <1>1, <1>2, <1>3 DEF Terminates

-----------------------------------------------------------------------------
(* The theorems.                                                           *)

LEMMA IInvInit == Init => IInv
<1> SUFFICES ASSUME Init PROVE IInv
  OBVIOUS
<1>1. TypeOK /\ Shapes
  BY TypesInit DEF Types
<1>2. HandsOK
  BY MediaPoolParameters DEF Init, HandsOK
<1>3. PoolOK
  <2>1. Cardinality({}) = 0
    BY FS_EmptySet
  <2>2. Cardinality(pool) <= Size
    BY <2>1, MediaPoolParameters DEF Init
  <2>3. /\ \A b \in Builders : BuilderOK(b)
        /\ ReaperOK
    BY DEF Init, BuilderOK, ReaperOK
  <2>4. Owned
    BY DEF Init, Owned, Forgotten, Live, Taken, None, Sessions
  <2> QED
    BY <2>2, <2>3, <2>4 DEF PoolOK
<1> QED
  BY <1>1, <1>2, <1>3 DEF IInv

\* terminate() does not go back.
LEMMA ClosedStays == Next /\ Closed => Closed'
<1> SUFFICES ASSUME Next, Closed PROVE Closed'
  OBVIOUS
<1>1. CASE UNCHANGED term
  BY <1>1 DEF Closed
<1>2. CASE TermBegins \/ Terminates \/ ReaperEnds
  BY <1>2 DEF Closed, TermBegins, Terminates, TermTells, TermGoesOn, TermStops, TermEnds,
     ReaperEnds, closing
<1>3. ASSUME NEW b \in Builders,
             \/ Calls(b) \/ Build(b) \/ GrowFails(b) \/ Cancel(b)
             \/ \E s \in Sessions : Started(b, s) \/ StartFails(b, s) \/ Undone(b, s)
      PROVE  UNCHANGED term
  BY <1>3 DEF Calls, Build, Locked, DropsDead, Sorted, Grows, Grown, Ends,
     GrowFails, Cancel, Started, StartFails, Undone, closing
<1>4. CASE Wakes \/ Looks \/ Reaps \/ Reaped
  BY <1>1, <1>4 DEF Wakes, Looks, Reaps, Reaped, closing
<1>5. ASSUME NEW x \in Transfers,
             \/ Invokes(x) \/ Answered(x) \/ Finishes(x)
             \/ \E s \in Sessions : Takes(x, s)
      PROVE  UNCHANGED term
  BY <1>5 DEF Invokes, Answered, Finishes, Takes, closing
<1>6. ASSUME NEW s \in Sessions,
             LinkLost(s) \/ Restarts(s) \/ RestartFails(s) \/ Idles(s)
      PROVE  UNCHANGED term
  BY <1>6 DEF LinkLost, Restarts, RestartFails, Idles, SessionOnly, closing
<1> QED
  BY <1>1, <1>2, <1>3, <1>4, <1>5, <1>6 DEF Next, Reap

LEMMA IInvStep == IInv /\ [Next]_vars => IInv'
<1> SUFFICES ASSUME IInv, [Next]_vars PROVE IInv'
  OBVIOUS
<1>1. Types /\ HandsOK /\ (~Closed => PoolOK)
  BY DEF IInv, Types
<1>2. CASE UNCHANGED vars
  <2>1. /\ UNCHANGED <<kind, life, idle, pool, line, builder, mine, making, left>>
        /\ UNCHANGED <<reaper, keep, transfer, uses, term, detached, outlived>>
    BY <1>2 DEF vars, building, reaping, using, closing
  <2>2. TypeOK'
    BY <1>1, <2>1 DEF Types, TypeOK, Holds
  <2>3. Shapes'
    BY <1>1, <2>1 DEF Types, Shapes, LineTyped
  <2>4. HandsOK'
    BY <1>1, <2>1 DEF HandsOK, Closed
  <2>5. Taken' = Taken /\ (Closed <=> Closed')
    BY <2>1 DEF Taken, Closed
  <2>6. PoolOK => PoolOK'
    BY <1>1, <2>1, <2>5, ListsStay DEF Forgotten
  <2> QED
    BY <1>1, <2>2, <2>3, <2>4, <2>5, <2>6 DEF IInv
<1>3. CASE Next
  <2>1. Types'
    BY <1>1, <1>3, TypesOfBuilders, TypesOfReaper, TypesOfTransfers, TypesOfSessions,
       TypesOfTerminate DEF Next
  <2>2. HandsOK'
    BY <1>1, <1>3, HandsStep
  <2>3. ASSUME ~Closed' PROVE PoolOK'
    <3>1. ~Closed
      BY <1>3, <2>3, ClosedStays
    <3> QED
      BY <1>1, <1>3, <2>2, <2>3, <3>1, PoolAndBuilders, PoolAndReaper, PoolAndTransfers,
         PoolAndSessions, PoolAndTerminate DEF Next
  <2> QED
    BY <2>1, <2>2, <2>3 DEF IInv, Types
<1> QED
  BY <1>2, <1>3

LEMMA Inductive == Spec => []IInv
BY IInvInit, IInvStep, PTL DEF Spec

LEMMA NothingLeaksHolds == IInv => NothingLeaks
<1> SUFFICES ASSUME IInv, term \notin {"stop", "over"},
                    NEW s \in Sessions, life[s] \in Live
             PROVE  s \in pool \cup outlived \cup UNION {Made(b) : b \in Builders}
  BY DEF NothingLeaks
<1>1. s \in pool \cup outlived \/ \E b \in Builders : s \in Made(b)
  BY DEF IInv, Closed, PoolOK, Owned, Forgotten
<1> QED
  BY <1>1

\* What is connected is in the pool, or with the one builder that grows it.
LEMMA ConnectionsBoundedHolds == IInv => ConnectionsBounded
<1> SUFFICES ASSUME IInv, term \notin {"stop", "over"}
             PROVE  Cardinality({s \in Sessions : life[s] \in Live} \ outlived) <= Size
  BY DEF ConnectionsBounded, IInv
<1> DEFINE Up == {s \in Sessions : life[s] \in Live} \ outlived
<1>1. PoolOK /\ HandsOK /\ Types
  BY DEF IInv, Closed, Types
<1>2. \A s \in Up : s \in pool \/ \E b \in Builders : s \in Made(b)
  BY <1>1 DEF PoolOK, Owned, Forgotten
<1>3. CASE \A b \in Builders : builder[b] \notin {"grow", "ends"}
  <2>1. \A b \in Builders : Made(b) \subseteq pool
    BY <1>1, <1>3 DEF PoolOK, BuilderOK, HandsOK, Covers, Made
  <2>2. Up \in SUBSET pool
    BY <1>2, <2>1
  <2> HIDE DEF Up
  <2>3. Cardinality(Up) <= Size
    BY <1>1, <2>2, SmallerPool DEF PoolOK, Types, TypeOK
  <2> QED
    BY <2>3 DEF Up
<1>4. ASSUME NEW b \in Builders, builder[b] \in {"grow", "ends"}
      PROVE  Cardinality(Up) <= Size
  <2>1. \A c \in Builders : c # b => Made(c) = {}
    BY <1>1, <1>4, OneHolder DEF Types, HandsOK, Made
  <2>2. /\ Covers(mine[b])
        /\ IsFiniteSet(Made(b)) /\ Cardinality(Made(b)) <= Size
    BY <1>1, <1>4 DEF PoolOK, BuilderOK
  <2>3. ASSUME NEW s \in Up PROVE s \in Made(b)
    <3>1. CASE s \in pool
      BY <2>2, <3>1 DEF Covers, Forgotten, Made
    <3>2. CASE s \notin pool
      BY <1>2, <2>1, <3>2
    <3> QED
      BY <3>1, <3>2
  <2>4. Up \in SUBSET Made(b)
    BY <2>3
  <2> HIDE DEF Up
  <2>5. IsFiniteSet(Up) /\ Cardinality(Up) <= Cardinality(Made(b))
    BY <2>2, <2>4, FS_Subset
  <2>6. Cardinality(Up) \in Nat /\ Cardinality(Made(b)) \in Nat /\ Size \in Nat
    BY <2>2, <2>5, FS_CardinalityType, MediaPoolParameters
  <2> QED
    BY <2>2, <2>5, <2>6
<1> QED
  BY <1>3, <1>4

\* Until terminate() closes the pool every connected session is in the pool or in
\* the hands of the task that builds it, whoever is cancelled or fails meanwhile;
\* but for those that were stopped under a transfer or a restart.
THEOREM NothingLeaksAlways == Spec => []NothingLeaks
BY Inductive, NothingLeaksHolds, PTL

\* Until then there are never more connections than one builder wants, whatever
\* builders come one after the other, fail or are cancelled.
THEOREM ConnectionsBoundedAlways == Spec => []ConnectionsBounded
BY Inductive, ConnectionsBoundedHolds, PTL
=============================================================================
