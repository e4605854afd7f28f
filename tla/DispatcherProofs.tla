-------------------------- MODULE DispatcherProofs --------------------------
(***************************************************************************)
(* The dispatcher and its conversations, for every number of workers, of   *)
(* messages, handlers, editors and listeners.                              *)
(***************************************************************************)
EXTENDS Dispatcher, SequenceTheorems, FiniteSetTheorems,
        WellFoundedInduction, TLAPS

-----------------------------------------------------------------------------
(* The least of a set of numbers.                                          *)

\* A set of numbers has a least one: of the intervals 0 .. n one is in no other.
LEMMA LeastNumber ==
    ASSUME NEW T \in SUBSET Nat, T # {}
    PROVE  \E x \in T : \A y \in T : x <= y
<1> DEFINE R == StrictSubsetOrdering(Nat)
           F == {0 .. n : n \in T}
<1>1. IsWellFoundedOn(R, FiniteSubsetsOf(Nat))
  BY FS_StrictSubsetOrderingWellFounded
<1>2. F \subseteq FiniteSubsetsOf(Nat)
  <2>1. ASSUME NEW n \in T PROVE 0 .. n \in FiniteSubsetsOf(Nat)
    <3>1. IsFiniteSet(0 .. n)
      BY FS_Interval
    <3> QED
      BY <3>1 DEF FiniteSubsetsOf
  <2> QED
    BY <2>1
<1>3. PICK I \in F : \A J \in F : <<J, I>> \notin R
  <2>1. F # {}
    OBVIOUS
  <2> HIDE DEF F, R
  <2> QED
    BY <1>1, <1>2, <2>1, WFMin
<1>4. PICK x \in T : I = 0 .. x
  OBVIOUS
<1>5. ASSUME NEW y \in T PROVE x <= y
  <2>1. SUFFICES ASSUME y < x PROVE FALSE
    OBVIOUS
  <2>2. /\ 0 .. y \subseteq 0 .. x /\ x \in 0 .. x /\ x \notin 0 .. y
    BY <2>1
  <2>3. <<0 .. y, 0 .. x>> \in R
    BY <2>2 DEF StrictSubsetOrdering
  <2> QED
    BY <1>3, <1>4, <2>3
<1> QED
  BY <1>5

-----------------------------------------------------------------------------
(* Sequences that lose an element.                                         *)

LEMMA RemoveFirstIsRemoveAt ==
    ASSUME NEW S, NEW s \in Seq(S), NEW e, e \in ToSet(s)
    PROVE  \E i \in 1 .. Len(s) : 
              /\ s[i] = e
              /\ \A j \in 1 .. i - 1 : s[j] # e
              /\ RemoveFirst(s, e) = SubSeq(s, 1, i - 1) \o SubSeq(s, i + 1, Len(s))
<1> DEFINE I == {i \in 1 .. Len(s) : s[i] = e}
           n == CHOOSE x \in I : \A y \in I : x <= y
<1>1. I \in SUBSET Nat /\ I # {}
  BY DEF ToSet
<1>2. n \in I /\ \A y \in I : n <= y
  BY <1>1, LeastNumber
<1>3. SelectInSeq(s, LAMBDA v : v = e) = n
  BY <1>1 DEF SelectInSeq, Min
<1>4. RemoveFirst(s, e) = RemoveAt(s, n)
  BY <1>1, <1>3 DEF RemoveFirst
<1>5. RemoveFirst(s, e) = SubSeq(s, 1, n - 1) \o SubSeq(s, n + 1, Len(s))
  BY <1>4 DEF RemoveAt
<1>6. n \in 1 .. Len(s) /\ s[n] = e /\ \A j \in 1 .. n - 1 : s[j] # e
  BY <1>2
<1> HIDE DEF n
<1> QED
  BY <1>5, <1>6

\* list.remove(): one element is gone, the others keep their order.
LEMMA RemoveFirstIs ==
    ASSUME NEW S, NEW s \in Seq(S), NEW e, e \in ToSet(s)
    PROVE  \E i \in 1 .. Len(s) : 
              /\ s[i] = e
              /\ RemoveFirst(s, e) \in Seq(S)
              /\ Len(RemoveFirst(s, e)) = Len(s) - 1
              /\ \A j \in 1 .. Len(s) - 1 :
                    RemoveFirst(s, e)[j] = IF j < i THEN s[j] ELSE s[j + 1]
<1>1. PICK i \in 1 .. Len(s) : 
              /\ s[i] = e
              /\ RemoveFirst(s, e) = SubSeq(s, 1, i - 1) \o SubSeq(s, i + 1, Len(s))
  BY RemoveFirstIsRemoveAt
<1> DEFINE a == SubSeq(s, 1, i - 1)
           b == SubSeq(s, i + 1, Len(s))
<1>2. /\ a \in Seq(S) /\ Len(a) = i - 1
      /\ \A j \in 1 .. i - 1 : a[j] = s[j]
  BY SubSeqProperties, ElementOfSeq
<1>3. /\ b \in Seq(S) /\ Len(b) = Len(s) - i
      /\ \A j \in 1 .. Len(s) - i : b[j] = s[i + j]
  BY SubSeqProperties, ElementOfSeq
<1>4. /\ a \o b \in Seq(S) 
      /\ Len(a \o b) = Len(s) - 1
      /\ \A j \in 1 .. Len(s) - 1 : (a \o b)[j] = IF j < i THEN s[j] ELSE s[j + 1]
  <2> HIDE DEF a, b
  <2>1. /\ a \o b \in Seq(S)
        /\ Len(a \o b) = Len(a) + Len(b)
        /\ \A j \in 1 .. Len(a) + Len(b) :
              (a \o b)[j] = IF j <= Len(a) THEN a[j] ELSE b[j - Len(a)]
    BY <1>2, <1>3, ConcatProperties
  <2>2. Len(s) \in Nat
    BY LenProperties
  <2>3. Len(a) + Len(b) = Len(s) - 1
    BY <1>2, <1>3, <2>2
  <2>4. ASSUME NEW j \in 1 .. Len(s) - 1
        PROVE  (a \o b)[j] = IF j < i THEN s[j] ELSE s[j + 1]
    <3>1. CASE j < i
      BY <1>2, <2>1, <2>2, <2>3, <3>1
    <3>2. CASE ~(j < i)
      <4>1. (a \o b)[j] = b[j - (i - 1)] /\ j - (i - 1) \in 1 .. Len(s) - i
        BY <1>2, <2>1, <2>2, <2>3, <3>2
      <4>2. i + (j - (i - 1)) = j + 1
        BY <2>2
      <4> QED
        BY <1>3, <3>2, <4>1, <4>2
    <3> QED
      BY <3>1, <3>2
  <2> QED
    BY <2>1, <2>3, <2>4
<1> QED
  BY <1>1, <1>4

LEMMA RemoveFirstOfNone ==
    ASSUME NEW S, NEW s \in Seq(S), NEW e, e \notin ToSet(s)
    PROVE  RemoveFirst(s, e) = s
BY LenProperties DEF RemoveFirst, ToSet

LEMMA RemoveFirstTyped ==
    ASSUME NEW S, NEW s \in Seq(S), NEW e
    PROVE  RemoveFirst(s, e) \in Seq(S)
BY RemoveFirstIs, RemoveFirstOfNone

\* Of a sequence without repetitions the element is gone.
LEMMA RemoveFirstOnce ==
    ASSUME NEW S, NEW s \in Seq(S), NEW e,
           \A i, j \in DOMAIN s : s[i] = s[j] => i = j
    PROVE  /\ ToSet(RemoveFirst(s, e)) \subseteq ToSet(s)
           /\ e \notin ToSet(RemoveFirst(s, e))
           /\ \A i, j \in DOMAIN RemoveFirst(s, e) :
                 RemoveFirst(s, e)[i] = RemoveFirst(s, e)[j] => i = j
<1>1. CASE e \notin ToSet(s)
  BY <1>1, RemoveFirstOfNone
<1>2. CASE e \in ToSet(s)
  <2>1. PICK i \in 1 .. Len(s) :
           /\ s[i] = e
           /\ RemoveFirst(s, e) \in Seq(S)
           /\ Len(RemoveFirst(s, e)) = Len(s) - 1
           /\ \A j \in 1 .. Len(s) - 1 :
                 RemoveFirst(s, e)[j] = IF j < i THEN s[j] ELSE s[j + 1]
    BY <1>2, RemoveFirstIs
  <2> DEFINE L == RemoveFirst(s, e)
             n == Len(s)
             Old(j) == IF j < i THEN j ELSE j + 1
  <2>2. n \in Nat /\ DOMAIN s = 1 .. n /\ DOMAIN L = 1 .. n - 1
    BY <2>1, LenProperties
  <2>3. ASSUME NEW j \in 1 .. n - 1
        PROVE  Old(j) \in 1 .. n /\ Old(j) # i /\ L[j] = s[Old(j)]
    BY <2>1, <2>2
  <2> HIDE DEF L, n
  <2>4. ASSUME NEW j \in 1 .. n - 1 PROVE L[j] \in ToSet(s) /\ L[j] # e
    <3>1. Old(j) \in DOMAIN s /\ i \in DOMAIN s /\ Old(j) # i /\ L[j] = s[Old(j)]
      BY <2>2, <2>3 DEF n
    <3> HIDE DEF Old
    <3> QED
      BY <2>1, <3>1 DEF ToSet
  <2>5. ToSet(L) \subseteq ToSet(s) /\ e \notin ToSet(L)
    BY <2>2, <2>4 DEF ToSet
  <2>6. ASSUME NEW j \in 1 .. n - 1, NEW k \in 1 .. n - 1, L[j] = L[k]
        PROVE  j = k
    <3>1. Old(j) = Old(k)
      BY <2>2, <2>3, <2>6
    <3> QED
      BY <2>2, <3>1
  <2> QED
    BY <2>2, <2>5, <2>6 DEF L
<1> QED
  BY <1>1, <1>2

-----------------------------------------------------------------------------
(* The listener that matches a message.                                    *)

\* Those that are more specific than the listener at i, or as much and earlier.
Beats(m, i) ==
    {j \in DOMAIN listeners :
        /\ m \in Matches[listeners[j]]
        /\ \/ Specificity[listeners[j]] > Specificity[listeners[i]]
           \/ Specificity[listeners[i]] = Specificity[listeners[j]] /\ j <= i}

LEMMA MatchingTyped ==
    ASSUME TypeOK, NEW m
    PROVE  /\ Matching(m) \in Listeners \cup {None}
           /\ Matching(m) # None => Matching(m) \in ToSet(listeners)
<1> DEFINE is == {i \in DOMAIN listeners : m \in Matches[listeners[i]]}
           best == {i \in is : \A j \in is :
                      \/ Specificity[listeners[i]] > Specificity[listeners[j]]
                      \/ Specificity[listeners[i]] = Specificity[listeners[j]] /\ i <= j}
           F == {Beats(m, i) : i \in is}
           R == StrictSubsetOrdering(Nat)
<1>1. /\ Len(listeners) \in Nat
      /\ DOMAIN listeners = 1 .. Len(listeners)
      /\ \A i \in 1 .. Len(listeners) : /\ listeners[i] \in Listeners
                                        /\ Specificity[listeners[i]] \in Nat
  BY DispatcherParameters, LenProperties, ElementOfSeq DEF TypeOK
<1>2. CASE is = {}
  BY <1>2 DEF Matching
<1>3. CASE is # {}
  <2>1. IsWellFoundedOn(R, FiniteSubsetsOf(Nat))
    BY FS_StrictSubsetOrderingWellFounded
  <2>2. F \subseteq FiniteSubsetsOf(Nat) /\ F # {}
    <3>1. ASSUME NEW i \in is PROVE Beats(m, i) \in FiniteSubsetsOf(Nat)
      <4>1. IsFiniteSet(1 .. Len(listeners)) /\ Beats(m, i) \subseteq 1 .. Len(listeners)
        BY <1>1, FS_Interval DEF Beats
      <4> QED
        BY <1>1, <4>1, FS_Subset DEF FiniteSubsetsOf
    <3> QED
      BY <1>3, <3>1
  <2>3. PICK I \in F : \A J \in F : <<J, I>> \notin R
    <3> HIDE DEF F, R
    <3> QED
      BY <2>1, <2>2, WFMin
  <2>4. PICK i \in is : I = Beats(m, i)
    OBVIOUS
  <2>5. ASSUME NEW j \in is
        PROVE  \/ Specificity[listeners[i]] > Specificity[listeners[j]]
               \/ Specificity[listeners[i]] = Specificity[listeners[j]] /\ i <= j
    <3>1. SUFFICES ASSUME \/ Specificity[listeners[j]] > Specificity[listeners[i]]
                          \/ /\ Specificity[listeners[i]] = Specificity[listeners[j]]
                             /\ j < i
                   PROVE  FALSE
      BY <1>1
    <3>2. Beats(m, j) \subseteq Beats(m, i) /\ i \in Beats(m, i) /\ i \notin Beats(m, j)
      BY <1>1, <3>1 DEF Beats
    <3>3. Beats(m, j) \subseteq Nat /\ Beats(m, i) \subseteq Nat
      BY <1>1 DEF Beats
    <3>4. Beats(m, j) # Beats(m, i)
      BY <3>2
    <3>5. <<Beats(m, j), Beats(m, i)>> \in R
      BY <3>2, <3>3, <3>4 DEF StrictSubsetOrdering
    <3> QED
      BY <2>3, <2>4, <3>5
  <2>6. i \in best
    BY <2>5
  <2>7. (CHOOSE k \in best : TRUE) \in is
    BY <2>6
  <2>8. Matching(m) = listeners[CHOOSE k \in best : TRUE]
    BY <1>3 DEF Matching
  <2> HIDE DEF best
  <2> QED
    BY <1>1, <2>7, <2>8 DEF ToSet
<1> QED
  BY <1>2, <1>3

-----------------------------------------------------------------------------
(* What the steps of a worker do.                                          *)

\* The worker goes to p with c captured, and gives its lock back if p is idle.
MovesTo(w, p, c) ==
    /\ point' = [point EXCEPT ![w] = p]
    /\ captured' = [captured EXCEPT ![w] = c]
    /\ msg' = msg
    /\ IF p = "idle"
       THEN /\ lockLine' = [lockLine EXCEPT ![w] = Tail(@)]
            /\ finished' = finished \cup {msg[w]}
       ELSE UNCHANGED <<lockLine, finished>>

Moves(w, P) == \E p \in P, c \in Listeners \cup {None} : MovesTo(w, p, c)

\* The conversation of a listener that matched.
Answers(w, l) ==
    /\ listeners' = Without(l)
    /\ asker' = asker
    /\ \/ /\ l \notin NextSteps /\ fate[l] = "pending"
          /\ fate' = [fate EXCEPT ![l] = "done"]
          /\ answers' = [answers EXCEPT ![l] = @ \cup {msg[w]}]
       \/ /\ l \in NextSteps
          /\ fate' = fate
          /\ answers' = [answers EXCEPT ![l] = @ \cup {msg[w]}]
       \/ UNCHANGED <<fate, answers>>

LEMMA MovesMore ==
    ASSUME NEW w, NEW P, NEW Q, P \subseteq Q, Moves(w, P)
    PROVE  Moves(w, Q)
BY DEF Moves

\* The next handler, wherever it is, or the end of the message.
LEMMA VisitMoves ==
    ASSUME TypeOK, NEW w \in Workers, NEW g, NEW i, Visit(w, g, i)
    PROVE  Moves(w, {"check", "idle"})
<1>1. Matching(msg[w]) \in Listeners \cup {None}
  BY MatchingTyped
<1>2. \/ MovesTo(w, "check", Matching(msg[w]))
      \/ MovesTo(w, "idle", None)
  BY DEF Visit, MovesTo
<1> QED
  BY <1>1, <1>2 DEF Moves

LEMMA CallsBackMoves ==
    ASSUME NEW w \in Workers, CallsBack(w)
    PROVE  Moves(w, {"callback"}) /\ UNCHANGED conversation
<1>1. MovesTo(w, "callback", None)
  BY DEF CallsBack, MovesTo
<1> QED
  BY <1>1 DEF Moves, CallsBack

LEMMA ResolveMoves ==
    ASSUME TypeOK, NEW w \in Workers, NEW l \in Listeners, Resolve(w, l)
    PROVE  Moves(w, {"check", "idle", "nextStep"}) /\ Answers(w, l)
<1> DEFINE P == {"check", "idle", "nextStep"}
<1>1. ASSUME NoMore(w) \/ NextGroup(w) PROVE Moves(w, P)
  <2>1. Moves(w, {"check", "idle"})
    BY <1>1, VisitMoves DEF NoMore, NextGroup
  <2> QED
    BY <2>1, MovesMore
<1>2. ASSUME /\ point' = [point EXCEPT ![w] = "nextStep"]
             /\ captured' = [captured EXCEPT ![w] = l]
             /\ UNCHANGED <<msg, group, place, lockLine, finished, fate>>
      PROVE  Moves(w, P)
  <2>1. MovesTo(w, "nextStep", l)
    BY <1>2 DEF MovesTo
  <2> QED
    BY <2>1 DEF Moves
<1>3. Moves(w, P)
  BY <1>1, <1>2 DEF Resolve
<1>4. Answers(w, l)
  BY DEF Resolve, Answers
<1> QED
  BY <1>3, <1>4

\* The listener that a worker resolves: one without a filter is in the list, one
\* with a filter was captured before the filter was awaited.
Resolved(w, l) ==
    \/ l \in Unfiltered /\ l \in ToSet(listeners)
    \/ point[w] = "resolve" /\ l = captured[w] /\ l \in Listeners

\* A handler's step moves its worker and may answer a listener.
HandlerMoves(w) ==
    /\ point[w] \in Inside \ {"listening"}
    /\ \/ Moves(w, {"check", "idle", "callback", "nextStep"})
       \/ \E l \in ToSet(listeners) \ Unfiltered : MovesTo(w, "resolve", l)
    /\ \/ UNCHANGED conversation
       \/ \E l \in Listeners : /\ Resolved(w, l) /\ Answers(w, l)
    /\ UNCHANGED <<queue, groups, editor, arrived, stopping>>

LEMMA HandlerStepMoves ==
    ASSUME TypeOK, NEW w \in Workers, HandlerStep(w),
           point[w] = "resolve" => captured[w] \in Listeners
    PROVE  HandlerMoves(w)
<1> DEFINE P == {"check", "idle", "callback", "nextStep"}
<1>1. CASE CheckEnds(w)
  <2> DEFINE now == Matching(msg[w])
             passes == \/ msg[w] \in Accepts[Current(w)]
                       \/ captured[w] # None /\ msg[w] \in Allows[captured[w]]
  <2>1. /\ point[w] = "check"
        /\ UNCHANGED <<queue, groups, editor, arrived, stopping>>
    BY <1>1 DEF CheckEnds
  <2>2. now # None => now \in Listeners /\ now \in ToSet(listeners)
    BY MatchingTyped
  <2>3. CASE NextInGroup(w) /\ UNCHANGED conversation
    <3>1. Moves(w, {"check", "idle"})
      BY <2>3, VisitMoves DEF NextInGroup
    <3>2. Moves(w, P)
      BY <3>1, MovesMore
    <3> QED
      BY <2>1, <2>3, <3>2 DEF HandlerMoves, Inside
  <2>4. CASE CallsBack(w)
    <3>1. Moves(w, P) /\ UNCHANGED conversation
      BY <2>4, CallsBackMoves, MovesMore
    <3> QED
      BY <2>1, <3>1 DEF HandlerMoves, Inside
  <2>5. CASE now \in Unfiltered /\ Resolve(w, now) /\ now # None
    <3>1. Moves(w, {"check", "idle", "nextStep"}) /\ Answers(w, now)
      BY <2>2, <2>5, ResolveMoves
    <3>2. Moves(w, P)
      BY <3>1, MovesMore
    <3>3. Resolved(w, now) /\ now \in Listeners
      BY <2>2, <2>5 DEF Resolved
    <3> QED
      BY <2>1, <3>1, <3>2, <3>3 DEF HandlerMoves, Inside
  <2>6. CASE /\ now \in Listeners \ Unfiltered
             /\ point' = [point EXCEPT ![w] = "resolve"]
             /\ captured' = [captured EXCEPT ![w] = now]
             /\ UNCHANGED <<msg, group, place, lockLine, finished, conversation>>
    <3>1. MovesTo(w, "resolve", now)
      BY <2>6 DEF MovesTo
    <3>2. now \in ToSet(listeners) \ Unfiltered
      BY <2>2, <2>6, DispatcherParameters DEF None
    <3> QED
      BY <2>1, <2>6, <3>1, <3>2 DEF HandlerMoves, Inside
  <2>7. now = None => now \notin Unfiltered
    BY DispatcherParameters DEF None
  <2> QED
    BY <1>1, <2>3, <2>4, <2>5, <2>6, <2>7 DEF CheckEnds
<1>2. CASE ResolveEnds(w)
  <2>1. /\ point[w] = "resolve"
        /\ UNCHANGED <<queue, groups, editor, arrived, stopping>>
        /\ captured[w] \in Listeners
    BY <1>2 DEF ResolveEnds
  <2>2. CASE CallsBack(w)
    <3>1. Moves(w, P) /\ UNCHANGED conversation
      BY <2>2, CallsBackMoves, MovesMore
    <3> QED
      BY <2>1, <3>1 DEF HandlerMoves, Inside
  <2>3. CASE Resolve(w, captured[w])
    <3>1. Moves(w, {"check", "idle", "nextStep"}) /\ Answers(w, captured[w])
      BY <2>1, <2>3, ResolveMoves
    <3>2. Moves(w, P)
      BY <3>1, MovesMore
    <3> QED
      BY <2>1, <3>1, <3>2 DEF HandlerMoves, Inside, Resolved
  <2> QED
    BY <1>2, <2>2, <2>3 DEF ResolveEnds
<1>3. CASE CallbackEnds(w) \/ NextStepEnds(w)
  <2>1. Moves(w, {"check", "idle"})
    BY <1>3, VisitMoves DEF CallbackEnds, NextStepEnds, NextGroup, NextInGroup, NoMore
  <2>2. Moves(w, P)
    BY <2>1, MovesMore
  <2> QED
    BY <1>3, <2>2 DEF CallbackEnds, NextStepEnds, HandlerMoves, Inside
<1> QED
  BY <1>1, <1>2, <1>3 DEF HandlerStep

-----------------------------------------------------------------------------
(* The inductive invariant.                                                *)

\* A worker with a message, and among the handlers with its lock; an editor holds
\* all the locks it has asked for but the last.
LocksOK ==
    /\ \A w \in Workers : point[w] \notin {"idle", "ended"} => msg[w] \in Messages
    /\ \A w \in Workers : point[w] \in Inside => Holds(w, w)
    /\ \A e \in Editors : editor[e] \in 1 .. NWorkers =>
          \A w \in 1 .. editor[e] - 1 : Holds(e, w)

\* A listener that is answered has been asked for; then the answer has settled it,
\* or taken it off the list.
AnswersOK ==
    /\ \A i, j \in DOMAIN listeners : listeners[i] = listeners[j] => i = j
    /\ \A l \in ToSet(listeners) : fate[l] # "unused"
    /\ \A l \in Listeners : asker[l] # 0 => point[asker[l]] = "listening"
    /\ \A k, l \in Listeners : asker[k] = asker[l] /\ asker[l] # 0 => k = l
    /\ \A w \in Workers : point[w] = "resolve" =>
          captured[w] \in Listeners \ Unfiltered /\ fate[captured[w]] # "unused"
    /\ \A l \in Listeners : answers[l] # {} =>
          /\ fate[l] # "unused"
          /\ l \notin NextSteps => fate[l] # "pending"
          /\ l \in NextSteps \cap Unfiltered => l \notin ToSet(listeners)
    /\ \A l \in Listeners : l \in Unfiltered \/ l \notin NextSteps =>
          answers[l] = {} \/ \E m \in Messages : answers[l] = {m}

\* A message that arrived waits, before the Nones, or has a worker or is finished.
DrainOK ==
    /\ \A m \in arrived : \/ m \in ToSet(queue) \cup finished
                          \/ \E w \in Workers : /\ msg[w] = m
                                                /\ point[w] \notin {"idle", "ended"}
    /\ stopping = "no" => /\ None \notin ToSet(queue)
                          /\ \A w \in Workers : point[w] # "ended"
    /\ \A i, j \in DOMAIN queue : queue[i] = None /\ i < j => queue[j] \notin arrived
    /\ (\E w \in Workers : point[w] = "ended") => ToSet(queue) \cap arrived = {}
    /\ stopping = "stopped" => arrived \subseteq finished

IInv == TypeOK /\ LocksOK /\ AnswersOK /\ DrainOK

LEMMA IInvAtInit == Init => IInv
<1> SUFFICES ASSUME Init PROVE IInv
  OBVIOUS
<1>1. queue \in Seq(Messages \cup {None}) /\ listeners \in Seq(Listeners)
      /\ groups \in Seq(Seq(Handlers))
  BY DispatcherParameters DEF Init
<1>2. ToSet(queue) = {} /\ ToSet(listeners) = {} /\ DOMAIN queue = {} /\ DOMAIN listeners = {}
  BY DEF Init, ToSet
<1>3. TypeOK
  <2>1. NWorkers \in Nat
    BY DispatcherParameters
  <2> QED
    BY <1>1, <2>1 DEF Init, TypeOK, Workers
<1>4. LocksOK
  <2>1. \A e \in Editors : editor[e] = 0
    BY DEF Init
  <2>2. \A w \in Workers : point[w] = "idle"
    BY DEF Init
  <2> QED
    BY <2>1, <2>2 DEF LocksOK, Inside
<1>5. AnswersOK
  BY <1>2 DEF Init, AnswersOK
<1>6. DrainOK
  BY <1>2 DEF Init, DrainOK
<1> QED
  BY <1>3, <1>4, <1>5, <1>6 DEF IInv

-----------------------------------------------------------------------------
(* Types.                                                                  *)

Points == Inside \cup {"idle", "parse", "lock", "ended"}

LEMMA MovesTyped ==
    ASSUME TypeOK, NEW w \in Workers, NEW P \in SUBSET Points, Moves(w, P),
           Holds(w, w), msg[w] \in Messages
    PROVE  /\ lockLine' \in [Workers -> Seq(Workers \cup Editors)]
           /\ point' \in [Workers -> Points]
           /\ msg' = msg
           /\ captured' \in [Workers -> Listeners \cup {None}]
           /\ finished' \subseteq Messages
<1>1. PICK p \in P, c \in Listeners \cup {None} : MovesTo(w, p, c)
  BY DEF Moves
<1>2. Tail(lockLine[w]) \in Seq(Workers \cup Editors)
  BY DEF TypeOK, Holds
<1> QED
  BY <1>1, <1>2 DEF MovesTo, TypeOK, Points

LEMMA WithoutTyped ==
    ASSUME TypeOK, NEW l
    PROVE  Without(l) \in Seq(Listeners)
BY RemoveFirstTyped DEF TypeOK, Without

LEMMA AnswersTyped ==
    ASSUME TypeOK, NEW w \in Workers, NEW l \in Listeners,
           Answers(w, l), msg[w] \in Messages
    PROVE  /\ listeners' \in Seq(Listeners)
           /\ fate' \in [Listeners -> {"unused", "pending", "done", "timeout", "stopped"}]
           /\ answers' \in [Listeners -> SUBSET Messages]
           /\ asker' = asker
<1>1. listeners' \in Seq(Listeners) /\ asker' = asker
  BY WithoutTyped DEF Answers
<1>2. fate' \in [Listeners -> {"unused", "pending", "done", "timeout", "stopped"}]
  BY DEF Answers, TypeOK
<1>3. answers' \in [Listeners -> SUBSET Messages]
  BY DEF Answers, TypeOK
<1> QED
  BY <1>1, <1>2, <1>3

LEMMA HandlerMovesTyped ==
    ASSUME TypeOK, LocksOK, NEW w \in Workers, HandlerMoves(w)
    PROVE  TypeOK'
<1>1. Holds(w, w) /\ msg[w] \in Messages
  BY DEF HandlerMoves, LocksOK, Inside
<1>2. \E P \in SUBSET Points : Moves(w, P)
  <2>1. CASE Moves(w, {"check", "idle", "callback", "nextStep"})
    BY <2>1 DEF Points, Inside
  <2>2. CASE \E l \in ToSet(listeners) \ Unfiltered : MovesTo(w, "resolve", l)
    <3>1. ToSet(listeners) \subseteq Listeners
      BY LenProperties, ElementOfSeq DEF TypeOK, ToSet
    <3>2. Moves(w, {"resolve"})
      BY <2>2, <3>1 DEF Moves
    <3> QED
      BY <3>2 DEF Points, Inside
  <2> QED
    BY <2>1, <2>2 DEF HandlerMoves
<1>3. /\ lockLine' \in [Workers -> Seq(Workers \cup Editors)]
      /\ point' \in [Workers -> Points]
      /\ msg' = msg
      /\ captured' \in [Workers -> Listeners \cup {None}]
      /\ finished' \subseteq Messages
  BY <1>1, <1>2, MovesTyped
<1>4. /\ listeners' \in Seq(Listeners)
      /\ fate' \in [Listeners -> {"unused", "pending", "done", "timeout", "stopped"}]
      /\ answers' \in [Listeners -> SUBSET Messages]
      /\ asker' = asker
  BY <1>1, AnswersTyped DEF HandlerMoves, conversation, TypeOK
<1>5. UNCHANGED <<queue, groups, editor, arrived, stopping>>
  BY DEF HandlerMoves
<1> QED
  BY <1>3, <1>4, <1>5 DEF TypeOK, Points

LEMMA StepMoves ==
    ASSUME IInv, NEW w \in Workers, HandlerStep(w)
    PROVE  HandlerMoves(w)
BY HandlerStepMoves DEF IInv, AnswersOK

LEMMA QueueTyped ==
    ASSUME TypeOK, IInv,
           (\E m \in Messages : Arrive(m)) \/ (\E w \in Workers : Take(w) \/ Parsed(w))
    PROVE  TypeOK'
<1>1. ASSUME NEW m \in Messages, Arrive(m) PROVE TypeOK'
  <2>1. queue' \in Seq(Messages \cup {None})
    BY <1>1 DEF Arrive, TypeOK
  <2>2. arrived' \subseteq Messages
    BY <1>1 DEF Arrive, TypeOK
  <2> QED
    BY <1>1, <2>1, <2>2 DEF Arrive, TypeOK, dispatching, conversation
<1>2. ASSUME NEW w \in Workers, Take(w) PROVE TypeOK'
  <2>1. queue' \in Seq(Messages \cup {None}) /\ Head(queue) \in Messages \cup {None}
    BY <1>2, HeadTailProperties DEF Take, TypeOK
  <2>2. msg' \in [Workers -> Messages \cup {None}] /\ point' \in [Workers -> Points]
    BY <1>2, <2>1 DEF Take, TypeOK, Points
  <2> QED
    BY <1>2, <2>1, <2>2 DEF Take, TypeOK, Points, conversation, history
<1>3. ASSUME NEW w \in Workers, Parsed(w) PROVE TypeOK'
  <2>1. lockLine' \in [Workers -> Seq(Workers \cup Editors)]
    BY <1>3 DEF Parsed, TypeOK
  <2>2. point' \in [Workers -> Points]
    BY <1>3 DEF Parsed, TypeOK, Points
  <2> QED
    BY <1>3, <2>1, <2>2 DEF Parsed, TypeOK, Points, conversation, history
<1> QED
  BY <1>1, <1>2, <1>3

LEMMA EntersTyped ==
    ASSUME IInv, NEW w \in Workers, EntersGroups(w)
    PROVE  TypeOK'
<1>1. Holds(w, w) /\ msg[w] \in Messages
  BY DEF EntersGroups, IInv, LocksOK
<1>2. Moves(w, {"check", "idle"})
  BY VisitMoves DEF EntersGroups, IInv
<1>3. {"check", "idle"} \in SUBSET Points
  BY DEF Points, Inside
<1>4. /\ lockLine' \in [Workers -> Seq(Workers \cup Editors)]
      /\ point' \in [Workers -> Points]
      /\ msg' = msg
      /\ captured' \in [Workers -> Listeners \cup {None}]
      /\ finished' \subseteq Messages
  BY <1>1, <1>2, <1>3, MovesTyped DEF IInv
<1> QED
  BY <1>4 DEF EntersGroups, TypeOK, Points, conversation, IInv

LEMMA ConversationTyped ==
    ASSUME TypeOK,
           \/ \E w \in Workers : \E l \in Listeners : Listens(w, l) \/ Registers(w, l)
           \/ \E l \in Listeners : Resumes(l) \/ TimesOut(l) \/ Forget(l) \/ StopListener(l)
    PROVE  TypeOK'
<1>1. ASSUME NEW w \in Workers, NEW l \in Listeners, Listens(w, l) \/ Registers(w, l)
      PROVE  TypeOK'
  <2>1. Asked(w, l)
    BY <1>1 DEF Listens, Registers
  <2>2. /\ listeners' \in Seq(Listeners)
        /\ fate' \in [Listeners -> {"unused", "pending", "done", "timeout", "stopped"}]
    <3>1. listeners' \in Seq(Listeners)
      BY <2>1, AppendProperties DEF Asked, TypeOK
    <3>2. fate' \in [Listeners -> {"unused", "pending", "done", "timeout", "stopped"}]
      BY <2>1 DEF Asked, TypeOK
    <3> QED
      BY <3>1, <3>2
  <2>3. /\ point' \in [Workers -> Points]
        /\ asker' \in [Listeners -> Workers \cup {0}]
    <3>1. CASE Listens(w, l)
      BY <3>1 DEF Listens, TypeOK, Points, Inside
    <3>2. CASE Registers(w, l)
      BY <3>2 DEF Registers, TypeOK, Points
    <3> QED
      BY <1>1, <3>1, <3>2
  <2> QED
    BY <2>1, <2>2, <2>3 DEF Asked, TypeOK, Points, history
<1>2. ASSUME NEW l \in Listeners, Resumes(l) PROVE TypeOK'
  <2>1. point' \in [Workers -> Points] /\ asker' \in [Listeners -> Workers \cup {0}]
    BY <1>2 DEF Resumes, TypeOK, Points, Inside
  <2> QED
    BY <1>2, <2>1 DEF Resumes, TypeOK, Points, history
<1>3. ASSUME NEW l \in Listeners, TimesOut(l) PROVE TypeOK'
  BY <1>3 DEF TimesOut, TypeOK, dispatching, history
<1>4. ASSUME NEW l \in Listeners, Forget(l) PROVE TypeOK'
  BY <1>4, WithoutTyped DEF Forget, TypeOK, dispatching, history
<1>5. ASSUME NEW l \in Listeners, StopListener(l) PROVE TypeOK'
  BY <1>5, WithoutTyped DEF StopListener, TypeOK, dispatching, history
<1> QED
  BY <1>1, <1>2, <1>3, <1>4, <1>5

\* An editor that may edit holds every lock.
LEMMA EditorHolds ==
    ASSUME IInv, NEW e \in Editors, EditsGroup(e)
    PROVE  \A w \in Workers : Holds(e, w)
<1>1. editor[e] = NWorkers /\ Holds(e, NWorkers)
  BY DEF EditsGroup
<1>2. NWorkers \in 1 .. NWorkers /\ NWorkers \in Nat
  BY DispatcherParameters
<1>3. \A w \in 1 .. NWorkers - 1 : Holds(e, w)
  BY <1>1, <1>2 DEF IInv, LocksOK
<1> QED
  BY <1>1, <1>2, <1>3 DEF Workers

LEMMA EditsTyped ==
    ASSUME IInv, NEW e \in Editors, AsksForLock(e) \/ EditsGroup(e)
    PROVE  TypeOK'
<1> USE DEF IInv
<1>0. NWorkers \in Nat
  BY DispatcherParameters
<1>1. CASE AsksForLock(e)
  <2>1. editor[e] + 1 \in Workers
    BY <1>0, <1>1 DEF AsksForLock, Workers
  <2>2. lockLine' \in [Workers -> Seq(Workers \cup Editors)]
    <3>1. Append(lockLine[editor[e] + 1], e) \in Seq(Workers \cup Editors)
      BY <2>1, AppendProperties DEF TypeOK
    <3> QED
      BY <1>1, <3>1 DEF AsksForLock, TypeOK
  <2>3. editor' \in [Editors -> 0 .. NWorkers + 1]
    <3>1. editor[e] + 1 \in 0 .. NWorkers + 1
      BY <1>0, <2>1 DEF Workers
    <3> QED
      BY <1>1, <3>1 DEF AsksForLock, TypeOK
  <2> QED
    BY <1>1, <2>2, <2>3 DEF AsksForLock, TypeOK, dispatching, conversation, history
<1>2. CASE EditsGroup(e)
  <2>1. ASSUME NEW w \in Workers PROVE Tail(lockLine[w]) \in Seq(Workers \cup Editors)
    <3>1. Holds(e, w)
      BY <1>2, EditorHolds
    <3> QED
      BY <3>1, HeadTailProperties DEF Holds, TypeOK
  <2>2. lockLine' \in [Workers -> Seq(Workers \cup Editors)]
    BY <1>2, <2>1 DEF EditsGroup
  <2>3. editor' \in [Editors -> 0 .. NWorkers + 1]
    BY <1>0, <1>2 DEF EditsGroup, TypeOK
  <2>4. groups' \in Seq(Seq(Handlers))
    <3> DEFINE h == Edits[e][2]
               g == Edits[e][3]
               s == IF Edits[e][1] = "add" THEN Append(groups[g], h)
                                           ELSE RemoveFirst(groups[g], h)
    <3>1. h \in Handlers
      BY DispatcherParameters
    <3>2. groups' = [groups EXCEPT ![g] = s]
      BY <1>2 DEF EditsGroup
    <3>3. CASE g \in DOMAIN groups
      <4>1. g \in 1 .. Len(groups) /\ groups[g] \in Seq(Handlers)
        BY <3>3, LenProperties, ElementOfSeq DEF TypeOK
      <4>2. s \in Seq(Handlers)
        BY <3>1, <4>1, RemoveFirstTyped
      <4> HIDE DEF s, g
      <4> QED
        BY <3>2, <4>1, <4>2, ExceptSeq DEF TypeOK
    <3>4. CASE g \notin DOMAIN groups
      <4>1. groups \in [1 .. Len(groups) -> Seq(Handlers)] /\ DOMAIN groups = 1 .. Len(groups)
        BY LenProperties DEF TypeOK
      <4>2. [groups EXCEPT ![g] = s] = groups
        <5> HIDE DEF s, g
        <5> QED
          BY <3>4, <4>1
      <4> QED
        BY <3>2, <4>2 DEF TypeOK
    <3> QED
      BY <3>3, <3>4
  <2> QED
    BY <1>2, <2>2, <2>3, <2>4 DEF EditsGroup, TypeOK, dispatching, conversation, history
<1> QED
  BY <1>1, <1>2

\* The Nones of stop().
Ends == [w \in Workers |-> None]

LEMMA EndsTyped ==
    /\ Ends \in Seq(Messages \cup {None})
    /\ Len(Ends) = NWorkers
    /\ \A w \in 1 .. NWorkers : Ends[w] = None
<1>1. NWorkers \in Nat
  BY DispatcherParameters
<1>2. Ends \in [1 .. NWorkers -> Messages \cup {None}]
  BY DEF Ends, Workers
<1>3. Ends \in Seq(Messages \cup {None})
  BY <1>1, <1>2, SeqDef
<1> QED
  BY <1>1, <1>2, <1>3, LenProperties DEF Ends, Workers

LEMMA StopTyped ==
    ASSUME TypeOK, StopBegins \/ StopEnds
    PROVE  TypeOK'
<1>1. CASE StopBegins
  <2>1. queue' \in Seq(Messages \cup {None})
    BY <1>1, EndsTyped, ConcatProperties DEF StopBegins, TypeOK, Ends
  <2> QED
    BY <1>1, <2>1 DEF StopBegins, TypeOK, dispatching, conversation, history
<1>2. CASE StopEnds
  <2>1. groups' \in Seq(Seq(Handlers))
    <3>1. /\ Len(groups) \in Nat
          /\ DOMAIN groups = 1 .. Len(groups)
      BY LenProperties DEF TypeOK
    <3>2. groups' \in [1 .. Len(groups) -> Seq(Handlers)]
      BY <1>2, <3>1 DEF StopEnds
    <3> QED
      BY <3>1, <3>2, SeqDef
  <2> QED
    BY <1>2, <2>1 DEF StopEnds, TypeOK, dispatching, conversation, history
<1> QED
  BY <1>1, <1>2

LEMMA TypesKept == IInv /\ [Next]_vars => TypeOK'
<1> SUFFICES ASSUME IInv, [Next]_vars PROVE TypeOK'
  OBVIOUS
<1>1. ASSUME NEW w \in Workers, HandlerStep(w) PROVE TypeOK'
  BY <1>1, StepMoves, HandlerMovesTyped DEF IInv
<1>2. CASE UNCHANGED vars
  BY <1>2 DEF vars, IInv, TypeOK, dispatching, conversation, history
<1> QED
  BY <1>1, <1>2, QueueTyped, EntersTyped, ConversationTyped, EditsTyped, StopTyped
     DEF Next, IInv

-----------------------------------------------------------------------------
(* The locks.                                                              *)

\* Who asks for a lock does not take it from its holder.
LEMMA AskingKeepsHolder ==
    ASSUME TypeOK, NEW v \in Workers, NEW x \in Workers \cup Editors,
           lockLine' = [lockLine EXCEPT ![v] = Append(@, x)],
           NEW t, NEW w \in Workers, Holds(t, w)
    PROVE  Holds(t, w)'
<1>1. lockLine[w] \in Seq(Workers \cup Editors) /\ lockLine[v] \in Seq(Workers \cup Editors)
  BY DEF TypeOK
<1>2. lockLine'[w] = IF w = v THEN Append(lockLine[w], x) ELSE lockLine[w]
  BY DEF TypeOK
<1> QED
  BY <1>1, <1>2, AppendProperties, HeadTailAppend DEF Holds

LEMMA MovesKeepLocks ==
    ASSUME IInv, NEW w \in Workers, NEW p \in Points, NEW c, MovesTo(w, p, c),
           Holds(w, w), msg[w] \in Messages, UNCHANGED editor
    PROVE  LocksOK'
<1> USE DEF IInv
<1>1. ASSUME NEW v \in Workers, v # w
      PROVE  point'[v] = point[v] /\ lockLine'[v] = lockLine[v]
  BY <1>1 DEF MovesTo, TypeOK
<1>2. point'[w] = p /\ (p # "idle" => lockLine'[w] = lockLine[w])
  BY DEF MovesTo, TypeOK
<1>3. ASSUME NEW v \in Workers
      PROVE  /\ point'[v] \notin {"idle", "ended"} => msg'[v] \in Messages
             /\ point'[v] \in Inside => Holds(v, v)'
  <2>1. CASE v = w
    BY <1>2, <2>1 DEF MovesTo, Holds, Inside
  <2>2. CASE v # w
    BY <1>1, <2>2 DEF MovesTo, Holds, LocksOK
  <2> QED
    BY <2>1, <2>2
<1>4. ASSUME NEW e \in Editors, editor'[e] \in 1 .. NWorkers, NEW v \in 1 .. editor'[e] - 1
      PROVE  Holds(e, v)'
  <2>1. v \in Workers /\ Holds(e, v)
    BY <1>4, DispatcherParameters DEF LocksOK, Workers
  <2>2. v # w
    BY <2>1, DispatcherParameters DEF Holds, Workers
  <2> QED
    BY <1>1, <2>1, <2>2 DEF Holds
<1> QED
  BY <1>3, <1>4 DEF LocksOK

LEMMA LocksKept == IInv /\ [Next]_vars => LocksOK'
<1> SUFFICES ASSUME IInv, [Next]_vars PROVE LocksOK'
  OBVIOUS
<1> USE DEF IInv
<1>0. TypeOK'
  BY TypesKept
<1>1. ASSUME UNCHANGED <<point, msg, lockLine, editor>> PROVE LocksOK'
  BY <1>1 DEF LocksOK, Holds
<1>2. ASSUME NEW w \in Workers, Take(w) PROVE LocksOK'
  <2>1. Head(queue) \in Messages \cup {None}
    BY <1>2, HeadTailProperties DEF Take, TypeOK
  <2>2. \A v \in Workers :
           /\ v # w => point'[v] = point[v] /\ msg'[v] = msg[v]
           /\ v = w => point'[v] = "ended" \/ (point'[v] = "parse" /\ msg'[v] \in Messages)
    BY <1>2, <2>1 DEF Take, TypeOK
  <2> QED
    BY <1>2, <2>2 DEF Take, LocksOK, Holds, Inside
<1>3. ASSUME NEW w \in Workers, Parsed(w) PROVE LocksOK'
  <2>1. \A v \in Workers : v # w => point'[v] = point[v]
    BY <1>3 DEF Parsed, TypeOK
  <2>2. point'[w] = "lock" /\ point[w] = "parse"
    BY <1>3 DEF Parsed, TypeOK
  <2>3. \A v \in Workers : \A t : Holds(t, v) => Holds(t, v)'
    BY <1>3, AskingKeepsHolder DEF Parsed
  <2>4. ASSUME NEW e \in Editors, editor'[e] \in 1 .. NWorkers, NEW v \in 1 .. editor'[e] - 1
        PROVE  Holds(e, v)'
    <3>1. v \in Workers /\ editor'[e] = editor[e]
      BY <1>3, <2>4, DispatcherParameters DEF Parsed, Workers
    <3>2. Holds(e, v)
      BY <2>4, <3>1 DEF LocksOK
    <3> QED
      BY <2>3, <3>1, <3>2
  <2>5. ASSUME NEW v \in Workers
        PROVE  /\ point'[v] \notin {"idle", "ended"} => msg'[v] \in Messages
               /\ point'[v] \in Inside => Holds(v, v)'
    BY <1>3, <2>1, <2>2, <2>3 DEF Parsed, LocksOK, Inside
  <2> QED
    BY <2>4, <2>5 DEF LocksOK
<1>4. ASSUME NEW w \in Workers, EntersGroups(w) PROVE LocksOK'
  <2>1. Holds(w, w) /\ msg[w] \in Messages /\ UNCHANGED editor
    BY <1>4 DEF EntersGroups, LocksOK
  <2>2. Moves(w, {"check", "idle"})
    BY <1>4, VisitMoves DEF EntersGroups
  <2> QED
    BY <2>1, <2>2, MovesKeepLocks DEF Moves, Points, Inside
<1>5. ASSUME NEW w \in Workers, HandlerStep(w) PROVE LocksOK'
  <2>1. HandlerMoves(w)
    BY <1>5, StepMoves
  <2>2. Holds(w, w) /\ msg[w] \in Messages /\ UNCHANGED editor
    BY <2>1 DEF HandlerMoves, LocksOK, Inside
  <2>3. \E p \in Points : \E c : MovesTo(w, p, c)
    BY <2>1 DEF HandlerMoves, Moves, Points, Inside
  <2> QED
    BY <2>2, <2>3, MovesKeepLocks
<1>6. ASSUME NEW w \in Workers, NEW l \in Listeners, Listens(w, l) \/ Registers(w, l)
      PROVE  LocksOK'
  <2>1. /\ UNCHANGED <<msg, lockLine, editor>>
        /\ point[w] = "callback"
        /\ \A v \in Workers : \/ point'[v] = point[v]
                              \/ v = w /\ point'[v] = "listening"
    BY <1>6 DEF Listens, Registers, Asked, TypeOK
  <2> QED
    BY <2>1 DEF LocksOK, Inside, Holds
<1>7. ASSUME NEW l \in Listeners, Resumes(l) PROVE LocksOK'
  <2>1. /\ UNCHANGED <<msg, lockLine, editor>>
        /\ \A v \in Workers : \/ point'[v] = point[v]
                              \/ v = asker[l] /\ point'[v] = "callback"
    BY <1>7 DEF Resumes, TypeOK
  <2>2. asker[l] \in Workers => point[asker[l]] = "listening"
    BY <1>7 DEF AnswersOK, Resumes
  <2> QED
    BY <2>1, <2>2 DEF LocksOK, Inside, Holds
<1>8. ASSUME NEW e \in Editors, AsksForLock(e) PROVE LocksOK'
  <2>1. editor[e] + 1 \in Workers
    BY <1>8, DispatcherParameters DEF AsksForLock, Workers
  <2>2. \A v \in Workers : \A t : Holds(t, v) => Holds(t, v)'
    BY <1>8, <2>1, AskingKeepsHolder DEF AsksForLock
  <2>3. ASSUME NEW f \in Editors, editor'[f] \in 1 .. NWorkers, NEW v \in 1 .. editor'[f] - 1
        PROVE  Holds(f, v)
    <3>1. CASE f = e
      <4>1. editor'[f] = editor[e] + 1
        BY <1>8, <3>1 DEF AsksForLock, TypeOK
      <4>2. v \in 1 .. editor[e]
        BY <2>3, <4>1 DEF TypeOK
      <4> QED
        BY <1>8, <3>1, <4>2 DEF AsksForLock
    <3>2. CASE f # e
      <4>1. editor'[f] = editor[f]
        BY <1>8, <3>2 DEF AsksForLock, TypeOK
      <4> QED
        BY <2>3, <4>1 DEF LocksOK
    <3> QED
      BY <3>1, <3>2
  <2>4. ASSUME NEW f \in Editors, editor'[f] \in 1 .. NWorkers, NEW v \in 1 .. editor'[f] - 1
        PROVE  Holds(f, v)'
    <3>1. v \in Workers
      BY <2>4, DispatcherParameters DEF Workers
    <3>2. Holds(f, v)
      BY <2>3, <2>4
    <3> QED
      BY <2>2, <3>1, <3>2
  <2>5. \A v \in Workers : point'[v] \in Inside => Holds(v, v)'
    BY <1>8, <2>2 DEF AsksForLock, LocksOK, dispatching
  <2> QED
    BY <1>8, <2>4, <2>5 DEF AsksForLock, LocksOK, dispatching
<1>9. ASSUME NEW e \in Editors, EditsGroup(e) PROVE LocksOK'
  <2>1. \A w \in Workers : Holds(e, w)
    BY <1>9, EditorHolds
  <2>2. ASSUME NEW w \in Workers PROVE point[w] \notin Inside
    <3>1. Holds(e, w) /\ e # w
      BY <2>1, DispatcherParameters DEF Workers
    <3>2. ~ Holds(w, w)
      BY <3>1 DEF Holds
    <3> QED
      BY <3>2 DEF LocksOK
  <2>3. ASSUME NEW f \in Editors, editor'[f] \in 1 .. NWorkers
        PROVE  editor'[f] = 1
    <3>1. editor'[f] = editor[f] /\ f # e
      BY <1>9, <2>3 DEF EditsGroup, TypeOK
    <3>2. CASE editor[f] > 1
      <4>1. Holds(f, 1) /\ 1 \in Workers
        BY <2>3, <3>1, <3>2, DispatcherParameters DEF LocksOK, Workers
      <4> QED
        BY <2>1, <3>1, <4>1 DEF Holds
    <3> QED
      BY <2>3, <3>1, <3>2, DispatcherParameters DEF TypeOK
  <2>4. \A f \in Editors : editor'[f] \in 1 .. NWorkers =>
           \A v \in 1 .. editor'[f] - 1 : Holds(f, v)'
    BY <2>3
  <2> QED
    BY <1>9, <2>2, <2>4 DEF EditsGroup, LocksOK, dispatching
<1> QED
  BY <1>1, <1>2, <1>3, <1>4, <1>5, <1>6, <1>7, <1>8, <1>9
  DEF Next, vars, dispatching, Arrive, TimesOut, Forget, StopListener, StopBegins, StopEnds

-----------------------------------------------------------------------------
(* The listeners and their answers.                                        *)

LEMMA WithoutIs ==
    ASSUME TypeOK, NEW l,
           \A i, j \in DOMAIN listeners : listeners[i] = listeners[j] => i = j
    PROVE  /\ ToSet(Without(l)) \subseteq ToSet(listeners)
           /\ l \notin ToSet(Without(l))
           /\ \A i, j \in DOMAIN Without(l) : Without(l)[i] = Without(l)[j] => i = j
BY RemoveFirstOnce DEF Without, TypeOK

LEMMA QuietKeepsAnswers ==
    ASSUME IInv, UNCHANGED conversation,
           \A v \in Workers : \/ point'[v] = point[v] /\ captured'[v] = captured[v]
                              \/ point[v] # "listening" /\ point'[v] # "resolve"
    PROVE  AnswersOK'
<1>1. UNCHANGED <<listeners, fate, answers, asker>>
  BY DEF conversation
<1>2. ASSUME NEW l \in Listeners, asker'[l] # 0 PROVE point'[asker'[l]] = "listening"
  BY <1>1, <1>2 DEF IInv, AnswersOK, TypeOK
<1>3. ASSUME NEW w \in Workers, point'[w] = "resolve"
      PROVE  captured'[w] \in Listeners \ Unfiltered /\ fate'[captured'[w]] # "unused"
  BY <1>1, <1>3 DEF IInv, AnswersOK
<1> QED
  BY <1>1, <1>2, <1>3 DEF IInv, AnswersOK

\* What an answer does to the listeners.
LEMMA AnswersKeep ==
    ASSUME IInv, NEW w \in Workers, NEW l \in Listeners, Resolved(w, l), Answers(w, l),
           msg[w] \in Messages
    PROVE  /\ \A i, j \in DOMAIN listeners' : listeners'[i] = listeners'[j] => i = j
           /\ \A k \in ToSet(listeners') : fate'[k] # "unused"
           /\ \A k \in Listeners : fate[k] # "unused" => fate'[k] # "unused"
           /\ \A k \in Listeners : answers'[k] # {} =>
                 /\ fate'[k] # "unused"
                 /\ k \notin NextSteps => fate'[k] # "pending"
                 /\ k \in NextSteps \cap Unfiltered => k \notin ToSet(listeners')
           /\ \A k \in Listeners : k \in Unfiltered \/ k \notin NextSteps =>
                 answers'[k] = {} \/ \E m \in Messages : answers'[k] = {m}
<1> USE DEF IInv
<1>1. listeners' = Without(l)
  BY DEF Answers
<1>2. /\ ToSet(listeners') \subseteq ToSet(listeners)
      /\ l \notin ToSet(listeners')
      /\ \A i, j \in DOMAIN listeners' : listeners'[i] = listeners'[j] => i = j
  BY <1>1, WithoutIs DEF AnswersOK
<1>3. fate[l] # "unused"
  BY DEF AnswersOK, Resolved
<1>4. l \in Unfiltered => l \in ToSet(listeners)
  BY DEF AnswersOK, Resolved
<1>5. \A k \in Listeners : fate'[k] = fate[k] \/ fate'[k] = "done"
  BY DEF Answers, TypeOK
<1>6. ASSUME NEW k \in Listeners, fate[k] # "unused" PROVE fate'[k] # "unused"
  BY <1>5, <1>6
<1>7. ToSet(listeners) \subseteq Listeners
  BY LenProperties, ElementOfSeq DEF TypeOK, ToSet
<1>8. \A k \in ToSet(listeners') : fate'[k] # "unused"
  BY <1>2, <1>6, <1>7 DEF AnswersOK
<1>9. ASSUME NEW k \in Listeners, answers'[k] # {}
      PROVE  /\ fate'[k] # "unused"
             /\ k \notin NextSteps => fate'[k] # "pending"
             /\ k \in NextSteps \cap Unfiltered => k \notin ToSet(listeners')
  <2>1. CASE k = l
    <3>1. fate'[l] # "unused" /\ l \notin ToSet(listeners')
      BY <1>2, <1>3, <1>6
    <3>2. l \notin NextSteps => fate'[l] # "pending"
      BY <1>9, <2>1 DEF Answers, TypeOK, AnswersOK
    <3> QED
      BY <2>1, <3>1, <3>2
  <2>2. CASE k # l
    <3>1. answers'[k] = answers[k] /\ fate'[k] = fate[k]
      BY <2>2 DEF Answers, TypeOK
    <3> QED
      BY <1>2, <1>9, <3>1 DEF AnswersOK
  <2> QED
    BY <2>1, <2>2
<1>10. ASSUME NEW k \in Listeners, k \in Unfiltered \/ k \notin NextSteps
       PROVE  answers'[k] = {} \/ \E m \in Messages : answers'[k] = {m}
  <2>1. CASE answers'[k] = answers[k]
    BY <1>10, <2>1 DEF AnswersOK
  <2>2. CASE answers'[k] # answers[k]
    <3>1. /\ k = l
          /\ answers'[k] = answers[k] \cup {msg[w]}
          /\ k \in NextSteps \/ fate[k] = "pending"
      BY <2>2 DEF Answers, TypeOK
    <3>2. answers[k] = {}
      BY <1>4, <1>10, <3>1 DEF AnswersOK
    <3> QED
      BY <3>1, <3>2
  <2> QED
    BY <2>1, <2>2
<1> QED
  BY <1>2, <1>6, <1>8, <1>9, <1>10

LEMMA HandlerKeepsAnswers ==
    ASSUME IInv, NEW w \in Workers, HandlerMoves(w)
    PROVE  AnswersOK'
<1> USE DEF IInv
<1>1. /\ point[w] # "listening" /\ msg[w] \in Messages
      /\ \A v \in Workers \ {w} : point'[v] = point[v] /\ captured'[v] = captured[v]
  BY DEF HandlerMoves, Moves, MovesTo, LocksOK, Inside, TypeOK
<1>2. \/ point'[w] # "resolve"
      \/ captured'[w] \in ToSet(listeners) \ Unfiltered
  BY DEF HandlerMoves, Moves, MovesTo, TypeOK
<1>3. CASE UNCHANGED conversation
  <2>1. CASE point'[w] # "resolve"
    BY <1>1, <1>3, <2>1, QuietKeepsAnswers
  <2>2. CASE captured'[w] \in ToSet(listeners) \ Unfiltered /\ point'[w] = "resolve"
    <3>1. UNCHANGED <<listeners, fate, answers, asker>>
      BY <1>3 DEF conversation
    <3>2. \A l \in Listeners : asker'[l] # 0 => point'[asker'[l]] = "listening"
      BY <1>1, <3>1 DEF AnswersOK, TypeOK
    <3>3. ToSet(listeners) \subseteq Listeners
      BY LenProperties, ElementOfSeq DEF TypeOK, ToSet
    <3>4. \A v \in Workers : point'[v] = "resolve" =>
             captured'[v] \in Listeners \ Unfiltered /\ fate'[captured'[v]] # "unused"
      BY <1>1, <2>2, <3>1, <3>3 DEF AnswersOK
    <3> QED
      BY <3>1, <3>2, <3>4 DEF AnswersOK
  <2> QED
    BY <1>2, <2>1, <2>2
<1>4. CASE \E l \in Listeners : Resolved(w, l) /\ Answers(w, l)
  <2>1. PICK l \in Listeners : Resolved(w, l) /\ Answers(w, l)
    BY <1>4
  <2>2. /\ \A i, j \in DOMAIN listeners' : listeners'[i] = listeners'[j] => i = j
        /\ \A k \in ToSet(listeners') : fate'[k] # "unused"
        /\ \A k \in Listeners : fate[k] # "unused" => fate'[k] # "unused"
        /\ \A k \in Listeners : answers'[k] # {} =>
              /\ fate'[k] # "unused"
              /\ k \notin NextSteps => fate'[k] # "pending"
              /\ k \in NextSteps \cap Unfiltered => k \notin ToSet(listeners')
        /\ \A k \in Listeners : k \in Unfiltered \/ k \notin NextSteps =>
              answers'[k] = {} \/ \E m \in Messages : answers'[k] = {m}
    BY <1>1, <2>1, AnswersKeep
  <2>3. asker' = asker
    BY <2>1 DEF Answers
  <2>4. /\ \A k \in Listeners : asker'[k] # 0 => point'[asker'[k]] = "listening"
        /\ \A j, k \in Listeners : asker'[j] = asker'[k] /\ asker'[j] # 0 => j = k
    BY <1>1, <2>3 DEF AnswersOK, TypeOK
  <2>5. ToSet(listeners) \subseteq Listeners /\ \A k \in ToSet(listeners) : fate[k] # "unused"
    BY LenProperties, ElementOfSeq DEF TypeOK, AnswersOK, ToSet
  <2>6. \A v \in Workers : point'[v] = "resolve" =>
           captured'[v] \in Listeners \ Unfiltered /\ fate'[captured'[v]] # "unused"
    BY <1>1, <1>2, <2>2, <2>5 DEF AnswersOK
  <2> QED
    BY <2>2, <2>4, <2>6 DEF AnswersOK
<1> QED
  BY <1>3, <1>4 DEF HandlerMoves

LEMMA AskedKeepsAnswers ==
    ASSUME IInv, NEW w \in Workers, NEW l \in Listeners, Listens(w, l) \/ Registers(w, l)
    PROVE  AnswersOK'
<1> USE DEF IInv
<1>1. /\ point[w] = "callback" /\ fate[l] = "unused"
      /\ fate' = [fate EXCEPT ![l] = "pending"]
      /\ listeners' = Append(listeners, l)
      /\ UNCHANGED <<captured, answers>>
  BY DEF Listens, Registers, Asked
<1>2. answers[l] = {} /\ l \notin ToSet(listeners)
  BY <1>1 DEF AnswersOK
<1>3. /\ listeners' \in Seq(Listeners)
      /\ DOMAIN listeners = 1 .. Len(listeners)
      /\ DOMAIN listeners' = 1 .. Len(listeners) + 1
      /\ Len(listeners) \in Nat
      /\ \A i \in 1 .. Len(listeners) : listeners'[i] = listeners[i]
      /\ listeners'[Len(listeners) + 1] = l
  BY <1>1, AppendProperties, LenProperties DEF TypeOK
<1>4. ASSUME NEW i \in DOMAIN listeners', NEW j \in DOMAIN listeners',
             listeners'[i] = listeners'[j]
      PROVE  i = j
  <2>1. \A k \in 1 .. Len(listeners) : listeners'[k] # l
    BY <1>2, <1>3 DEF ToSet
  <2> QED
    BY <1>3, <1>4, <2>1 DEF AnswersOK
<1>5. ToSet(listeners') = ToSet(listeners) \cup {l}
  BY <1>3 DEF ToSet
<1>6. \A k \in Listeners : fate'[k] = IF k = l THEN "pending" ELSE fate[k]
  BY <1>1 DEF TypeOK
<1>7. \A k \in ToSet(listeners') : fate'[k] # "unused"
  <2>1. ToSet(listeners) \subseteq Listeners
    BY LenProperties, ElementOfSeq DEF TypeOK, ToSet
  <2> QED
    BY <1>5, <1>6, <2>1 DEF AnswersOK
<1>8. /\ \A k \in Listeners : asker'[k] # 0 => point'[asker'[k]] = "listening"
      /\ \A j, k \in Listeners : asker'[j] = asker'[k] /\ asker'[j] # 0 => j = k
      /\ \A v \in Workers : point'[v] = "resolve" => point[v] = "resolve"
  <2>1. CASE Listens(w, l)
    <3>1. /\ \A v \in Workers : point'[v] = IF v = w THEN "listening" ELSE point[v]
          /\ \A k \in Listeners : asker'[k] = IF k = l THEN w ELSE asker[k]
      BY <2>1 DEF Listens, TypeOK
    <3>2. \A k \in Listeners : asker[k] # w
      <4>1. w # 0
        BY DispatcherParameters DEF Workers
      <4>2. \A k \in Listeners : asker[k] # 0 => point[asker[k]] = "listening"
        BY DEF AnswersOK
      <4> QED
        BY <1>1, <4>1, <4>2
    <3>3. \A k \in Listeners : asker[k] \in Workers \cup {0}
      BY DEF TypeOK
    <3> QED
      BY <3>1, <3>2, <3>3 DEF AnswersOK
  <2>2. CASE Registers(w, l)
    BY <2>2 DEF Registers, AnswersOK
  <2> QED
    BY <2>1, <2>2
<1>9. \A v \in Workers : point'[v] = "resolve" =>
         captured'[v] \in Listeners \ Unfiltered /\ fate'[captured'[v]] # "unused"
  BY <1>1, <1>6, <1>8 DEF AnswersOK
<1>10. \A k \in Listeners : answers'[k] # {} =>
          /\ fate'[k] # "unused"
          /\ k \notin NextSteps => fate'[k] # "pending"
          /\ k \in NextSteps \cap Unfiltered => k \notin ToSet(listeners')
  BY <1>1, <1>2, <1>5, <1>6 DEF AnswersOK
<1> QED
  BY <1>1, <1>4, <1>7, <1>8, <1>9, <1>10 DEF AnswersOK

LEMMA ListenersKeepAnswers ==
    ASSUME IInv, NEW l \in Listeners,
           Resumes(l) \/ TimesOut(l) \/ Forget(l) \/ StopListener(l)
    PROVE  AnswersOK'
<1> USE DEF IInv
<1>1. CASE Resumes(l)
  <2>1. /\ asker[l] \in Workers /\ asker[l] # 0
        /\ \A v \in Workers : point'[v] = IF v = asker[l] THEN "callback" ELSE point[v]
        /\ \A k \in Listeners : asker'[k] = IF k = l THEN 0 ELSE asker[k]
        /\ UNCHANGED <<captured, listeners, fate, answers>>
    BY <1>1 DEF Resumes, TypeOK
  <2>2. \A k \in Listeners : asker'[k] # 0 => point'[asker'[k]] = "listening"
    BY <2>1 DEF AnswersOK, TypeOK
  <2>3. \A j, k \in Listeners : asker'[j] = asker'[k] /\ asker'[j] # 0 => j = k
    BY <2>1 DEF AnswersOK
  <2> QED
    BY <2>1, <2>2, <2>3 DEF AnswersOK
<1>2. CASE TimesOut(l)
  <2>1. /\ UNCHANGED <<point, captured, listeners, answers, asker>>
        /\ l \notin NextSteps /\ fate[l] = "pending"
        /\ \A k \in Listeners : fate'[k] = IF k = l THEN "timeout" ELSE fate[k]
    BY <1>2 DEF TimesOut, TypeOK, dispatching
  <2>2. ToSet(listeners) \subseteq Listeners
    BY LenProperties, ElementOfSeq DEF TypeOK, ToSet
  <2>3. \A k \in ToSet(listeners') : fate'[k] # "unused"
    BY <2>1, <2>2 DEF AnswersOK
  <2>4. \A v \in Workers : point'[v] = "resolve" =>
           captured'[v] \in Listeners \ Unfiltered /\ fate'[captured'[v]] # "unused"
    BY <2>1 DEF AnswersOK
  <2>5. \A k \in Listeners : answers'[k] # {} =>
           /\ fate'[k] # "unused"
           /\ k \notin NextSteps => fate'[k] # "pending"
           /\ k \in NextSteps \cap Unfiltered => k \notin ToSet(listeners')
    BY <2>1 DEF AnswersOK
  <2> QED
    BY <2>1, <2>3, <2>4, <2>5 DEF AnswersOK
<1>3. CASE Forget(l) \/ StopListener(l)
  <2>1. /\ listeners' = Without(l)
        /\ UNCHANGED <<point, captured, answers, asker>>
        /\ \A k \in Listeners : fate'[k] = fate[k] \/ (fate'[k] = "stopped" /\ k \notin NextSteps)
    BY <1>3 DEF Forget, StopListener, dispatching, TypeOK
  <2>2. /\ ToSet(listeners') \subseteq ToSet(listeners)
        /\ \A i, j \in DOMAIN listeners' : listeners'[i] = listeners'[j] => i = j
    BY <2>1, WithoutIs DEF AnswersOK
  <2>3. ToSet(listeners) \subseteq Listeners
    BY LenProperties, ElementOfSeq DEF TypeOK, ToSet
  <2>4. \A k \in ToSet(listeners') : fate'[k] # "unused"
    BY <2>1, <2>2, <2>3 DEF AnswersOK
  <2>5. \A v \in Workers : point'[v] = "resolve" =>
           captured'[v] \in Listeners \ Unfiltered /\ fate'[captured'[v]] # "unused"
    BY <2>1 DEF AnswersOK
  <2>6. \A k \in Listeners : answers'[k] # {} =>
           /\ fate'[k] # "unused"
           /\ k \notin NextSteps => fate'[k] # "pending"
           /\ k \in NextSteps \cap Unfiltered => k \notin ToSet(listeners')
    BY <2>1, <2>2 DEF AnswersOK
  <2> QED
    BY <2>1, <2>2, <2>4, <2>5, <2>6 DEF AnswersOK
<1> QED
  BY <1>1, <1>2, <1>3

LEMMA AnswersKept == IInv /\ [Next]_vars => AnswersOK'
<1> SUFFICES ASSUME IInv, [Next]_vars PROVE AnswersOK'
  OBVIOUS
<1>1. ASSUME UNCHANGED <<point, captured, conversation>> PROVE AnswersOK'
  BY <1>1, QuietKeepsAnswers
<1>2. ASSUME NEW w \in Workers, Take(w) \/ Parsed(w) PROVE AnswersOK'
  <2>1. /\ UNCHANGED <<conversation, captured>>
        /\ \A v \in Workers : point'[v] = point[v] \/
              (point[v] # "listening" /\ point'[v] # "resolve")
    BY <1>2 DEF Take, Parsed, IInv, TypeOK
  <2> QED
    BY <2>1, QuietKeepsAnswers
<1>3. ASSUME NEW w \in Workers, EntersGroups(w) PROVE AnswersOK'
  <2>1. Moves(w, {"check", "idle"})
    BY <1>3, VisitMoves DEF EntersGroups, IInv
  <2>2. /\ UNCHANGED conversation
        /\ point[w] = "lock" /\ point'[w] # "resolve"
        /\ \A v \in Workers \ {w} : point'[v] = point[v] /\ captured'[v] = captured[v]
    BY <1>3, <2>1 DEF EntersGroups, Moves, MovesTo, IInv, TypeOK
  <2> QED
    BY <2>2, QuietKeepsAnswers
<1>4. ASSUME NEW w \in Workers, HandlerStep(w) PROVE AnswersOK'
  BY <1>4, StepMoves, HandlerKeepsAnswers
<1> QED
  BY <1>1, <1>2, <1>3, <1>4, AskedKeepsAnswers, ListenersKeepAnswers
  DEF Next, vars, dispatching, Arrive, AsksForLock, EditsGroup, StopBegins, StopEnds

-----------------------------------------------------------------------------
(* The messages that arrived before stop().                                *)

\* A worker's step that leaves the queue alone and finishes its message when it
\* becomes idle loses no message.
LEMMA WorkingKeepsDrain ==
    ASSUME IInv, NEW w \in Workers, UNCHANGED <<queue, arrived, stopping, msg>>,
           point[w] \notin {"idle", "ended"}, point'[w] # "ended",
           \A v \in Workers \ {w} : point'[v] = point[v],
           finished \subseteq finished',
           point'[w] = "idle" => msg[w] \in finished'
    PROVE  DrainOK'
<1> USE DEF IInv
<1>1. ASSUME NEW m \in arrived'
      PROVE  \/ m \in ToSet(queue') \cup finished'
             \/ \E v \in Workers : msg'[v] = m /\ point'[v] \notin {"idle", "ended"}
  <2>1. CASE m \in ToSet(queue) \cup finished
    BY <2>1
  <2>2. CASE \E v \in Workers : msg[v] = m /\ point[v] \notin {"idle", "ended"}
    BY <2>2
  <2> QED
    BY <1>1, <2>1, <2>2 DEF DrainOK
<1>2. \A v \in Workers : point'[v] = "ended" => point[v] = "ended"
  OBVIOUS
<1> QED
  BY <1>1, <1>2 DEF DrainOK

LEMMA MovesKeepDrain ==
    ASSUME IInv, NEW w \in Workers, NEW p \in Points \ {"ended"}, NEW c, MovesTo(w, p, c),
           point[w] \notin {"idle", "ended"}, UNCHANGED <<queue, arrived, stopping>>
    PROVE  DrainOK'
<1>1. /\ point'[w] = p /\ msg' = msg
      /\ \A v \in Workers \ {w} : point'[v] = point[v]
      /\ finished \subseteq finished'
      /\ p = "idle" => msg[w] \in finished'
  BY DEF MovesTo, IInv, TypeOK
<1> QED
  BY <1>1, WorkingKeepsDrain

LEMMA ArriveKeepsDrain ==
    ASSUME IInv, NEW m \in Messages, Arrive(m)
    PROVE  DrainOK'
<1> USE DEF IInv
<1> DEFINE n == Len(queue)
<1>1. /\ n \in Nat /\ DOMAIN queue = 1 .. n /\ DOMAIN queue' = 1 .. n + 1
      /\ \A i \in 1 .. n : queue'[i] = queue[i]
      /\ queue'[n + 1] = m
      /\ m \notin arrived /\ m # None
      /\ UNCHANGED <<point, msg, finished, stopping>>
  BY AppendProperties, LenProperties, DispatcherParameters
  DEF Arrive, TypeOK, dispatching, None
<1>2. ToSet(queue') = ToSet(queue) \cup {m}
  BY <1>1 DEF ToSet
<1>3. \/ stopping = "no" /\ arrived' = arrived \cup {m}
      \/ stopping # "no" /\ arrived' = arrived
  BY DEF Arrive
<1>4. \A k \in arrived' : \/ k \in ToSet(queue') \cup finished'
                          \/ \E w \in Workers : msg'[w] = k /\ point'[w] \notin {"idle", "ended"}
  BY <1>1, <1>2, <1>3 DEF DrainOK
<1>5. stopping' = "no" => /\ None \notin ToSet(queue')
                          /\ \A w \in Workers : point'[w] # "ended"
  BY <1>1, <1>2 DEF DrainOK
<1>6. ASSUME NEW i \in DOMAIN queue', NEW j \in DOMAIN queue', queue'[i] = None, i < j
      PROVE  queue'[j] \notin arrived'
  <2>1. i \in 1 .. n /\ queue[i] = None
    BY <1>1, <1>6
  <2>2. stopping # "no"
    BY <1>1, <2>1 DEF DrainOK, ToSet
  <2>3. CASE j \in 1 .. n
    BY <1>1, <1>3, <1>6, <2>1, <2>2, <2>3 DEF DrainOK
  <2>4. CASE j = n + 1
    BY <1>1, <1>3, <2>2, <2>4
  <2> QED
    BY <1>1, <2>3, <2>4
<1>7. (\E w \in Workers : point'[w] = "ended") => ToSet(queue') \cap arrived' = {}
  BY <1>1, <1>2, <1>3 DEF DrainOK
<1>8. stopping' = "stopped" => arrived' \subseteq finished'
  BY <1>1, <1>3 DEF DrainOK
<1> QED
  BY <1>4, <1>5, <1>6, <1>7, <1>8 DEF DrainOK

LEMMA TakeKeepsDrain ==
    ASSUME IInv, NEW w \in Workers, Take(w)
    PROVE  DrainOK'
<1> USE DEF IInv
<1> DEFINE n == Len(queue)
<1>1. /\ n \in Nat \ {0} /\ DOMAIN queue = 1 .. n
      /\ queue' \in Seq(Messages \cup {None})
      /\ Len(queue') = n - 1 /\ DOMAIN queue' = 1 .. n - 1
      /\ \A i \in 1 .. n - 1 : queue'[i] = queue[i + 1]
      /\ Head(queue) = queue[1] /\ Head(queue) \in Messages \cup {None}
      /\ UNCHANGED <<finished, arrived, stopping>>
  BY HeadTailProperties, LenProperties, EmptySeq DEF Take, TypeOK, history
<1>2. /\ point[w] = "idle"
      /\ \A v \in Workers \ {w} : point'[v] = point[v] /\ msg'[v] = msg[v]
      /\ msg'[w] = queue[1]
      /\ point'[w] = IF queue[1] = None THEN "ended" ELSE "parse"
  BY <1>1 DEF Take, TypeOK
<1>3. ToSet(queue') \subseteq ToSet(queue)
  BY <1>1 DEF ToSet
<1>4. \A m \in ToSet(queue) : m = queue[1] \/ m \in ToSet(queue')
  <2>1. ASSUME NEW i \in 1 .. n PROVE queue[i] = queue[1] \/ queue[i] \in ToSet(queue')
    <3>1. CASE i = 1
      BY <3>1
    <3>2. CASE i # 1
      <4>1. i - 1 \in 1 .. n - 1 /\ queue'[i - 1] = queue[i]
        BY <1>1, <3>2
      <4> QED
        BY <1>1, <4>1 DEF ToSet
    <3> QED
      BY <3>1, <3>2
  <2> QED
    BY <1>1, <2>1 DEF ToSet
<1>5. ASSUME NEW m \in arrived'
      PROVE  \/ m \in ToSet(queue') \cup finished'
             \/ \E v \in Workers : msg'[v] = m /\ point'[v] \notin {"idle", "ended"}
  <2>1. CASE m \in ToSet(queue)
    <3>1. m # None
      BY <1>1, <1>5, DispatcherParameters DEF TypeOK, None
    <3> QED
      BY <1>2, <1>4, <2>1, <3>1
  <2>2. CASE m \in finished
    BY <1>1, <2>2
  <2>3. CASE \E v \in Workers : msg[v] = m /\ point[v] \notin {"idle", "ended"}
    BY <1>2, <2>3
  <2> QED
    BY <1>1, <1>5, <2>1, <2>2, <2>3 DEF DrainOK
<1>6. stopping' = "no" => /\ None \notin ToSet(queue')
                          /\ \A v \in Workers : point'[v] # "ended"
  <2>1. queue[1] \in ToSet(queue)
    BY <1>1 DEF ToSet
  <2> QED
    BY <1>1, <1>2, <1>3, <2>1 DEF DrainOK
<1>7. ASSUME NEW i \in DOMAIN queue', NEW j \in DOMAIN queue', queue'[i] = None, i < j
      PROVE  queue'[j] \notin arrived'
  <2>1. i + 1 \in 1 .. n /\ j + 1 \in 1 .. n /\ queue[i + 1] = None /\ i + 1 < j + 1
    BY <1>1, <1>7
  <2>2. queue[j + 1] \notin arrived
    BY <1>1, <2>1 DEF DrainOK
  <2> QED
    BY <1>1, <2>2
<1>8. ASSUME NEW v \in Workers, point'[v] = "ended"
      PROVE  ToSet(queue') \cap arrived' = {}
  <2>1. CASE point[v] = "ended"
    BY <1>1, <1>3, <2>1 DEF DrainOK
  <2>2. CASE point[v] # "ended"
    <3>1. queue[1] = None
      BY <1>2, <1>8, <2>2
    <3>2. \A j \in 2 .. n : queue[j] \notin arrived
      BY <1>1, <3>1 DEF DrainOK
    <3>3. \A j \in 1 .. n - 1 : queue'[j] \notin arrived
      BY <1>1, <3>2
    <3> QED
      BY <1>1, <3>3 DEF ToSet
  <2> QED
    BY <2>1, <2>2
<1> QED
  BY <1>1, <1>5, <1>6, <1>7, <1>8 DEF DrainOK

LEMMA StopKeepsDrain ==
    ASSUME IInv, StopBegins \/ StopEnds
    PROVE  DrainOK'
<1> USE DEF IInv
<1>1. CASE StopBegins
  <2> DEFINE n == Len(queue)
  <2>1. /\ n \in Nat /\ DOMAIN queue = 1 .. n
        /\ queue' \in Seq(Messages \cup {None})
        /\ Len(queue') = n + NWorkers /\ DOMAIN queue' = 1 .. n + NWorkers
        /\ \A i \in 1 .. n + NWorkers :
              queue'[i] = IF i <= n THEN queue[i] ELSE Ends[i - n]
    BY <1>1, EndsTyped, ConcatProperties, LenProperties DEF StopBegins, TypeOK, Ends
  <2>2. /\ stopping = "no" /\ stopping' = "waiting"
        /\ UNCHANGED <<point, msg, finished, arrived>>
    BY <1>1 DEF StopBegins, dispatching, history
  <2>3. NWorkers \in Nat
    BY DispatcherParameters
  <2>4. \A i \in 1 .. n : queue'[i] = queue[i] /\ queue[i] # None
    BY <2>1, <2>2, <2>3 DEF DrainOK, ToSet
  <2>5. \A i \in n + 1 .. n + NWorkers : queue'[i] = None
    BY <2>1, <2>3, EndsTyped
  <2>6. ToSet(queue) \subseteq ToSet(queue')
    BY <2>1, <2>3, <2>4 DEF ToSet
  <2>7. None \notin arrived
    BY DispatcherParameters DEF TypeOK, None
  <2>8. ASSUME NEW i \in DOMAIN queue', NEW j \in DOMAIN queue', queue'[i] = None, i < j
        PROVE  queue'[j] \notin arrived'
    BY <2>1, <2>2, <2>3, <2>4, <2>5, <2>7, <2>8
  <2> QED
    BY <2>2, <2>6, <2>8 DEF DrainOK
<1>2. CASE StopEnds
  <2>1. /\ \A w \in Workers : point[w] = "ended"
        /\ UNCHANGED <<queue, point, msg, finished, arrived>>
        /\ stopping' = "stopped" /\ stopping = "waiting"
    BY <1>2 DEF StopEnds, dispatching, history
  <2>2. 1 \in Workers
    BY DispatcherParameters DEF Workers
  <2>3. arrived \subseteq finished
    BY <2>1, <2>2 DEF DrainOK
  <2> QED
    BY <2>1, <2>3 DEF DrainOK
<1> QED
  BY <1>1, <1>2

LEMMA DrainKept == IInv /\ [Next]_vars => DrainOK'
<1> SUFFICES ASSUME IInv, [Next]_vars PROVE DrainOK'
  OBVIOUS
<1>1. ASSUME UNCHANGED <<queue, point, msg, finished, arrived, stopping>> PROVE DrainOK'
  BY <1>1 DEF IInv, DrainOK
<1>2. ASSUME NEW w \in Workers, Parsed(w) PROVE DrainOK'
  <2>1. /\ point[w] = "parse" /\ point'[w] = "lock"
        /\ \A v \in Workers \ {w} : point'[v] = point[v]
        /\ UNCHANGED <<queue, arrived, finished, stopping, msg>>
    BY <1>2 DEF Parsed, IInv, TypeOK, history
  <2> QED
    BY <2>1, WorkingKeepsDrain
<1>3. ASSUME NEW w \in Workers, EntersGroups(w) PROVE DrainOK'
  <2>1. Moves(w, {"check", "idle"})
    BY <1>3, VisitMoves DEF EntersGroups, IInv
  <2> QED
    BY <1>3, <2>1, MovesKeepDrain DEF EntersGroups, Moves, Points, Inside
<1>4. ASSUME NEW w \in Workers, HandlerStep(w) PROVE DrainOK'
  <2>1. HandlerMoves(w)
    BY <1>4, StepMoves
  <2>2. \E p \in Points \ {"ended"} : \E c : MovesTo(w, p, c)
    BY <2>1 DEF HandlerMoves, Moves, Points, Inside
  <2> QED
    BY <2>1, <2>2, MovesKeepDrain DEF HandlerMoves, Inside
<1>5. ASSUME NEW w \in Workers, NEW l \in Listeners, Listens(w, l) \/ Registers(w, l)
      PROVE  DrainOK'
  <2>1. /\ point[w] = "callback" /\ point'[w] \in {"callback", "listening"}
        /\ \A v \in Workers \ {w} : point'[v] = point[v]
        /\ UNCHANGED <<queue, arrived, finished, stopping, msg>>
    BY <1>5 DEF Listens, Registers, Asked, IInv, TypeOK, history
  <2> QED
    BY <2>1, WorkingKeepsDrain
<1>6. ASSUME NEW l \in Listeners, Resumes(l) PROVE DrainOK'
  <2>1. /\ asker[l] \in Workers
        /\ point[asker[l]] = "listening" /\ point'[asker[l]] = "callback"
        /\ \A v \in Workers \ {asker[l]} : point'[v] = point[v]
        /\ UNCHANGED <<queue, arrived, finished, stopping, msg>>
    BY <1>6 DEF Resumes, IInv, AnswersOK, TypeOK, history
  <2> QED
    BY <2>1, WorkingKeepsDrain
<1> QED
  BY <1>1, <1>2, <1>3, <1>4, <1>5, <1>6, ArriveKeepsDrain, TakeKeepsDrain, StopKeepsDrain
  DEF Next, vars, dispatching, conversation, history, TimesOut, Forget, StopListener,
      AsksForLock, EditsGroup

-----------------------------------------------------------------------------
(* The theorems.                                                           *)

LEMMA IInvKept == IInv /\ [Next]_vars => IInv'
BY TypesKept, LocksKept, AnswersKept, DrainKept DEF IInv

LEMMA Invariant == Spec => []IInv
BY IInvAtInit, IInvKept, PTL DEF Spec

\* stop() returns after every message that was queued before it was handled.
THEOREM StopDrainsAlways == Spec => []StopDrains
<1>1. IInv => StopDrains
  BY DEF IInv, DrainOK, StopDrains
<1> QED
  BY <1>1, Invariant, PTL

\* The future of a listen() takes one message, and so does a next step without a filter.
\* Nothing is said of a next step with one: two workers may find it, each before the
\* callback of the other, for it is removed only after an await.
THEOREM TakesOneMessageAlways == Spec => []TakesOneMessage
<1>1. ASSUME IInv, NEW l \in Listeners, l \in Unfiltered \/ l \notin NextSteps
      PROVE  Cardinality(answers[l]) <= 1
  <2>1. answers[l] = {} \/ \E m \in Messages : answers[l] = {m}
    BY <1>1 DEF IInv, AnswersOK
  <2> QED
    BY <2>1, FS_EmptySet, FS_Singleton
<1>2. IInv => TakesOneMessage
  BY <1>1 DEF TakesOneMessage
<1> QED
  BY <1>2, Invariant, PTL

\* The groups do not change while a worker goes through them.
THEOREM EditsExcludeAlways == Spec => EditsExclude
<1>1. ASSUME IInv, [Next]_vars, NEW w \in Workers, point[w] \in Inside
      PROVE  groups' = groups
  <2>1. ~ StopEnds
    BY <1>1 DEF StopEnds, Inside
  <2>2. ASSUME NEW e \in Editors, EditsGroup(e) PROVE FALSE
    <3>1. Holds(e, w) /\ e # w
      BY <2>2, <1>1, EditorHolds, DispatcherParameters DEF Workers
    <3> QED
      BY <1>1, <3>1 DEF IInv, LocksOK, Holds
  <2>3. ASSUME NEW v \in Workers, HandlerStep(v) PROVE groups' = groups
    BY <1>1, <2>3, StepMoves DEF HandlerMoves
  <2> QED
    BY <1>1, <2>1, <2>2, <2>3
    DEF Next, vars, Arrive, Take, Parsed, EntersGroups, Listens, Registers, Asked,
        Resumes, TimesOut, Forget, StopListener, AsksForLock, StopBegins
<1>2. IInv /\ [Next]_vars => \A w \in Workers : point[w] \in Inside => groups' = groups
  BY <1>1
<1>3. IInv /\ [Next]_vars =>
         [\A w \in Workers : point[w] \in Inside => groups' = groups]_vars
  BY <1>2
<1> QED
  BY <1>3, Invariant, PTL DEF Spec, EditsExclude
=============================================================================
