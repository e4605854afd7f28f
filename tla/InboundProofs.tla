---------------------------- MODULE InboundProofs ----------------------------
(***************************************************************************)
(* The replay window and the ids of InboundWindow, for every size of the   *)
(* window, every number of messages, losses and reconnects.                *)
(***************************************************************************)
EXTENDS InboundWindow, FiniteSetTheorems, TLAPS

-----------------------------------------------------------------------------
(* Types.                                                                  *)

LEMMA TypesAtInit == Init => TypeOK
BY WindowParameters DEF Init, TypeOK, Ids

\* The floor a packet may set is one of the window's ids, or the old one.
LEMMA FloorTyped ==
    ASSUME TypeOK, NEW f \in NextFloor
    PROVE  f \in 0 .. MaxTime /\ Kept(f) \subseteq stored
BY WindowParameters DEF TypeOK, NextFloor, Kept, Ids

ClockOK ==
    /\ drift \in Int /\ last \in Int
    /\ reading \in [Issuers -> Int \cup {None}]
    /\ issued \subseteq Int

LEMMA ClockTyped ==
    ASSUME TypeOK, NEW m \in Ids,
           Sync(m, TRUE) \/ Sync(m, FALSE) \/ UNCHANGED clock
    PROVE  ClockOK'
<1>1. ClockOK
  BY DEF TypeOK, ClockOK
<1>2. m - time \in Int
  BY DEF TypeOK, Ids
<1>3. CASE Sync(m, TRUE)
  BY <1>1, <1>2, <1>3 DEF Sync, ClockOK
<1>4. CASE Sync(m, FALSE)
  BY <1>1, <1>2, <1>4 DEF Sync, ClockOK
<1>5. CASE UNCHANGED clock
  BY <1>1, <1>5 DEF clock, ClockOK
<1> QED
  BY <1>3, <1>4, <1>5

LEMMA ClockSet ==
    ASSUME NEW m, SetsClock(m)
    PROVE  Sync(m, TRUE) \/ Sync(m, FALSE) \/ UNCHANGED clock
BY DEF SetsClock, Sync

LEMMA AcksTyped ==
    ASSUME TypeOK, NEW all \in SUBSET Ids, Owe(all)
    PROVE  owed' \in SUBSET Ids /\ sending' \subseteq SUBSET Ids
BY DEF TypeOK, Owe

LEMMA ArrivesTyped ==
    ASSUME TypeOK, NEW m \in Ids, Arrives(m)
    PROVE  TypeOK'
<1>1. /\ floor' \in 0 .. MaxTime
      /\ stored' \in SUBSET Ids
      /\ wire' \in SUBSET Ids
  <2>1. floor' \in NextFloor
    BY DEF Arrives
  <2>2. floor' \in 0 .. MaxTime /\ Kept(floor') \subseteq stored
    BY <2>1, FloorTyped
  <2> QED
    BY <2>2 DEF Arrives, TypeOK
<1>2. Owed(m) \in SUBSET Ids /\ Detailed[m] \in SUBSET Ids
  BY WindowParameters DEF Owed, TypeOK, Ids
<1>3. CASE DiscardReplay(m)
  <2>1. SetsClock(m)
    BY <1>3 DEF DiscardReplay
  <2>3. ClockOK'
    BY <2>1, ClockSet, ClockTyped
  <2>2. owed' \in SUBSET Ids /\ sending' \subseteq SUBSET Ids
    BY <1>2, <1>3, AcksTyped DEF DiscardReplay
  <2> QED
    BY <1>1, <1>3, <2>2, <2>3 DEF ClockOK, DiscardReplay, Arrives, TypeOK
<1>4. CASE DiscardSkewed(m)
  <2>1. Sync(m, FALSE) \/ UNCHANGED clock
    BY <1>4 DEF DiscardSkewed
  <2>2. owed' \in SUBSET Ids /\ sending' \subseteq SUBSET Ids
    BY <1>2, <1>4, AcksTyped DEF DiscardSkewed
  <2>3. breaches' \in 0 .. MaxBreaches - 1
    <3>1. breaches \in 0 .. MaxBreaches - 1 /\ MaxBreaches \in Nat \ {0}
      BY WindowParameters DEF TypeOK
    <3>2. CASE breaches + 1 >= MaxBreaches
      BY <1>4, <3>1, <3>2 DEF DiscardSkewed
    <3>3. CASE ~(breaches + 1 >= MaxBreaches)
      BY <1>4, <3>1, <3>3 DEF DiscardSkewed
    <3> QED
      BY <3>2, <3>3
  <2>4. ClockOK'
    BY <2>1, ClockSet, ClockTyped
  <2> QED
    BY <1>1, <1>4, <2>2, <2>3, <2>4 DEF ClockOK, DiscardSkewed, Arrives, TypeOK
<1>5. CASE Accept(m)
  <2>1. SetsClock(m)
    BY <1>5 DEF Accept
  <2>4. ClockOK'
    BY <2>1, ClockSet, ClockTyped
  <2>2. owed' \in SUBSET Ids /\ sending' \subseteq SUBSET Ids
    BY <1>2, <1>5, AcksTyped DEF Accept
  <2>3. breaches' \in 0 .. MaxBreaches - 1 /\ handled' \in [Ids -> Nat]
    BY <1>5, WindowParameters DEF Accept, TypeOK
  <2> QED
    BY <1>1, <1>5, <2>2, <2>3, <2>4 DEF ClockOK, Arrives, TypeOK
<1> QED
  BY <1>3, <1>4, <1>5 DEF Arrives

LEMMA SpendTyped ==
    ASSUME TypeOK, NEW e \in Bounded, Spend(e)
    PROVE  budget' \in [Bounded -> Nat]
BY DEF TypeOK, Spend

LEMMA TypesAreKept == TypeOK /\ [Next]_vars => TypeOK'
<1> SUFFICES ASSUME TypeOK, [Next]_vars
             PROVE  TypeOK'
  OBVIOUS
<1> USE WindowParameters DEF Ids
<1>1. CASE Sends
  <2>1. budget' \in [Bounded -> Nat]
    BY <1>1, SpendTyped DEF Bounded, Sends
  <2> QED
    BY <1>1, <2>1 DEF Sends, TypeOK, acks, window
<1>2. CASE Suspends
  <2>1. budget' \in [Bounded -> Nat]
    BY <1>2, SpendTyped DEF Bounded, Suspends
  <2>2. drift' \in Int
    BY <1>2 DEF Suspends, TypeOK
  <2> QED
    BY <1>2, <2>1, <2>2 DEF Suspends, TypeOK, acks, window, server
<1>3. CASE FlushAcks
  <2>1. sending' \subseteq SUBSET Ids /\ owed' \subseteq Ids
    BY <1>3 DEF FlushAcks, TypeOK
  <2> QED
    BY <1>3, <2>1 DEF FlushAcks, TypeOK, clock, window, server
<1>4. CASE Stops
  <2>1. budget' \in [Bounded -> Nat]
    BY <1>4, SpendTyped DEF Bounded, Stops
  <2>2. handled' \in [Ids -> Nat]
    BY <1>4 DEF Stops
  <2>3. wire' = {} /\ stored' = {} /\ up' = FALSE
    BY <1>4 DEF Stops
  <2>4. floor' \in 0 .. MaxTime
    BY <1>4 DEF Stops
  <2> QED
    BY <1>4, <2>1, <2>2, <2>3, <2>4 DEF Stops, TypeOK, clock, acks
<1>5. CASE Starts
  BY <1>5 DEF Starts, TypeOK, clock, acks, server
<1>6. ASSUME NEW m \in Ids, Redelivers(m)
      PROVE  TypeOK'
  BY <1>6 DEF Redelivers, TypeOK, clock, acks, window
<1>7. ASSUME NEW m \in Ids, Arrives(m)
      PROVE  TypeOK'
  BY <1>7, ArrivesTyped
<1>8. ASSUME NEW i \in Issuers, ReadsClock(i)
      PROVE  TypeOK'
  <2>1. budget' \in [Bounded -> Nat]
    BY <1>8, SpendTyped DEF Bounded, ReadsClock
  <2>2. reading' \in [Issuers -> Int \cup {None}]
    BY <1>8 DEF ReadsClock, Now, TypeOK
  <2> QED
    BY <1>8, <2>1, <2>2 DEF ReadsClock, TypeOK, server, acks, window
<1>9. ASSUME NEW i \in Issuers, Issues(i)
      PROVE  TypeOK'
  <2>1. reading[i] \in Int
    BY <1>9 DEF Issues, TypeOK
  <2>2. last' \in Int
    BY <1>9, <2>1 DEF Issues, Fresh, TypeOK
  <2>3. reading' \in [Issuers -> Int \cup {None}]
    BY <1>9 DEF Issues, TypeOK
  <2> QED
    BY <1>9, <2>2, <2>3 DEF Issues, TypeOK, server, acks, window
<1>10. ASSUME NEW batch \in sending, AcksSent(batch)
       PROVE  TypeOK'
  BY <1>10 DEF AcksSent, TypeOK, clock, window
<1>11. ASSUME NEW batch \in sending, AcksLost(batch)
       PROVE  TypeOK'
  <2>1. budget' \in [Bounded -> Nat]
    BY <1>11, SpendTyped DEF Bounded, AcksLost, TypeOK
  <2> QED
    BY <1>11, <2>1 DEF AcksLost, TypeOK, clock, window, server
<1>12. CASE UNCHANGED vars
  BY <1>12 DEF vars, TypeOK, clock, window, server, acks
<1> QED
  BY <1>1, <1>2, <1>3, <1>4, <1>5, <1>6, <1>7, <1>8, <1>9, <1>10, <1>11, <1>12 DEF Next

\* Every variable keeps its type: in particular the breaches of a connection
\* are counted afresh before they reach MAX_SKEW_BREACHES.
THEOREM InboundTypes == Spec => []TypeOK
BY TypesAtInit, TypesAreKept, PTL DEF Spec

-----------------------------------------------------------------------------
(* The replay window: what was handled is in the window or below the floor.*)

Remembered == \A m \in Ids : handled[m] > 0 => m =< floor \/ m \in stored

AboveFloor == \A s \in stored : s > floor /\ handled[s] > 0

EmptyIsFresh == stored = {} => floor = 0

StoppedIsEmpty == ~up => floor = 0

WindowInv ==
    /\ TypeOK /\ Remembered /\ AboveFloor /\ EmptyIsFresh /\ StoppedIsEmpty
    /\ HandledOnce /\ FloorIsOld

\* What a connection has handled of the messages later than f.
Later(f) == {m \in Ids : m > f /\ handled[m] > 0}

\* Dropping the older half loses no id that is not below the new floor, and
\* leaves more than half a window above it.
LEMMA Cut ==
    ASSUME WindowInv, NEW f \in NextFloor
    PROVE  /\ f \in 0 .. MaxTime /\ f >= floor
           /\ \A s \in Kept(f) : s \in stored /\ s > f
           /\ \A s \in stored : s =< f \/ s \in Kept(f)
           /\ stored # {} => Kept(f) # {}
           /\ f = floor \/ Cardinality(Kept(f)) > Window - Window \div 2
<1>1. f \in 0 .. MaxTime /\ floor \in 0 .. MaxTime /\ stored \subseteq Ids
  BY FloorTyped DEF WindowInv, TypeOK
<1>2. CASE ~Overfull
  BY <1>1, <1>2 DEF WindowInv, AboveFloor, NextFloor, Kept, Ids
<1>3. CASE Overfull
  <2> DEFINE Below == {s \in stored : s =< f}
  <2>1. f \in stored /\ Cardinality(Below) = Window \div 2
    BY <1>3 DEF NextFloor
  <2>2. Kept(f) = stored \ Below
    <3>1. f \in Int /\ \A s \in stored : s \in Int
      BY <1>1 DEF Ids
    <3>2. \A s \in stored : s > f <=> ~(s =< f)
      BY <3>1
    <3> QED
      BY <1>3, <3>2 DEF Kept
  <2>3. IsFiniteSet(stored)
    <3>1. IsFiniteSet(Ids)
      BY FS_Interval, WindowParameters DEF Ids
    <3> QED
      BY <1>1, <3>1, FS_Subset
  <2>4. stored \cap Below = Below
    OBVIOUS
  <2>5. /\ Cardinality(Kept(f)) = Cardinality(stored) - Window \div 2
        /\ IsFiniteSet(Kept(f))
    <3>1. /\ IsFiniteSet(stored \ Below)
          /\ Cardinality(stored \ Below) = Cardinality(stored) - Cardinality(stored \cap Below)
      BY <2>3, FS_Difference
    <3> QED
      BY <2>1, <2>2, <2>4, <3>1
  <2>6. Cardinality(stored) \in Nat /\ Cardinality(stored) > Window
    BY <1>3, <2>3, FS_CardinalityType DEF Overfull
  <2>7. Cardinality(Kept(f)) > Window - Window \div 2 /\ Cardinality(Kept(f)) > 0
    BY <2>5, <2>6, WindowParameters
  <2>8. Kept(f) # {}
    <3>1. ~(Cardinality({}) > 0)
      BY FS_EmptySet
    <3> QED
      BY <2>7, <3>1
  <2>9. f > floor
    BY <2>1 DEF WindowInv, AboveFloor
  <2> QED
    BY <1>1, <1>3, <2>7, <2>8, <2>9 DEF Kept, Ids
<1> QED
  BY <1>2, <1>3

\* Enough later messages stay enough when more are handled.
LEMMA LaterGrows ==
    ASSUME WindowInv, NEW f \in 0 .. MaxTime, NEW S \in SUBSET Ids,
           \A s \in S : s > f /\ handled'[s] > 0,
           Cardinality(S) > Window - Window \div 2
    PROVE  Cardinality({m \in Ids : m > f /\ handled'[m] > 0}) > Window - Window \div 2
<1> DEFINE T == {m \in Ids : m > f /\ handled'[m] > 0}
<1>1. S \subseteq T /\ T \subseteq Ids
  OBVIOUS
<1>2. IsFiniteSet(T)
  BY <1>1, FS_Interval, FS_Subset, WindowParameters DEF Ids
<1>3. Cardinality(S) =< Cardinality(T) /\ IsFiniteSet(S)
  BY <1>1, <1>2, FS_Subset
<1>4. Cardinality(S) \in Nat /\ Cardinality(T) \in Nat
  BY <1>2, <1>3, FS_CardinalityType
<1> QED
  BY <1>3, <1>4, WindowParameters

LEMMA ArrivesKeepsWindow ==
    ASSUME WindowInv, NEW m \in Ids, Arrives(m)
    PROVE  WindowInv'
<1>1. TypeOK' /\ TypeOK /\ StoppedIsEmpty'
  BY ArrivesTyped DEF WindowInv, Arrives, StoppedIsEmpty
<1>2. floor' \in NextFloor
  BY DEF Arrives
<1> DEFINE kept == Kept(floor')
<1>3. /\ floor' \in 0 .. MaxTime /\ floor' >= floor
      /\ \A s \in kept : s \in stored /\ s > floor'
      /\ \A s \in stored : s =< floor' \/ s \in kept
      /\ stored # {} => kept # {}
      /\ floor' = floor \/ Cardinality(kept) > Window - Window \div 2
  BY <1>2, Cut
<1>4. /\ floor \in 0 .. MaxTime /\ stored \subseteq Ids /\ handled \in [Ids -> Nat]
      /\ Ids \subseteq Nat
  <2>1. Ids \subseteq Nat
    BY WindowParameters DEF Ids
  <2> QED
    BY <1>1, <2>1 DEF TypeOK
<1>5. \/ handled' = handled /\ stored' = kept
      \/ /\ handled' = [handled EXCEPT ![m] = @ + 1]
         /\ stored' = kept \cup {m} /\ ~IsReplay(m, floor')
  BY DEF Arrives, DiscardReplay, DiscardSkewed, Accept
<1>6. \A n \in Ids : handled[n] > 0 => handled'[n] > 0
  BY <1>4, <1>5
<1> HIDE DEF kept
<1>7. FloorIsOld'
  <2> SUFFICES ASSUME floor' > 0
               PROVE  Cardinality({n \in Ids : n > floor' /\ handled'[n] > 0})
                          > Window - Window \div 2
    BY DEF FloorIsOld
  <2>1. CASE floor' = floor
    <3>1. Cardinality(Later(floor)) > Window - Window \div 2
      BY <2>1 DEF WindowInv, FloorIsOld, Later
    <3>2. Later(floor) \subseteq Ids /\ \A s \in Later(floor) : s > floor' /\ handled'[s] > 0
      BY <1>6, <2>1 DEF Later
    <3> QED
      BY <1>3, <3>1, <3>2, LaterGrows
  <2>2. CASE Cardinality(kept) > Window - Window \div 2
    <3>1. kept \subseteq Ids /\ \A s \in kept : s > floor' /\ handled'[s] > 0
      BY <1>3, <1>4, <1>6 DEF WindowInv, AboveFloor
    <3> QED
      BY <1>3, <2>2, <3>1, LaterGrows
  <2> QED
    BY <1>3, <2>1, <2>2
<1>8. CASE handled' = handled /\ stored' = kept
  <2>1. Remembered'
    BY <1>3, <1>4, <1>8 DEF WindowInv, Remembered
  <2>2. AboveFloor'
    BY <1>3, <1>8 DEF WindowInv, AboveFloor
  <2>3. EmptyIsFresh'
    <3>1. CASE stored = {}
      <4>1. floor = 0 /\ ~(Cardinality(stored) > Window)
        BY <3>1, FS_EmptySet, WindowParameters DEF WindowInv, EmptyIsFresh
      <4> QED
        BY <1>2, <4>1 DEF NextFloor, Overfull, EmptyIsFresh
    <3> QED
      BY <1>3, <1>8, <3>1 DEF EmptyIsFresh
  <2>4. HandledOnce'
    BY <1>8 DEF WindowInv, HandledOnce
  <2> QED
    BY <1>1, <1>7, <2>1, <2>2, <2>3, <2>4 DEF WindowInv
<1>9. CASE /\ handled' = [handled EXCEPT ![m] = @ + 1]
           /\ stored' = kept \cup {m} /\ ~IsReplay(m, floor')
  <2>1. m > floor' /\ m \notin stored
    <3>1. CASE stored = {}
      <4>1. floor = 0 /\ ~(Cardinality(stored) > Window)
        BY <3>1, FS_EmptySet, WindowParameters DEF WindowInv, EmptyIsFresh
      <4>2. floor' = 0
        BY <1>2, <4>1 DEF NextFloor, Overfull
      <4> QED
        BY <3>1, <4>2 DEF Ids
    <3>2. CASE stored # {}
      <4>1. ~(m =< floor') /\ m \notin kept
        BY <1>9, <3>2 DEF IsReplay, kept
      <4> QED
        BY <1>3, <1>4, <4>1
    <3> QED
      BY <3>1, <3>2
  <2>2. handled[m] = 0
    BY <1>3, <1>4, <2>1 DEF WindowInv, Remembered
  <2>3. handled'[m] = 1 /\ \A n \in Ids \ {m} : handled'[n] = handled[n]
    BY <1>4, <1>9, <2>2
  <2>4. Remembered'
    BY <1>3, <1>4, <1>9, <2>3 DEF WindowInv, Remembered
  <2>5. AboveFloor'
    <3>1. \A s \in kept : s > floor' /\ handled'[s] > 0
      BY <1>3, <1>4, <1>6 DEF WindowInv, AboveFloor
    <3> QED
      BY <1>9, <2>1, <2>3, <3>1 DEF AboveFloor
  <2>6. EmptyIsFresh'
    BY <1>9 DEF EmptyIsFresh
  <2>7. HandledOnce'
    BY <2>3 DEF WindowInv, HandledOnce
  <2> QED
    BY <1>1, <1>7, <2>4, <2>5, <2>6, <2>7 DEF WindowInv
<1> QED
  BY <1>5, <1>8, <1>9

\* A new connection starts with an empty window, and has handled nothing.
LEMMA WindowAtRest ==
    ASSUME TypeOK', stored' = {}, floor' = 0, handled' = [m \in Ids |-> 0]
    PROVE  WindowInv'
BY DEF WindowInv, Remembered, AboveFloor, EmptyIsFresh, StoppedIsEmpty, HandledOnce, FloorIsOld

LEMMA WindowAtInit == Init => WindowInv
BY TypesAtInit
DEF Init, WindowInv, Remembered, AboveFloor, EmptyIsFresh, StoppedIsEmpty, HandledOnce, FloorIsOld

LEMMA WindowUntouched ==
    ASSUME WindowInv, TypeOK', UNCHANGED <<up, stored, floor, handled>>
    PROVE  WindowInv'
BY DEF WindowInv, Remembered, AboveFloor, EmptyIsFresh, StoppedIsEmpty, HandledOnce, FloorIsOld

LEMMA WindowIsKept == WindowInv /\ [Next]_vars => WindowInv'
<1> SUFFICES ASSUME WindowInv, [Next]_vars
             PROVE  WindowInv'
  OBVIOUS
<1>1. TypeOK'
  BY TypesAreKept DEF WindowInv
<1>2. CASE \E m \in Ids : Arrives(m)
  BY <1>2, ArrivesKeepsWindow
<1>3. CASE Stops
  BY <1>1, <1>3, WindowAtRest DEF Stops
<1>4. CASE Starts
  <2>1. stored' = stored /\ handled' = handled /\ floor' = 0
    BY <1>4 DEF Starts
  <2> QED
    <3>1. floor = 0
      BY <1>4 DEF Starts, WindowInv, StoppedIsEmpty
    <3> QED
      BY <1>1, <2>1, <3>1 DEF WindowInv, Remembered, AboveFloor, EmptyIsFresh, StoppedIsEmpty,
                              HandledOnce, FloorIsOld
<1>5. CASE \/ Sends \/ Suspends \/ FlushAcks
           \/ \E m \in Ids : Redelivers(m)
           \/ \E i \in Issuers : ReadsClock(i) \/ Issues(i)
           \/ \E batch \in sending : AcksSent(batch) \/ AcksLost(batch)
           \/ UNCHANGED vars
  <2>1. UNCHANGED <<up, stored, floor, handled>>
    BY <1>5 DEF Sends, Suspends, FlushAcks, Redelivers, ReadsClock, Issues, AcksSent, AcksLost,
                window, vars
  <2> QED
    BY <1>1, <2>1, WindowUntouched
<1> QED
  BY <1>2, <1>3, <1>4, <1>5 DEF Next

\* handle_packet() handles no message twice on one connection, whatever the
\* size of the window, however often the server repeats a message and in
\* whatever order they come.
THEOREM NothingIsHandledTwice == Spec => []HandledOnce
<1>1. WindowInv => HandledOnce
  BY DEF WindowInv
<1> QED
  BY <1>1, WindowAtInit, WindowIsKept, PTL DEF Spec

\* A message is below the floor of the window only if the connection has
\* handled more than half a window of later ones.
THEOREM OnlyOldIsDropped == Spec => []FloorIsOld
<1>1. WindowInv => FloorIsOld
  BY DEF WindowInv
<1> QED
  BY <1>1, WindowAtInit, WindowIsKept, PTL DEF Spec

-----------------------------------------------------------------------------
(* MsgId.                                                                  *)

IdsInv == TypeOK /\ IdsAreFresh

LEMMA IdsAreKept == IdsInv /\ [Next]_vars => IdsInv'
<1> SUFFICES ASSUME IdsInv, [Next]_vars
             PROVE  IdsInv'
  OBVIOUS
<1>1. TypeOK /\ TypeOK'
  BY TypesAreKept DEF IdsInv
<1>2. last \in Int /\ issued \subseteq Int /\ \A id \in issued : id =< last
  BY <1>1 DEF IdsInv, TypeOK, IdsAreFresh
<1>3. CASE issued' = issued /\ last' = last
  BY <1>1, <1>2, <1>3 DEF IdsInv, IdsAreFresh
<1>4. CASE issued' = {}
  BY <1>1, <1>4 DEF IdsInv, IdsAreFresh
<1>5. ASSUME NEW i \in Issuers, Issues(i)
      PROVE  IdsInv'
  <2>1. reading[i] \in Int
    BY <1>1, <1>5 DEF Issues, TypeOK
  <2>2. last' > last /\ last' \in Int /\ issued' = issued \cup {last'}
    BY <1>2, <1>5, <2>1 DEF Issues, Fresh
  <2> QED
    BY <1>1, <1>2, <2>2 DEF IdsInv, IdsAreFresh
<1>6. ASSUME NEW m \in Ids, Arrives(m)
      PROVE  issued' = {} \/ (issued' = issued /\ last' = last)
  BY <1>6 DEF Arrives, DiscardReplay, DiscardSkewed, Accept, SetsClock, Sync, clock
<1>7. CASE \/ Sends \/ Suspends \/ FlushAcks \/ Stops \/ Starts
           \/ \E m \in Ids : Redelivers(m)
           \/ \E i \in Issuers : ReadsClock(i)
           \/ \E batch \in sending : AcksSent(batch) \/ AcksLost(batch)
           \/ UNCHANGED vars
  <2>1. issued' = issued /\ last' = last
    BY <1>7 DEF Sends, Suspends, FlushAcks, Stops, Starts, Redelivers, ReadsClock, AcksSent,
                AcksLost, clock, vars
  <2> QED
    BY <1>3, <2>1
<1> QED
  BY <1>3, <1>4, <1>5, <1>6, <1>7 DEF Next

\* No id is issued twice between two rejections, for any number of threads,
\* however sync() moves the clock.
THEOREM EveryIdIsFresh == Spec => []IdsAreFresh
<1>1. Init => IdsInv
  BY TypesAtInit DEF Init, IdsInv, IdsAreFresh
<1>2. IdsInv => IdsAreFresh
  BY DEF IdsInv
<1> QED
  BY <1>1, <1>2, IdsAreKept, PTL DEF Spec
=============================================================================
