--------------------------- MODULE GovernorProofs ---------------------------
(***************************************************************************)
(* Proofs about ConnectGovernor, for any number of sessions and any        *)
(* durations: its types, that nobody sleeps past the pause it waits for,   *)
(* and that nobody is admitted to dial during one.                         *)
(***************************************************************************)
EXTENDS ConnectGovernor, TLAPS

\* The inductive invariant.  That only the holder of the gate sleeps is what
\* keeps a booked slot or a flood from being missed by a second sleeper.
GovernorInv == TypeOK /\ NoOversleep

LEMMA EscalatedBound ==
    ASSUME TypeOK
    PROVE  Escalated \in FloodBase .. MaxBackoff
BY GovernorAssumption DEF TypeOK, Escalated, Smaller, Larger

LEMMA LessBound ==
    ASSUME NEW b \in Nat, NEW d \in 0 .. b
    PROVE  Less(d) \in 0 .. b /\ Less(d) <= d
BY DEF Less

LEMMA InitGovernor == Init => GovernorInv
BY GovernorAssumption
DEF Init, GovernorInv, TypeOK, NoOversleep, States

-----------------------------------------------------------------------------
(* The steps *)

LEMMA AcquireKeeps ==
    ASSUME GovernorInv, NEW s \in Sessions, Acquire(s)
    PROVE  GovernorInv'
<1> USE DEF GovernorInv, TypeOK, Acquire, Become, States
<1>1. TypeOK'
  OBVIOUS
<1>2. ASSUME NEW u \in Sessions, state'[u] = "asleep" PROVE Holds(u)'
  <2>1. u # s /\ state[u] = "asleep"
    BY <1>2
  <2> QED
    BY <2>1 DEF NoOversleep, Holds
<1> QED
  BY <1>1, <1>2 DEF NoOversleep

LEMMA GateKeeps ==
    ASSUME GovernorInv, NEW s \in Sessions, Gate(s)
    PROVE  GovernorInv'
<1> USE GovernorAssumption DEF GovernorInv, TypeOK, Become, States
<1>1. CASE Sleeps(s)
  BY <1>1 DEF Sleeps, NoOversleep, Holds, Delay, Larger
<1>2. CASE Admitted(s)
  <2>1. TypeOK'
    BY <1>2 DEF Admitted, Admit, Holds
  <2>2. ASSUME NEW u \in Sessions PROVE state'[u] # "asleep"
    BY <1>2 DEF Admitted, Admit, Holds, NoOversleep
  <2> QED
    BY <2>1, <2>2 DEF NoOversleep
<1>3. CASE Wakes(s)
  BY <1>3 DEF Wakes, NoOversleep, Holds
<1> QED
  BY <1>1, <1>2, <1>3 DEF Gate

LEMMA ConnectKeeps ==
    ASSUME GovernorInv, NEW s \in Sessions,
           Dialled(s) \/ DialsAgain(s) \/ Drops(s) \/ HandshakeDone(s)
    PROVE  GovernorInv'
<1> USE GovernorAssumption DEF GovernorInv, TypeOK, Become, States
<1>1. UNCHANGED <<nextIn, floodIn, queue, sleepIn>>
  BY DEF Dialled, DialsAgain, Drops, HandshakeDone
<1>2. ASSUME NEW u \in Sessions, state'[u] = "asleep" PROVE state[u] = "asleep"
  BY <1>2 DEF Dialled, DialsAgain, Drops, HandshakeDone
<1>3. backoff' \in {0} \cup FloodBase .. MaxBackoff
  BY DEF Dialled, DialsAgain, Drops, HandshakeDone
<1>4. state' \in [Sessions -> States]
  BY DEF Dialled, DialsAgain, Drops, HandshakeDone
<1>5. tries' \in [Sessions -> 0 .. DialTries - 1]
  <2>1. CASE DialsAgain(s)
    BY <2>1 DEF DialsAgain
  <2>2. CASE ~DialsAgain(s)
    BY <2>2 DEF Dialled, Drops, HandshakeDone
  <2> QED
    BY <2>1, <2>2
<1> QED
  BY <1>1, <1>2, <1>3, <1>4, <1>5 DEF NoOversleep, Holds

LEMMA FloodKeeps ==
    ASSUME GovernorInv, NEW s \in Sessions, TransportFlood(s)
    PROVE  GovernorInv'
<1>1. /\ floodIn' \in 0 .. MaxBackoff /\ floodIn' >= floodIn
      /\ backoff' \in FloodBase .. MaxBackoff
  BY EscalatedBound, GovernorAssumption
  DEF TransportFlood, GovernorInv, TypeOK, Larger
<1> QED
  BY <1>1, GovernorAssumption
  DEF GovernorInv, TypeOK, NoOversleep, Holds, Become, States, TransportFlood,
      Larger

LEMMA CancelKeeps ==
    ASSUME GovernorInv, NEW s \in Sessions, Cancel(s)
    PROVE  GovernorInv'
<1> USE DEF GovernorInv, TypeOK, Become, States
<1>1. CASE state[s] = "dial" /\ UNCHANGED queue
  BY <1>1, GovernorAssumption DEF Cancel, NoOversleep, Holds
<1>2. ASSUME NEW i \in 1 .. Len(queue), queue[i] = s, queue' = Without(i)
      PROVE  GovernorInv'
  <2>1. queue' \in Seq(Sessions) /\ Len(queue') = Len(queue) - 1
    BY <1>2 DEF Without
  <2>2. TypeOK'
    <3>1. state' = [state EXCEPT ![s] = "down"] /\ tries' = [tries EXCEPT ![s] = 0]
      BY DEF Cancel
    <3>2. state' \in [Sessions -> States] /\ tries' \in [Sessions -> 0 .. DialTries - 1]
      BY <3>1, GovernorAssumption
    <3>3. UNCHANGED <<nextIn, floodIn, backoff, sleepIn>>
      BY DEF Cancel
    <3> QED
      BY <2>1, <3>2, <3>3
  <2>3. ASSUME NEW u \in Sessions, state'[u] = "asleep" PROVE Holds(u)'
    <3>1. u # s /\ state[u] = "asleep"
      BY <2>3 DEF Cancel
    <3>2. queue[1] = u /\ i # 1
      BY <1>2, <3>1 DEF NoOversleep, Holds
    <3>3. Len(queue') >= 1 /\ queue'[1] = u
      BY <1>2, <2>1, <3>2 DEF Without
    <3> QED
      BY <2>1, <3>3 DEF Holds
  <2> QED
    BY <2>2, <2>3 DEF NoOversleep, Cancel
<1> QED
  BY <1>1, <1>2 DEF Cancel

LEMMA TickKeeps ==
    ASSUME GovernorInv, Tick
    PROVE  GovernorInv'
<1>1. /\ nextIn' \in 0 .. Interval /\ floodIn' \in 0 .. MaxBackoff
      /\ sleepIn' \in Nat
  BY GovernorAssumption DEF Tick, GovernorInv, TypeOK, Less
<1>2. ASSUME NEW s \in Sessions, state'[s] = "asleep"
      PROVE  Holds(s)' /\ sleepIn' <= Larger(nextIn, floodIn)'
  BY <1>2, GovernorAssumption
  DEF Tick, GovernorInv, TypeOK, NoOversleep, Holds, Less, Larger
<1> QED
  BY <1>1, <1>2 DEF Tick, GovernorInv, TypeOK, NoOversleep

LEMMA NextKeeps == GovernorInv /\ [Next]_vars => GovernorInv'
<1> SUFFICES ASSUME GovernorInv, [Next]_vars PROVE GovernorInv'
  OBVIOUS
<1>1. CASE UNCHANGED vars
  BY <1>1 DEF vars, GovernorInv, TypeOK, NoOversleep, Holds
<1> QED
  BY <1>1, TickKeeps, AcquireKeeps, GateKeeps, ConnectKeeps, FloodKeeps,
     CancelKeeps DEF Next

-----------------------------------------------------------------------------
(* The theorems *)

\* The deadlines stay within their windows, in particular the escalation of
\* the flood pause within CONNECT_MAX_BACKOFF.
THEOREM GovernorTypes == Spec => []TypeOK
<1>1. GovernorInv => TypeOK
  BY DEF GovernorInv
<1> QED
  BY <1>1, InitGovernor, NextKeeps, PTL DEF Spec

\* The session that holds the gate is the only one that sleeps, and it never
\* sleeps past the pause it waits for.
THEOREM NobodyOversleeps == Spec => []NoOversleep
<1>1. GovernorInv => NoOversleep
  BY DEF GovernorInv
<1> QED
  BY <1>1, InitGovernor, NextKeeps, PTL DEF Spec

\* A session is admitted to dial outside every flood window and no sooner than
\* CONNECT_MIN_INTERVAL after the one before it.
THEOREM AdmissionsAreSpaced == Spec => AdmittedInTime
<1>1. TypeOK /\ [Next]_vars =>
        [\A s \in Sessions :
            state[s] \in {"gate", "asleep"} /\ state'[s] = "dial" =>
                floodIn = 0 /\ nextIn = 0]_vars
  <2> SUFFICES ASSUME TypeOK, Next,
                      NEW s \in Sessions, state[s] \in {"gate", "asleep"},
                      state'[s] = "dial"
               PROVE  floodIn = 0 /\ nextIn = 0
    BY DEF TypeOK
  <2>1. Admitted(s)
    BY DEF TypeOK, Next, Tick, Acquire, Gate, Sleeps, Admitted, Admit, Wakes,
           Become, Dialled, DialsAgain, Drops, HandshakeDone, TransportFlood,
           Cancel
  <2> QED
    BY <2>1, GovernorAssumption DEF Admitted, Delay, Larger, TypeOK
<1> QED
  BY <1>1, GovernorTypes, PTL DEF Spec, AdmittedInTime
=============================================================================
