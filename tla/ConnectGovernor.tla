--------------------------- MODULE ConnectGovernor ---------------------------
(***************************************************************************)
(* The pacing of connections across a client's sessions:                   *)
(* acquire_connection_slot(), note_connection_ok() and                     *)
(* note_transport_flood() of pyrogram/client.py, with the dials of         *)
(* Connection.connect() (pyrogram/connection/connection.py) they pace.     *)
(*                                                                         *)
(* A deadline is the time that is left until it, so that no clock has to   *)
(* be bounded.  The holder of _connect_gate is the head of the queue of    *)
(* its lock.                                                               *)
(***************************************************************************)
EXTENDS Integers, Sequences

CONSTANTS
    Sessions,
    Interval,       \* CONNECT_MIN_INTERVAL
    FloodBase,      \* CONNECT_FLOOD_BASE
    MaxBackoff,     \* CONNECT_MAX_BACKOFF
    DialTries       \* Connection.MAX_RETRIES

ASSUME GovernorAssumption ==
    /\ Interval \in Nat
    /\ FloodBase \in Nat \ {0}
    /\ MaxBackoff \in Nat
    /\ FloodBase <= MaxBackoff
    /\ DialTries \in Nat \ {0}

VARIABLES
    nextIn,         \* time until _next_connect_at
    floodIn,        \* time until _transport_flood_until
    backoff,        \* _connect_backoff
    queue,          \* sessions at _connect_gate; the first one holds it
    sleepIn,        \* time until the holder's sleep ends
    state,          \* of each session
    tries           \* dials a session's connect() has lost

vars == <<nextIn, floodIn, backoff, queue, sleepIn, state, tries>>

States == {"down", "gate", "asleep", "dial", "hello", "up"}

Larger(a, b) == IF a >= b THEN a ELSE b
Smaller(a, b) == IF a <= b THEN a ELSE b

TypeOK ==
    /\ nextIn \in 0 .. Interval
    /\ floodIn \in 0 .. MaxBackoff
    /\ backoff \in {0} \cup FloodBase .. MaxBackoff
    /\ queue \in Seq(Sessions)
    /\ sleepIn \in Nat
    /\ state \in [Sessions -> States]
    /\ tries \in [Sessions -> 0 .. DialTries - 1]

Init ==
    /\ nextIn = 0
    /\ floodIn = 0
    /\ backoff = 0
    /\ queue = <<>>
    /\ sleepIn = 0
    /\ state = [s \in Sessions |-> "down"]
    /\ tries = [s \in Sessions |-> 0]

-----------------------------------------------------------------------------
(* acquire_connection_slot() *)

Holds(s) == queue # <<>> /\ Head(queue) = s
Become(s, st) == state' = [state EXCEPT ![s] = st]

\* Mutant: the gate is not first come, first served.
AcquireFirst(s) ==
    /\ state[s] = "down"
    /\ queue' = <<s>> \o queue
    /\ Become(s, "gate")
    /\ UNCHANGED <<nextIn, floodIn, backoff, sleepIn, tries>>

\* A session that needs a connection queues for the gate.
Acquire(s) ==
    /\ state[s] = "down"
    /\ queue' = Append(queue, s)
    /\ Become(s, "gate")
    /\ UNCHANGED <<nextIn, floodIn, backoff, sleepIn, tries>>

\* Mutant: the two pauses are added up.
SummedDelay == nextIn + floodIn

Delay == Larger(nextIn, floodIn)

\* The holder looks at the deadlines and has to wait for the later one.
Sleeps(s) ==
    /\ Holds(s)
    /\ state[s] = "gate"
    /\ Delay > 0
    /\ sleepIn' = Delay
    /\ Become(s, "asleep")
    /\ UNCHANGED <<nextIn, floodIn, backoff, queue, tries>>

\* The holder is admitted: it books the next slot and passes the gate on.
Admit(s) ==
    /\ Holds(s)
    /\ queue' = Tail(queue)
    /\ nextIn' = Interval
    /\ Become(s, "dial")
    /\ UNCHANGED <<floodIn, backoff, sleepIn, tries>>

Admitted(s) ==
    /\ state[s] = "gate"
    /\ Delay <= 0
    /\ Admit(s)

\* Mutant: a session that has slept does not look at the deadlines again.
WakesAdmitted(s) ==
    /\ state[s] = "asleep"
    /\ sleepIn = 0
    /\ Admit(s)

\* The sleep is over: look again, the deadlines may have moved.
Wakes(s) ==
    /\ Holds(s)
    /\ state[s] = "asleep"
    /\ sleepIn = 0
    /\ Become(s, "gate")
    /\ UNCHANGED <<nextIn, floodIn, backoff, queue, sleepIn, tries>>

-----------------------------------------------------------------------------
(* connect() and the handshake *)

Dialled(s) ==
    /\ state[s] = "dial"
    /\ Become(s, "hello")
    /\ tries' = [tries EXCEPT ![s] = 0]
    /\ UNCHANGED <<nextIn, floodIn, backoff, queue, sleepIn>>

\* An OSError: connect() dials again at once, without asking the governor.
DialsAgain(s) ==
    /\ state[s] = "dial"
    /\ tries[s] + 1 < DialTries
    /\ tries' = [tries EXCEPT ![s] = @ + 1]
    /\ UNCHANGED <<nextIn, floodIn, backoff, queue, sleepIn, state>>

\* The last dial failed, or the handshake or the session after it.
Drops(s) ==
    /\ \/ state[s] = "dial" /\ tries[s] + 1 = DialTries
       \/ state[s] \in {"hello", "up"}
    /\ Become(s, "down")
    /\ tries' = [tries EXCEPT ![s] = 0]
    /\ UNCHANGED <<nextIn, floodIn, backoff, queue, sleepIn>>

\* note_connection_ok()
HandshakeDone(s) ==
    /\ state[s] = "hello"
    /\ Become(s, "up")
    /\ backoff' = 0
    /\ UNCHANGED <<nextIn, floodIn, queue, sleepIn, tries>>

\* Mutant: the escalation is not capped.
UncappedBackoff == Larger(backoff * 2, FloodBase)

Escalated == Smaller(Larger(backoff * 2, FloodBase), MaxBackoff)

\* Transport error 429: note_transport_flood(); the receive loop reconnects.
TransportFlood(s) ==
    /\ state[s] \in {"hello", "up"}
    /\ backoff' = Escalated
    /\ floodIn' = Larger(floodIn, Escalated)
    /\ Become(s, "down")
    /\ UNCHANGED <<nextIn, queue, sleepIn, tries>>

\* Cancelling a session's start() takes it out of the queue, wherever it is.
Without(i) ==
    [k \in 1 .. Len(queue) - 1 |-> IF k < i THEN queue[k] ELSE queue[k + 1]]
Cancel(s) ==
    /\ \/ \E i \in 1 .. Len(queue) : queue[i] = s /\ queue' = Without(i)
       \/ state[s] = "dial" /\ UNCHANGED queue
    /\ Become(s, "down")
    /\ tries' = [tries EXCEPT ![s] = 0]
    /\ UNCHANGED <<nextIn, floodIn, backoff, sleepIn>>

-----------------------------------------------------------------------------
(* Time.  A sleep may end late: nothing makes a session wake at once.        *)

Less(d) == IF d = 0 THEN 0 ELSE d - 1

Tick ==
    /\ nextIn' = Less(nextIn)
    /\ floodIn' = Less(floodIn)
    /\ sleepIn' = Less(sleepIn)
    /\ UNCHANGED <<backoff, queue, state, tries>>

Gate(s) == Sleeps(s) \/ Admitted(s) \/ Wakes(s)

Next ==
    \/ Tick
    \/ \E s \in Sessions :
          \/ Acquire(s)
          \/ Gate(s)
          \/ Dialled(s) \/ DialsAgain(s) \/ Drops(s)
          \/ HandshakeDone(s) \/ TransportFlood(s)
          \/ Cancel(s)

Spec == Init /\ [][Next]_vars

\* Time passes and the event loop runs a session that holds the gate.
FairSpec == Spec /\ WF_vars(Tick) /\ \A s \in Sessions : WF_vars(Gate(s))

-----------------------------------------------------------------------------
(* Properties *)

\* A session is admitted to dial only outside a flood window and Interval after
\* the one before it, though a 429 may arrive while it sleeps or queues.
AdmittedInTime ==
    [][\A s \in Sessions :
          state[s] \in {"gate", "asleep"} /\ state'[s] = "dial" =>
              floodIn = 0 /\ nextIn = 0]_vars

\* The holder never sleeps past the deadlines, so a window delays nobody longer
\* than it lasts, and it is the only one that sleeps.
NoOversleep ==
    \A s \in Sessions :
        state[s] = "asleep" => Holds(s) /\ sleepIn <= Larger(nextIn, floodIn)

\* Once the server stops reporting floods everybody who waits gets a turn.
WaitersAreServed ==
    <>[](floodIn = 0) =>
        \A s \in Sessions : state[s] = "gate" ~> state[s] \in {"dial", "down"}
=============================================================================
