---------------------------- MODULE InboundWindow ----------------------------
(***************************************************************************)
(* What Session.handle_packet() does with the identity of a message before *)
(* it looks at its body: the acknowledgement it owes, the window of ids    *)
(* that recognises a replay, the comparison with the client's clock; and   *)
(* the clock itself, MsgId, from which the client's own ids come.          *)
(*                                                                         *)
(* The server stamps its messages with its time, one message a tick, and   *)
(* sends again what was not acknowledged; the network reorders.  A packet  *)
(* carries one message.  Its handling runs from the first lock to the last *)
(* without a suspension, so it is one step; only the acks are sent later.  *)
(***************************************************************************)
EXTENDS Integers, FiniteSets

CONSTANTS
    MaxTime,       \* bound: the messages of the server, 1 .. MaxTime
    Content,       \* those with an odd seq_no, which want an acknowledgement
    Bad,           \* bad_msg_notification and bad_server_salt
    Rejections,    \* those of error code 16 or 17
    Detailed,      \* Detailed[m] : the answers a msg_detailed_info m is about
    Window,        \* STORED_MSG_IDS_MAX_SIZE
    Threshold,     \* ACKS_THRESHOLD
    MaxAhead,      \* MAX_SKEW_AHEAD
    MaxBehind,     \* MAX_SKEW_BEHIND
    MaxBreaches,   \* MAX_SKEW_BREACHES
    Issuers,       \* threads that call MsgId()
    None,          \* what an issuer that waits has read
    Budgets        \* bounds: how much of each of these a run may have

\* Messages, ids issued, how wrong the clock is at the start, times the machine
\* sleeps, reconnects, and acks lost on a connection that stays up.
Bounded == {"messages", "issues", "drift", "suspends", "stops", "faults"}

ASSUME WindowParameters ==
    /\ MaxTime \in Nat \ {0} /\ Window \in Nat \ {0}
    /\ Threshold \in Nat \ {0} /\ MaxBreaches \in Nat \ {0}
    /\ MaxAhead \in Nat /\ MaxBehind \in Nat
    /\ Budgets \subseteq [Bounded -> Nat]
    /\ Content \subseteq 1 .. MaxTime
    /\ Rejections \subseteq Bad
    /\ Bad \subseteq 1 .. MaxTime
    /\ Detailed \in [1 .. MaxTime -> SUBSET (1 .. MaxTime)]

VARIABLES
    time,     \* the server's; the messages sent so far are 1 .. time
    wire,     \* messages on their way
    acked,    \* messages whose ack the server has
    drift,    \* MsgId.now() is time + drift
    last,     \* MsgId._last_msg_id
    reading,  \* the time an issuer has read, or None
    issued,   \* ghost: ids issued since the server last rejected one
    up,       \* the session is started
    stored,   \* stored_msg_ids, sorted
    floor,    \* _msg_id_floor
    breaches, \* _skew_breaches
    owed,     \* pending_acks
    sending,  \* lists of acks handed to send()
    handled,  \* ghost: how often this connection handled each message
    budget    \* ghost: what is left of the bounded events

server == <<time, wire, acked>>
clock == <<drift, last, reading, issued>>
window == <<up, stored, floor, breaches, handled>>
acks == <<owed, sending>>
vars == <<server, clock, window, acks, budget>>

Ids == 1 .. MaxTime
Now == time + drift

TypeOK ==
    /\ time \in 0 .. MaxTime
    /\ wire \subseteq Ids /\ acked \subseteq Ids
    /\ stored \subseteq Ids /\ owed \subseteq Ids
    /\ drift \in Int /\ last \in Int
    /\ reading \in [Issuers -> Int \cup {None}]
    /\ issued \subseteq Int
    /\ up \in BOOLEAN
    /\ floor \in 0 .. MaxTime
    /\ breaches \in 0 .. MaxBreaches - 1
    /\ sending \subseteq SUBSET Ids
    /\ handled \in [Ids -> Nat]
    /\ budget \in [Bounded -> Nat]

Init ==
    /\ time = 0 /\ wire = {} /\ acked = {}
    /\ budget \in Budgets
    /\ drift \in -budget["drift"] .. budget["drift"]
    /\ last = 0 /\ reading = [i \in Issuers |-> None] /\ issued = {}
    /\ up = TRUE /\ stored = {} /\ floor = 0 /\ breaches = 0
    /\ owed = {} /\ sending = {}
    /\ handled = [m \in Ids |-> 0]

Spend(event) ==
    /\ budget[event] > 0
    /\ budget' = [budget EXCEPT ![event] = @ - 1]

-----------------------------------------------------------------------------
(* The server, the network and the machine.                                *)

Sends ==
    /\ time < MaxTime
    /\ Spend("messages")
    /\ time' = time + 1
    /\ wire' = wire \cup {time + 1}
    /\ drift' = drift
    /\ UNCHANGED <<acked, last, reading, issued, window, acks>>

\* "The server keeps re-delivering" what it has no ack for.
Redelivers(m) ==
    /\ up
    /\ m \in (Content \cap 1 .. time) \ (acked \cup wire)
    /\ wire' = wire \cup {m}
    /\ UNCHANGED <<time, acked, clock, window, acks, budget>>

\* time.monotonic() stands still while the machine sleeps: the clock falls behind
\* by enough for the next message to be out of step.
Suspends ==
    /\ Spend("suspends")
    /\ drift' = drift - (MaxAhead + 1)
    /\ UNCHANGED <<server, last, reading, issued, window, acks>>

-----------------------------------------------------------------------------
(* MsgId.                                                                  *)

\* MsgId.sync(m, rejected): the clock shows the time of the message.
Sync(m, rejected) ==
    /\ drift' = m - time
    /\ last' = IF rejected THEN 0 ELSE last
    /\ issued' = IF rejected THEN {} ELSE issued
    /\ UNCHANGED reading

\* now is read before the lock is taken.
ReadsClock(i) ==
    /\ reading[i] = None
    /\ Spend("issues")
    /\ reading' = [reading EXCEPT ![i] = Now]
    /\ UNCHANGED <<server, drift, last, issued, window, acks>>

\* Mutant: the id is taken from the clock unless it is the very last one.
FreshUnlessLast(now) == IF now = last THEN last + 1 ELSE now

Fresh(now) == IF now > last THEN now ELSE last + 1

Issues(i) ==
    /\ reading[i] # None
    /\ last' = Fresh(reading[i])
    /\ issued' = issued \cup {last'}
    /\ reading' = [reading EXCEPT ![i] = None]
    /\ UNCHANGED <<server, drift, window, acks, budget>>

-----------------------------------------------------------------------------
(* handle_packet().                                                        *)

Overfull == Cardinality(stored) > Window

\* Mutant: the floor becomes the newest id of the window.
FloorOfNewest ==
    IF Overfull
    THEN {f \in stored : \A s \in stored : s =< f}
    ELSE {floor}

\* The floor after the older half of a full window is dropped.
NextFloor ==
    IF Overfull
    THEN {f \in stored : Cardinality({s \in stored : s =< f}) = Window \div 2}
    ELSE {floor}

\* What is left of the window above it.
Kept(f) == IF Overfull THEN {s \in stored : s > f} ELSE stored

\* Mutant: only the window is searched, as if it forgot nothing.
IsRemembered(m, f) == m \in Kept(f)

IsReplay(m, f) == stored # {} /\ (m =< f \/ m \in Kept(f))

\* Not the first message, and not a notification about the clock itself.
Skewed(m) ==
    /\ stored # {}
    /\ m \notin Bad
    /\ m - Now > MaxAhead \/ Now - m > MaxBehind

\* The first message of a connection and a rejection set the clock.
SetsClock(m) ==
    IF m \in Rejections \/ stored = {}
    THEN Sync(m, m \in Rejections)
    ELSE UNCHANGED clock

\* At the end of a packet the acks go out if enough of them are owed.
Owe(all) ==
    IF Cardinality(all) >= Threshold
    THEN owed' = {} /\ sending' = sending \cup {all}
    ELSE owed' = all /\ UNCHANGED sending

\* Mutant: a message is acknowledged only if it passes the checks below.
OwedLater(m) == owed

\* Owed whatever becomes of the message.
Owed(m) == owed \cup ({m} \cap Content)

DiscardReplay(m) ==
    /\ SetsClock(m)
    /\ Owe(Owed(m))
    /\ UNCHANGED <<breaches, handled>>

\* Mutant: the breaches are not counted afresh after the clock was set.
DiscardSkewedOn(m) ==
    /\ breaches' = breaches + 1
    /\ IF breaches + 1 >= MaxBreaches THEN Sync(m, FALSE) ELSE UNCHANGED clock
    /\ Owe(Owed(m))
    /\ UNCHANGED handled

\* The third in a row shows that it is the client's clock that is wrong.
DiscardSkewed(m) ==
    /\ IF breaches + 1 >= MaxBreaches
       THEN breaches' = 0 /\ Sync(m, FALSE)
       ELSE breaches' = breaches + 1 /\ UNCHANGED clock
    /\ Owe(Owed(m))
    /\ UNCHANGED handled

Accept(m) ==
    /\ SetsClock(m)
    /\ breaches' = 0
    /\ handled' = [handled EXCEPT ![m] = @ + 1]
    /\ Owe(Owed(m) \cup Detailed[m])

Arrives(m) ==
    /\ up
    /\ m \in wire
    /\ wire' = wire \ {m}
    /\ floor' \in NextFloor
    /\ stored' = IF IsReplay(m, floor') \/ Skewed(m) THEN Kept(floor') ELSE Kept(floor') \cup {m}
    /\ \/ IsReplay(m, floor') /\ DiscardReplay(m)
       \/ ~IsReplay(m, floor') /\ Skewed(m) /\ DiscardSkewed(m)
       \/ ~IsReplay(m, floor') /\ ~Skewed(m) /\ Accept(m)
    /\ UNCHANGED <<time, acked, up, budget>>

-----------------------------------------------------------------------------
(* Acks: the ping worker sends what is owed, however few.                  *)

FlushAcks ==
    /\ up
    /\ owed # {}
    /\ sending' = sending \cup {owed}
    /\ owed' = {}
    /\ UNCHANGED <<server, clock, window, budget>>

AcksSent(batch) ==
    /\ up
    /\ batch \in sending
    /\ sending' = sending \ {batch}
    /\ acked' = acked \cup batch
    /\ UNCHANGED <<time, wire, clock, window, owed, budget>>

\* An OSError of send() is ignored: what was owed is forgotten.
AcksLost(batch) ==
    /\ batch \in sending
    /\ IF up THEN Spend("faults") ELSE UNCHANGED budget
    /\ sending' = sending \ {batch}
    /\ UNCHANGED <<server, clock, window, owed>>

-----------------------------------------------------------------------------
(* stop() clears the window, start() the floor and the breaches.  What was *)
(* on its way is lost; pending_acks stays.                                 *)

Stops ==
    /\ up
    /\ Spend("stops")
    /\ up' = FALSE
    /\ wire' = {}
    /\ stored' = {} /\ floor' = 0
    /\ handled' = [m \in Ids |-> 0]
    /\ UNCHANGED <<time, acked, clock, breaches, acks>>

Starts ==
    /\ ~up
    /\ up' = TRUE
    /\ floor' = 0 /\ breaches' = 0
    /\ UNCHANGED <<server, clock, stored, handled, acks, budget>>

-----------------------------------------------------------------------------

Next ==
    \/ Sends \/ Suspends \/ FlushAcks \/ Stops \/ Starts
    \/ \E m \in Ids : Redelivers(m) \/ Arrives(m)
    \/ \E i \in Issuers : ReadsClock(i) \/ Issues(i)
    \/ \E batch \in sending : AcksSent(batch) \/ AcksLost(batch)

Spec == Init /\ [][Next]_vars

\* The server delivers again; packets, the ping worker and send() get their
\* turns; the session is started again.
Fairness ==
    /\ \A m \in Ids : WF_vars(Redelivers(m)) /\ WF_vars(Arrives(m))
    /\ WF_vars(FlushAcks) /\ WF_vars(Starts)
    /\ WF_vars(\E batch \in sending : AcksSent(batch))

FairSpec == Spec /\ Fairness

-----------------------------------------------------------------------------

\* A connection handles no message twice, although the window forgets its
\* older half and the server sends again what it has no ack for.
HandledOnce == \A m \in Ids : handled[m] =< 1

\* What lies below the floor is dropped unread, so the floor must be old: the
\* connection has handled more than half a window of later messages.
FloorIsOld ==
    floor > 0 =>
        Cardinality({m \in Ids : m > floor /\ handled[m] > 0}) > Window - Window \div 2

\* MsgId() issues no id twice between two rejections, although two threads
\* race for it and sync() sets the clock back: every id issued lies at or
\* below the last one, so the next is new.
IdsAreFresh == \A id \in issued : id =< last

\* Every message that wants an acknowledgement gets one, although acks are
\* forgotten before they are sent: the copies the server sends again are
\* replays, and owed all the same.
EveryMessageIsAcked == \A m \in Content : m =< time ~> m \in acked
=============================================================================
