------------------------------- MODULE Updates -------------------------------
(***************************************************************************)
(* How updates get from the server to the dispatcher's queue: live, by     *)
(* Client.handle_updates(), and after a time offline, by recover_gaps(),   *)
(* with the pts that both keep in the storage (skip_updates=False).        *)
(*                                                                         *)
(* The server numbers the events of each message box with a pts.  An       *)
(* action is the code between two awaits of one task; the storage has one  *)
(* thread, so a write counts when it is called.                            *)
(***************************************************************************)
EXTENDS Naturals, Sequences, FiniteSets, FiniteSetsExt, SequencesExt

CONSTANTS
    Common,      \* the message box of the account, id 0 in the storage
    Channels,    \* channels have a message box of their own
    Tasks,       \* the tasks of _run_update()
    Happens,     \* bound: events of the common box
    ChannelHappens,  \* and of each channel
    More,        \* bound: how many of them are still to come
    BatchSize,   \* bound: updates in one Updates
    MaxLives,    \* bound: how often the client comes up
    MaxFaults    \* bound: updates lost on their way, failed requests

Boxes == Channels \cup {Common}

ASSUME UpdatesParameters ==
    /\ Common \notin Channels
    /\ IsFiniteSet(Tasks)
    /\ {Happens, ChannelHappens} \subseteq Nat \ (0 .. More)
    /\ {More, BatchSize, MaxLives, MaxFaults} \subseteq Nat

VARIABLES
    pts,         \* the server's pts of each box
    stored,      \* the pts of the table update_state, 0 for no row
    pipe,        \* events the server has pushed and the client not yet received
    queue,       \* the events put into updates_queue since the client came up
    phase,       \* of the client: see Phases
    task,        \* each _run_update(): its place, its events, and how many are queued
    recovery,    \* recover_gaps(): its place, box, local_pts and prev_pts
    states,      \* what it has read
    rest,        \* the boxes it has yet to do
    pending,     \* ghost: the events the client had missed when it came up
    gaveUp,      \* ghost: boxes that recover_gaps() left before the end
    writer,      \* ghost: who has written the row of each box last: see Writers
    lives, faults

server == <<pts, pipe>>
recovering == <<recovery, states, rest, gaveUp>>
ghosts == <<pending, writer>>
bounds == <<lives, faults>>
vars == <<pts, stored, pipe, queue, phase, task, recovering, ghosts, bounds>>

MaxPts(b) == IF b = Common THEN Happens ELSE ChannelHappens
Events == UNION {{b} \X (1 .. MaxPts(b)) : b \in Boxes}
\* "connected": the session receives, the dispatcher has not been started.
Phases == {"down", "connected", "running"}

\* "recovery": recover_gaps(), or an earlier life of the client; "toolong": it too, with
\* the pts of a TooLong answer; "batch" and "short": live updates.
Writers == {"recovery", "toolong", "batch", "short"}

Idle == [at |-> "idle", batch |-> <<>>, done |-> 0, left |-> {}]
NotRecovering == [at |-> "off", box |-> Common, pts |-> 0, prev |-> 0]

TypeOK ==
    /\ \A b \in Boxes : pts[b] \in 0 .. MaxPts(b) /\ stored[b] \in 0 .. pts[b]
    /\ pipe \subseteq Events /\ queue \subseteq Events
    /\ phase \in Phases
    /\ \A t \in Tasks :
          /\ task[t].at \in {"idle", "peers", "fetch", "store", "state", "ask"}
          /\ task[t].done \in 0 .. Len(task[t].batch)
    /\ recovery.at \in {"off", "top", "asked", "final", "over"}
    /\ recovery.pts \in 0 .. pts[recovery.box]
    /\ writer \in [Boxes -> Writers]

Init ==
    /\ pts = [b \in Boxes |-> MaxPts(b) - More]
    /\ stored \in [Boxes -> {0, 1}]    \* a new session, or one that knows the box
    /\ pipe = {} /\ queue = {}
    /\ phase = "down"
    /\ task = [t \in Tasks |-> Idle]
    /\ recovery = NotRecovering
    /\ states = [b \in Boxes |-> 0]
    /\ rest = {} /\ pending = {} /\ gaveUp = {}
    /\ writer = [b \in Boxes |-> "recovery"]
    /\ lives = 0 /\ faults = 0

Fault ==
    /\ faults < MaxFaults
    /\ faults' = faults + 1

-----------------------------------------------------------------------------
(* The server *)

\* Something happens; a client that is connected is told.
Occurs(b) ==
    /\ pts[b] < MaxPts(b)
    /\ pts' = [pts EXCEPT ![b] = @ + 1]
    /\ pipe' = IF phase = "down" THEN pipe ELSE pipe \cup {<<b, pts'[b]>>}
    /\ UNCHANGED <<stored, queue, phase, task, recovering, ghosts, bounds>>

\* A push is lost with the connection that carried it.
Lost(e) ==
    /\ e \in pipe
    /\ Fault
    /\ pipe' = pipe \ {e}
    /\ UNCHANGED <<pts, stored, queue, phase, task, recovering, ghosts, lives>>

-----------------------------------------------------------------------------
(* handle_updates() *)

\* A packet with some of the events, in any order; a single event of the common
\* box may come as an UpdateShortMessage, and any as an UpdateShort, which is
\* queued at once and stores nothing.
Received(t) ==
    /\ phase # "down"
    /\ task[t].at = "idle"
    /\ \E n \in 1 .. BatchSize : \E batch \in [1 .. n -> pipe] :
          /\ IsInjective(batch)
          /\ pipe' = pipe \ {batch[i] : i \in 1 .. n}
          /\ \/ /\ task' = [task EXCEPT ![t] =
                              [at |-> "peers", batch |-> batch, done |-> 0,
                               left |-> {batch[i][1] : i \in 1 .. n}]]
                /\ UNCHANGED queue
             \/ /\ n = 1 /\ batch[1][1] = Common
                /\ task' = [task EXCEPT ![t] =
                              [at |-> "state", batch |-> batch, done |-> 0, left |-> {}]]
                /\ UNCHANGED queue
             \/ /\ n = 1
                /\ queue' = queue \cup {batch[1]}
                /\ UNCHANGED task
    /\ UNCHANGED <<pts, stored, phase, recovering, ghosts, bounds>>

\* The loop over updates.updates puts events into the queue until one of a
\* channel needs GetChannelDifference, because a peer is min, or until the end.
\* from is the first event it puts without asking.
Runs(t, from) ==
    LET b == task[t].batch
    IN  \E n \in from .. Len(b) :
          /\ n < Len(b) => b[n + 1][1] \in Channels
          /\ queue' = queue \cup {b[i] : i \in (task[t].done + 1) .. n}
          /\ task' = [task EXCEPT ![t].done = n,
                                  ![t].at = IF n < Len(b) THEN "fetch" ELSE "store"]

\* fetch_peers() has returned.
Peers(t) ==
    /\ task[t].at = "peers"
    /\ Runs(t, 0)
    /\ UNCHANGED <<server, stored, phase, recovering, ghosts, bounds>>

\* The difference, or ChannelPrivate and the like: the event is queued anyway.
Fetched(t) ==
    /\ task[t].at = "fetch"
    /\ Runs(t, task[t].done + 1)
    /\ UNCHANGED <<server, stored, phase, recovering, ghosts, bounds>>

\* Any other error of the request ends the task, with what it has not queued.
Fails(t) ==
    /\ task[t].at \in {"fetch", "ask"}
    /\ Fault
    /\ task' = [task EXCEPT ![t] = Idle]
    /\ UNCHANGED <<server, stored, queue, phase, recovering, ghosts, lives>>

\* pending_states: the highest pts of each box, in the order of the batch.
Stores(t) ==
    LET b == task[t].batch
        first == Min({i \in DOMAIN b : b[i][1] \in task[t].left})
        box == b[first][1]
    IN  /\ task[t].at = "store"
        /\ stored' = [stored EXCEPT ![box] =
                         Max({b[i][2] : i \in {j \in DOMAIN b : b[j][1] = box}})]
        /\ writer' = [writer EXCEPT ![box] = "batch"]
        /\ task' = IF task[t].left = {box} THEN [task EXCEPT ![t] = Idle]
                   ELSE [task EXCEPT ![t].left = @ \ {box}]
        /\ UNCHANGED <<server, queue, phase, recovering, pending, bounds>>

\* UpdateShortMessage: its pts is stored, then its message is asked for.
StoresShort(t) ==
    /\ task[t].at = "state"
    /\ stored' = [stored EXCEPT ![Common] = task[t].batch[1][2]]
    /\ writer' = [writer EXCEPT ![Common] = "short"]
    /\ task' = [task EXCEPT ![t].at = "ask"]
    /\ UNCHANGED <<server, queue, phase, recovering, pending, bounds>>

\* GetDifference from just before it: new_messages[0] is the message, or
\* other_updates[0] stands for it.  Nothing is queued when both are empty, nor by
\* the task that fails on an answer without them (DifferenceEmpty).
Told(t) ==
    /\ task[t].at = "ask"
    /\ queue' \in {queue, queue \cup {task[t].batch[1]}}
    /\ task' = [task EXCEPT ![t] = Idle]
    /\ UNCHANGED <<server, stored, phase, recovering, ghosts, bounds>>

Handle(t) == Peers(t) \/ Fetched(t) \/ Stores(t) \/ StoresShort(t) \/ Told(t)

-----------------------------------------------------------------------------
(* recover_gaps(), which Dispatcher.start() waits for *)

Between(b, from, to) == {b} \X (from + 1 .. to)

\* The next row of the table, or the end.
NextState(todo, read) ==
    IF todo = {}
    THEN recovery' = [NotRecovering EXCEPT !.at = "over"] /\ rest' = {}
    ELSE \E b \in todo :
           /\ recovery' = [at |-> "top", box |-> b, pts |-> read[b], prev |-> 0]
           /\ rest' = todo \ {b}

\* The workers are there, then the states are read.
Starts ==
    /\ phase = "connected"
    /\ phase' = "running"
    /\ states' = stored
    /\ NextState({b \in Boxes : stored[b] > 0}, stored)
    /\ UNCHANGED <<server, stored, queue, task, gaveUp, ghosts, bounds>>

Asks ==
    /\ recovery.at = "top"
    /\ recovery' = [recovery EXCEPT !.at = "asked"]
    /\ UNCHANGED <<server, stored, queue, phase, task, states, rest,
                   gaveUp, ghosts, bounds>>

\* Mutant: the loop goes on with the next box, past the last update_state().
RefusedIsSkipped ==
    /\ recovery.at = "asked"
    /\ Fault
    /\ NextState(rest, states)
    /\ gaveUp' = gaveUp \cup {recovery.box}
    /\ UNCHANGED <<server, stored, queue, phase, task, states, ghosts, lives>>

\* ChannelPrivate, PersistentTimestampOutdated and the like.
Refused ==
    /\ recovery.at = "asked"
    /\ Fault
    /\ recovery' = [recovery EXCEPT !.at = "final"]
    /\ gaveUp' = gaveUp \cup {recovery.box}
    /\ UNCHANGED <<server, stored, queue, phase, task, states, rest,
                   ghosts, lives>>

Empty ==
    /\ recovery.at = "asked"
    /\ recovery.pts = pts[recovery.box]
    /\ stored' = [stored EXCEPT ![recovery.box] = recovery.pts]
    /\ writer' = [writer EXCEPT ![recovery.box] = "recovery"]
    /\ recovery' = [recovery EXCEPT !.at = "final"]
    /\ UNCHANGED <<server, queue, phase, task, states, rest, gaveUp,
                   pending, bounds>>

\* The server's pts is stored and the same question asked again: local_pts
\* stays as it was.
TooLong ==
    /\ recovery.at = "asked"
    /\ recovery.pts < pts[recovery.box]
    /\ stored' = [stored EXCEPT ![recovery.box] = pts[recovery.box]]
    /\ writer' = [writer EXCEPT ![recovery.box] = "toolong"]
    /\ recovery' = [recovery EXCEPT !.at = "top"]
    /\ UNCHANGED <<server, queue, phase, task, states, rest, gaveUp,
                   pending, bounds>>

\* Mutant: a slice is taken for the state of the server at the end of it all.
SliceOfState ==
    LET box == recovery.box
    IN  /\ recovery.at = "asked" /\ box = Common
        /\ \E to \in recovery.pts .. pts[box] - 1 :
              /\ queue' = queue \cup Between(box, recovery.pts, to)
              /\ recovery' = [recovery EXCEPT !.at = "top", !.pts = pts[box], !.prev = pts[box]]
        /\ UNCHANGED gaveUp
        /\ UNCHANGED <<server, stored, phase, task, states, rest, ghosts, bounds>>

\* Mutant: a slice that does not advance is asked for again and again.
SliceForEver ==
    LET box == recovery.box
    IN  /\ recovery.at = "asked" /\ box = Common
        /\ \E to \in recovery.pts .. pts[box] - 1 :
              /\ queue' = queue \cup Between(box, recovery.pts, to)
              /\ recovery' = [recovery EXCEPT !.at = "top", !.pts = to, !.prev = to]
        /\ UNCHANGED gaveUp
        /\ UNCHANGED <<server, stored, phase, task, states, rest, ghosts, bounds>>

\* Mutant: the loop is left after a slice.
SliceEnds ==
    LET box == recovery.box
    IN  /\ recovery.at = "asked" /\ box = Common
        /\ \E to \in recovery.pts .. pts[box] - 1 :
              /\ queue' = queue \cup Between(box, recovery.pts, to)
              /\ recovery' = [recovery EXCEPT !.at = "final", !.pts = to]
        /\ UNCHANGED gaveUp
        /\ UNCHANGED <<server, stored, phase, task, states, rest, ghosts, bounds>>

\* A part of the difference of the common box, and the loop goes on; the second
\* slice that does not advance ends it.
Slice ==
    LET box == recovery.box
    IN  /\ recovery.at = "asked" /\ box = Common
        /\ \E to \in recovery.pts .. pts[box] - 1 :
              IF to = recovery.prev
              THEN /\ recovery' = [recovery EXCEPT !.at = "final"]
                   /\ gaveUp' = gaveUp \cup {box}
                   /\ UNCHANGED queue
              ELSE /\ queue' = queue \cup Between(box, recovery.pts, to)
                   /\ recovery' = [recovery EXCEPT !.at = "top", !.pts = to, !.prev = to]
                   /\ UNCHANGED gaveUp
        /\ UNCHANGED <<server, stored, phase, task, states, rest, ghosts, bounds>>

\* The whole difference; that of a channel may leave out the end (final is not
\* set), which the loop does not look at: the box is left without an error.
Difference ==
    LET box == recovery.box
    IN  /\ recovery.at = "asked"
        /\ \E to \in recovery.pts + 1 .. pts[box] :
              /\ to < pts[box] => box \in Channels
              /\ queue' = queue \cup Between(box, recovery.pts, to)
              /\ recovery' = [recovery EXCEPT !.at = "final", !.pts = to]
              /\ gaveUp' = IF to < pts[box] THEN gaveUp \cup {box} ELSE gaveUp
        /\ UNCHANGED <<server, stored, phase, task, states, rest, ghosts, bounds>>

\* The last update_state() of a box.
Final ==
    /\ recovery.at = "final"
    /\ stored' = [stored EXCEPT ![recovery.box] = recovery.pts]
    /\ writer' = [writer EXCEPT ![recovery.box] = "recovery"]
    /\ NextState(rest, states)
    /\ UNCHANGED <<server, queue, phase, task, states, gaveUp, pending, bounds>>

Recover == Asks \/ Empty \/ TooLong \/ Slice \/ Difference \/ Final

-----------------------------------------------------------------------------
(* The client *)

\* connect(): the session receives from now on.
Connects ==
    /\ phase = "down"
    /\ lives < MaxLives
    /\ lives' = lives + 1
    /\ phase' = "connected"
    /\ pending' = UNION {Between(b, stored[b], pts[b]) : b \in {c \in Boxes : stored[c] > 0}}
    /\ gaveUp' = {}
    /\ states' = [b \in Boxes |-> 0]
    /\ UNCHANGED <<server, stored, queue, task, recovery, rest, writer, faults>>

\* The client is disconnected, at the latest when recover_gaps() raises another
\* error, or the process ends at any point.
Down ==
    /\ phase # "down"
    /\ phase' = "down"
    /\ pipe' = {} /\ queue' = {}
    /\ task' = [t \in Tasks |-> Idle]
    /\ recovery' = NotRecovering
    /\ rest' = {}
    /\ pending' = {} /\ gaveUp' = {}
    /\ writer' = [b \in Boxes |-> "recovery"]
    /\ UNCHANGED <<pts, stored, states, bounds>>

-----------------------------------------------------------------------------
(* The specification *)

Next ==
    \/ \E b \in Boxes : Occurs(b)
    \/ \E e \in Events : Lost(e)
    \/ \E t \in Tasks : Received(t) \/ Handle(t) \/ Fails(t)
    \/ Connects \/ Starts \/ Recover \/ Refused
    \/ Down

Spec == Init /\ [][Next]_vars

\* The server answers what recover_gaps() asks, and it goes on.
Fairness == WF_vars(Recover)

FairSpec == Spec /\ Fairness

-----------------------------------------------------------------------------
(* Properties *)

\* recover_gaps() never moves local_pts, which it stores at the end, past an
\* event that it has not put into the queue: what comes live meanwhile, slices,
\* refusals and TooLong answers make no hole.
RecoveryKeepsUp ==
    /\ TypeOK
    /\ recovery.at \in {"top", "asked", "final"} =>
           Between(recovery.box, states[recovery.box], recovery.pts) \subseteq queue

\* Once start() is over, what the client had missed has reached the dispatcher,
\* in so far as no live update of its box was stored before the states were read
\* and recover_gaps() did not leave the box early: by an error it catches, by a slice
\* that does not advance, or by a channel difference that is not the final one.
RecoveryIsComplete ==
    recovery.at = "over" =>
        \A e \in pending :
            e \in queue \/ e[1] \in gaveUp \/ e[2] <= states[e[1]]

\* The rows of update_state lose nothing that a later start could ask for, wherever
\* the client stops.  What it had missed and not dispatched stays above the row of
\* its box, also in the boxes that recover_gaps() leaves early, until a live update writes
\* the row; but recover_gaps() may stand between a TooLong answer and its last write.  And
\* the row that a batch of live updates writes is of an update it has queued.
RowsHideNothing ==
    \A b \in Boxes :
        /\ \/ writer[b] \in {"batch", "short"}
           \/ /\ writer[b] = "toolong"
              /\ recovery.box = b /\ recovery.at \in {"top", "asked", "final"}
           \/ \A e \in pending :
                 e[1] = b => e \in queue \/ e[2] > stored[b] \/ e[2] <= states[b]
        /\ writer[b] = "batch" => <<b, stored[b]>> \in queue

\* recover_gaps() ends, and start() with it, whatever slices and live updates
\* come, unless the server says TooLong again and again.
RecoveryEnds ==
    \/ []<>(recovery.at \in {"off", "over"})
    \/ []<><<TooLong>>_vars
=============================================================================
