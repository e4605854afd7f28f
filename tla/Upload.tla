------------------------------- MODULE Upload -------------------------------
(***************************************************************************)
(* save_file() of pyrogram/methods/advanced/save_file.py: a producer that  *)
(* cuts the file into parts, a bounded queue, workers on the sessions of a *)
(* pool that several uploads share, and the slots of read_ahead_slots,     *)
(* one for each part between the file and the server's answer.             *)
(*                                                                         *)
(* An action is the code between two awaits of one task.  Pacing and flood *)
(* waits below the threshold only delay a part and are left out.           *)
(***************************************************************************)
EXTENDS Naturals, Sequences, FiniteSets, SequencesExt

CONSTANTS
    Uploads,        \* the calls of save_file()
    Missing,        \* those with a file_id, which send one part again
    Cancellable,    \* those whose caller may be cancelled
    Transmissions,  \* max_concurrent_transmissions: uploads at a time
    Slots,          \* read_ahead_slots
    Lent,           \* how many of them a paused download may keep
    Parts,          \* parts of every file
    Batch,          \* parts of a batch read from the file
    NSessions,      \* pool_size: the pool starts with the first session
    PerSession,     \* workers_per_session
    Retries,        \* UPLOAD_PART_RETRIES
    MaxFaults       \* bound: lost connections, refused parts, stalls

ASSUME UploadParameters ==
    /\ IsFiniteSet(Uploads)
    /\ Missing \subseteq Uploads /\ Cancellable \subseteq Uploads
    /\ {Transmissions, Slots, Parts, Batch, NSessions, PerSession, Retries} \subseteq Nat \ {0}
    /\ Lent \subseteq 0 .. Slots
    /\ MaxFaults \in Nat

VARIABLES
    free,       \* value of the semaphore read_ahead_slots
    line,       \* the uploads that wait for it
    lent,       \* slots that a paused download keeps all the time
    held,       \* _held of each upload's ReadAhead
    phase,      \* where each producer is
    result,     \* how it ends
    next,       \* file_part
    queue,
    nones,      \* the Nones _stop_upload_workers() has yet to put
    growth,     \* pool_growth_task is at work
    errors,     \* the list errors is not empty
    acked,      \* _acked[0]
    accepted,   \* the parts the server has
    worker,     \* where each worker is
    part,       \* its data
    attempt,
    session,    \* the session it uses
    stale,      \* its session has another connection than attempt_connection
    up,         \* is_connected of each session
    faults

semaphore == <<free, line, lent, held>>
producer == <<phase, result, next, nones, growth>>
working == <<worker, part, attempt, session, stale>>
outcome == <<errors, acked, accepted>>
vars == <<semaphore, producer, queue, working, outcome, up, faults>>

None == 0
Sessions == 1 .. NSessions
Workers == Sessions \X (1 .. PerSession)
QueueSize == NSessions * PerSession
Busy == {"send", "restart", "pause"}
Gone == {"none", "ended", "cancelled"}
Total(u) == IF u \in Missing THEN 1 ELSE Parts

TypeOK ==
    /\ free \in 0 .. Slots
    /\ held \in [Uploads -> 0 .. Slots]
    /\ phase \in [Uploads -> {"begin", "read", "line", "put", "drain", "stop",
                              "wait", "cleanup", "join", "over", "left"}]
    /\ result \in [Uploads -> {"none", "file", "sent", "failed", "cancelled"}]
    /\ \A u \in Uploads : Len(queue[u]) <= QueueSize
    /\ acked \in [Uploads -> 0 .. Parts]
    /\ accepted \in [Uploads -> SUBSET (1 .. Parts)]
    /\ worker \in [Uploads -> [Workers -> Busy \cup Gone \cup {"get", "stopping"}]]
    /\ session \in [Uploads -> [Workers -> Sessions]]
    /\ attempt \in [Uploads -> [Workers -> 1 .. Retries]]
    /\ up \in [Sessions -> BOOLEAN]

Init ==
    /\ lent \in Lent
    /\ free = Slots - lent
    /\ line = <<>>
    /\ held = [u \in Uploads |-> 0]
    /\ phase = [u \in Uploads |-> "begin"]
    /\ result = [u \in Uploads |-> "none"]
    /\ next = [u \in Uploads |-> 1]
    /\ queue = [u \in Uploads |-> <<>>]
    /\ nones = [u \in Uploads |-> 0]
    /\ growth = [u \in Uploads |-> FALSE]
    /\ errors = [u \in Uploads |-> FALSE]
    /\ acked = [u \in Uploads |-> 0]
    /\ accepted = [u \in Uploads |-> {}]
    /\ worker = [u \in Uploads |-> [w \in Workers |-> "none"]]
    /\ part = [u \in Uploads |-> [w \in Workers |-> None]]
    /\ attempt = [u \in Uploads |-> [w \in Workers |-> 1]]
    /\ session = [u \in Uploads |-> [w \in Workers |-> w[1]]]
    /\ stale = [u \in Uploads |-> [w \in Workers |-> FALSE]]
    /\ up = [s \in Sessions |-> TRUE]
    /\ faults = 0

-----------------------------------------------------------------------------
(* Helpers *)

Fault ==
    /\ faults < MaxFaults
    /\ faults' = faults + 1

Goto(u, p) == phase' = [phase EXCEPT ![u] = p]

\* ReadAhead.release() gives back what is held, at most n slots.
Release(u, n) ==
    LET back == IF n < held[u] THEN n ELSE held[u]
    IN  /\ free' = free + back
        /\ UNCHANGED lent
        /\ held' = [held EXCEPT ![u] = @ - back]

\* budget.acquire() for the next part.
AcquirePart(u) ==
    IF free > 0 /\ line = <<>>
    THEN /\ Goto(u, "put")
         /\ free' = free - 1
         /\ held' = [held EXCEPT ![u] = @ + 1]
         /\ UNCHANGED <<line, lent>>
    ELSE /\ Goto(u, "line")
         /\ line' = Append(line, u)
         /\ UNCHANGED <<free, lent, held>>

\* The producer raises; its finally comes next.
Raises(u) ==
    /\ Goto(u, "cleanup")
    /\ result' = [result EXCEPT ![u] = "failed"]

Active(u) == {w \in Workers : worker[u][w] \notin Gone}

\* Every worker is cancelled.  One that has a part, whatever it was about to do with
\* it, ends in its finally, later, and asyncio.wait() may be over before that:
\* UPLOAD_WORKER_SHUTDOWN_TIMEOUT.
CancelsWorkers(u) ==
    /\ worker' = [worker EXCEPT ![u] = [w \in Workers |->
                     IF @[w] \in Busy THEN "stopping"
                     ELSE IF @[w] = "get" THEN "cancelled" ELSE @[w]]]
    /\ part' = [part EXCEPT ![u] = [w \in Workers |-> None]]
    /\ attempt' = [attempt EXCEPT ![u] = [w \in Workers |-> 1]]
    /\ session' = [session EXCEPT ![u] = [w \in Workers |-> w[1]]]
    /\ stale' = [stale EXCEPT ![u] = [w \in Workers |-> FALSE]]

\* stop_pool_growth(), then _stop_upload_workers() counts the active ones.
StopsWorkers(u) ==
    /\ Goto(u, "stop")
    /\ growth' = [growth EXCEPT ![u] = FALSE]
    /\ nones' = [nones EXCEPT ![u] = Cardinality(Active(u))]

\* A session has a new connection, which its parts on the way did not begin with.
Connects(s) ==
    /\ up' = [up EXCEPT ![s] = TRUE]
    /\ stale' = [u \in Uploads |-> [w \in Workers |->
                    stale[u][w] \/ (session[u][w] = s /\ worker[u][w] = "send")]]

\* The finally of a worker: data = None.  The rest is set again with the next.
Forgets(u, w) ==
    /\ part' = [part EXCEPT ![u][w] = None]
    /\ attempt' = [attempt EXCEPT ![u][w] = 1]
    /\ stale' = [stale EXCEPT ![u][w] = FALSE]

-----------------------------------------------------------------------------
(* The producer *)

\* save_file_semaphore, then the workers of the first session.
Begin(u) ==
    /\ phase[u] = "begin"
    /\ Cardinality({v \in Uploads : phase[v] \notin {"begin", "over", "left"}}) < Transmissions
    /\ Goto(u, "read")
    /\ worker' = [worker EXCEPT ![u] = [w \in Workers |-> IF w[1] = 1 THEN "get" ELSE "none"]]
    /\ growth' = [growth EXCEPT ![u] = u \notin Missing /\ NSessions > 1]
    /\ UNCHANGED <<semaphore, result, next, nones, queue, part, attempt, session,
                   stale, outcome, up, faults>>

\* A batch; at the end of the file the parts that are on their way remain.
Read(u) ==
    /\ phase[u] = "read"
    /\ \/ /\ next[u] > Parts
          /\ Goto(u, "drain")
          /\ UNCHANGED <<semaphore, result>>
       \/ /\ next[u] <= Parts /\ errors[u]
          /\ Raises(u)
          /\ UNCHANGED semaphore
       \/ /\ next[u] <= Parts /\ ~errors[u]
          /\ AcquirePart(u)
          /\ UNCHANGED result
    /\ UNCHANGED <<next, nones, growth, queue, working, outcome, up, faults>>

\* Mutant: an acquire() that had to wait is not counted in _held.
GrantUncounted ==
    /\ free > 0
    /\ line # <<>>
    /\ free' = free - 1
    /\ line' = Tail(line)
    /\ Goto(Head(line), "put")
    /\ UNCHANGED <<lent, held, result, next, nones, growth, queue, working,
                   outcome, up, faults>>

Grant ==
    /\ free > 0
    /\ line # <<>>
    /\ free' = free - 1
    /\ held' = [held EXCEPT ![Head(line)] = @ + 1]
    /\ line' = Tail(line)
    /\ Goto(Head(line), "put")
    /\ UNCHANGED <<lent, result, next, nones, growth, queue, working, outcome, up, faults>>

\* A part is queued.  The next one needs a slot, or a new batch; a missing
\* part is the only one.
Put(u) ==
    /\ phase[u] = "put"
    /\ Len(queue[u]) < QueueSize
    /\ queue' = [queue EXCEPT ![u] = Append(@, next[u])]
    /\ \/ u \in Missing /\ StopsWorkers(u) /\ UNCHANGED <<semaphore, next>>
       \/ /\ u \notin Missing
          /\ next' = [next EXCEPT ![u] = @ + 1]
          /\ IF next[u] % Batch = 0 \/ next[u] = Parts
             THEN Goto(u, "read") /\ UNCHANGED semaphore
             ELSE AcquirePart(u)
          /\ UNCHANGED <<nones, growth>>
    /\ UNCHANGED <<result, working, outcome, up, faults>>

\* 30 seconds have passed with a full queue: _check_workers() raises an error of
\* a worker, or the upload has stalled for STALL_TIMEOUT.
PutTimesOut(u) ==
    /\ phase[u] = "put"
    /\ Len(queue[u]) = QueueSize
    /\ \/ errors[u] /\ UNCHANGED faults
       \/ ~errors[u] /\ Fault
    /\ Raises(u)
    /\ UNCHANGED <<semaphore, next, nones, growth, queue, working, outcome, up>>

\* Mutant: the end of the file is taken for the end of the upload.
DrainedAtOnce(u) ==
    /\ phase[u] = "drain"
    /\ StopsWorkers(u)
    /\ UNCHANGED <<semaphore, result, next, queue, working, outcome, up, faults>>

\* Mutant: the errors of the workers are not looked at.
DrainedByAcks(u) ==
    /\ phase[u] = "drain"
    /\ acked[u] >= Total(u)
    /\ StopsWorkers(u)
    /\ UNCHANGED <<semaphore, result, next, queue, working, outcome, up, faults>>

\* All parts are acknowledged, or there is an error.
Drained(u) ==
    /\ phase[u] = "drain"
    /\ acked[u] >= Total(u) \/ errors[u]
    /\ StopsWorkers(u)
    /\ UNCHANGED <<semaphore, result, next, queue, working, outcome, up, faults>>

DrainStalls(u) ==
    /\ phase[u] = "drain"
    /\ acked[u] < Total(u) /\ ~errors[u]
    /\ Fault
    /\ Raises(u)
    /\ UNCHANGED <<semaphore, next, nones, growth, queue, working, outcome, up>>

\* _stop_upload_workers(): a None for each; those that are not put within
\* UPLOAD_WORKER_SHUTDOWN_TIMEOUT are replaced by a cancellation.
PutsNone(u) ==
    /\ phase[u] = "stop"
    /\ nones[u] > 0 /\ Active(u) # {}
    /\ Len(queue[u]) < QueueSize
    /\ queue' = [queue EXCEPT ![u] = Append(@, None)]
    /\ nones' = [nones EXCEPT ![u] = @ - 1]
    /\ UNCHANGED <<semaphore, phase, result, next, growth, working, outcome, up, faults>>

AllPut(u) ==
    /\ phase[u] = "stop"
    /\ nones[u] = 0 \/ Active(u) = {}
    /\ Goto(u, "wait")
    /\ UNCHANGED <<semaphore, result, next, nones, growth, queue, working, outcome, up, faults>>

NoneTimesOut(u) ==
    /\ phase[u] = "stop"
    /\ nones[u] > 0 /\ Active(u) # {}
    /\ Len(queue[u]) = QueueSize
    /\ CancelsWorkers(u)
    /\ Goto(u, "wait")
    /\ UNCHANGED <<semaphore, result, next, nones, growth, queue, outcome, up, faults>>

\* The workers have ended: the errors are raised, unless it was a missing part.
\* Or some have not within the timeout; they are cancelled, and TimeoutError raised.
WorkersStopped(u) ==
    /\ phase[u] = "wait"
    /\ \/ /\ Active(u) = {}
          /\ result' = [result EXCEPT ![u] = IF u \in Missing THEN "sent"
                                             ELSE IF errors[u] THEN "failed" ELSE "file"]
          /\ UNCHANGED working
       \/ /\ \E w \in Workers : worker[u][w] \in Busy \cup {"stopping"}
          /\ result' = [result EXCEPT ![u] = "failed"]
          /\ CancelsWorkers(u)
    /\ Goto(u, "cleanup")
    /\ UNCHANGED <<semaphore, next, nones, growth, queue, outcome, up, faults>>

\* A cancelled acquire() takes its waiter out of the line.
LeavesLine(u) ==
    \/ \E k \in DOMAIN line : line[k] = u /\ line' = RemoveAt(line, k)
    \/ u \notin ToSet(line) /\ UNCHANGED line

\* The caller is cancelled, or its progress callback raises StopTransmission.
Cancel(u) ==
    /\ u \in Cancellable
    /\ phase[u] \notin {"begin", "cleanup", "join", "over", "left"}
    /\ Goto(u, "cleanup")
    /\ result' = [result EXCEPT ![u] = "cancelled"]
    /\ LeavesLine(u)
    /\ UNCHANGED <<free, lent, held, next, nones, growth, queue, working, outcome, up, faults>>

\* The local variables of a call are gone with it.
Vanish(u) ==
    /\ next' = [next EXCEPT ![u] = 1]
    /\ nones' = [nones EXCEPT ![u] = 0]
    /\ queue' = [queue EXCEPT ![u] = <<>>]

\* The finally has waited for the growth of the pool and for the batch that was
\* read ahead; now for the workers.
CleansUp(u) ==
    /\ phase[u] = "cleanup"
    /\ Goto(u, "join")
    /\ growth' = [growth EXCEPT ![u] = FALSE]
    /\ CancelsWorkers(u)
    /\ UNCHANGED <<semaphore, result, next, nones, queue, outcome, up, faults>>

\* They have ended, or the timeout has passed and some outlive the call: in either
\* case budget.release_all().
Cleanup(u) ==
    /\ phase[u] = "join"
    /\ Goto(u, "over")
    /\ Release(u, held[u])
    /\ Vanish(u)
    /\ UNCHANGED <<line, result, growth, working, outcome, up, faults>>

\* The caller is cancelled while the finally waits: the rest of it is skipped, and
\* the workers that it has not cancelled go on.
CancelCleanup(u) ==
    /\ u \in Cancellable
    /\ phase[u] \in {"cleanup", "join"}
    /\ Goto(u, "left")
    /\ result' = [result EXCEPT ![u] = "cancelled"]
    /\ growth' = [growth EXCEPT ![u] = FALSE]
    /\ UNCHANGED <<semaphore, next, nones, queue, working, outcome, up, faults>>

Produce(u) ==
    \/ Begin(u) \/ Read(u) \/ Put(u) \/ Drained(u) \/ PutsNone(u) \/ AllPut(u)
    \/ NoneTimesOut(u) \/ WorkersStopped(u) \/ CleansUp(u) \/ Cleanup(u)
    \/ errors[u] /\ PutTimesOut(u)

-----------------------------------------------------------------------------
(* The workers *)

\* grow_pool(): another session has workers.
Grows(u) ==
    /\ growth[u]
    /\ \E s \in Sessions :
          /\ \A k \in 1 .. PerSession : worker[u][<<s, k>>] = "none"
          /\ worker' = [worker EXCEPT ![u] = [w \in Workers |->
                           IF w[1] = s THEN "get" ELSE @[w]]]
    /\ UNCHANGED <<semaphore, producer, queue, part, attempt, session, stale,
                   outcome, up, faults>>

Get(u, w) ==
    /\ worker[u][w] = "get"
    /\ queue[u] # <<>>
    /\ queue' = [queue EXCEPT ![u] = Tail(@)]
    /\ IF Head(queue[u]) = None
       THEN /\ worker' = [worker EXCEPT ![u][w] = "ended"]
            /\ UNCHANGED <<part, attempt>>
       ELSE /\ worker' = [worker EXCEPT ![u][w] = "send"]
            /\ part' = [part EXCEPT ![u][w] = Head(queue[u])]
            /\ attempt' = [attempt EXCEPT ![u][w] = 1]
    /\ UNCHANGED <<semaphore, producer, session, stale, outcome, up, faults>>

\* The server has the part.
Acked(u, w) ==
    /\ worker[u][w] = "send"
    /\ up[session[u][w]]
    /\ worker' = [worker EXCEPT ![u][w] = "get"]
    /\ acked' = [acked EXCEPT ![u] = @ + 1]
    /\ accepted' = [accepted EXCEPT ![u] = @ \cup {part[u][w]}]
    /\ Release(u, 1)
    /\ Forgets(u, w)
    /\ UNCHANGED <<line, producer, queue, session, errors, up, faults>>

\* The last attempt fails, or an error that is not retried: the worker ends.
GivesUp(u, w) ==
    /\ worker' = [worker EXCEPT ![u][w] = "ended"]
    /\ errors' = [errors EXCEPT ![u] = TRUE]
    /\ Release(u, 1)
    /\ Forgets(u, w)
    /\ session' = [session EXCEPT ![u][w] = w[1]]

\* How far session r comes after s, in the ring of worker_sessions.
Ahead(s, r) == IF r > s THEN r - s ELSE NSessions + r - s

\* _next_upload_session(): the first session after this one that is up, or
\* just the next one, which is restarted.  ready says which sessions are up.
FailsOver(u, w, ready) ==
    LET here == session[u][w]
        pool == {s \in Sessions : worker[u][<<s, 1>>] # "none"}
        ups == {s \in pool : ready[s]}
        choice == IF ups = {} THEN pool ELSE ups
        to == CHOOSE s \in choice : \A r \in choice : Ahead(here, s) <= Ahead(here, r)
    IN  /\ session' = [session EXCEPT ![u][w] = to]
        /\ worker' = [worker EXCEPT ![u][w] = IF ready[to] THEN "pause" ELSE "restart"]
        /\ attempt' = [attempt EXCEPT ![u][w] = @ + 1]
        /\ stale' = [stale EXCEPT ![u][w] = FALSE]
        /\ UNCHANGED <<free, lent, held, errors, part>>

\* Mutant: a fresh connection is quarantined for the failure of an old one.
QuarantinedBlindly(u, w) == [up EXCEPT ![session[u][w]] = FALSE]

\* is_connected of the session is cleared, unless it has a newer connection
\* than the one the attempt began with.
Quarantined(u, w) ==
    LET s == session[u][w]
    IN  [up EXCEPT ![s] = stale[u][w] /\ @]

\* The transport fails, with the part received by the server or not; or a
\* part is refused, which is no reason to quarantine.
TransportFails(u, w) ==
    LET s == session[u][w]
    IN  /\ worker[u][w] = "send"
        /\ \/ Fault
           \/ (~up[s] \/ stale[u][w]) /\ UNCHANGED faults
        /\ \E got \in {{}, {part[u][w]}} :
              accepted' = [accepted EXCEPT ![u] = @ \cup got]
        /\ IF attempt[u][w] = Retries
           THEN GivesUp(u, w) /\ UNCHANGED up
           ELSE up' = Quarantined(u, w) /\ FailsOver(u, w, up')
        /\ UNCHANGED <<line, producer, queue, acked>>

Refused(u, w) ==
    /\ worker[u][w] = "send"
    /\ up[session[u][w]]
    /\ Fault
    /\ \/ attempt[u][w] = Retries /\ GivesUp(u, w)
       \/ attempt[u][w] < Retries /\ FailsOver(u, w, up)
       \/ attempt[u][w] < Retries /\ GivesUp(u, w)    \* any other error
    /\ UNCHANGED <<line, producer, queue, acked, accepted, up>>

\* session.restart() of the worker is over; a failure is logged, and the retry goes on.
Restarted(u, w) ==
    LET s == session[u][w]
    IN  /\ worker[u][w] = "restart"
        /\ worker' = [worker EXCEPT ![u][w] = "pause"]
        /\ \/ UNCHANGED <<up, stale>>
           \/ ~up[s] /\ Connects(s)
        /\ UNCHANGED <<semaphore, producer, queue, part, attempt, session,
                       outcome, faults>>

SendsAgain(u, w) ==
    /\ worker[u][w] = "pause"
    /\ worker' = [worker EXCEPT ![u][w] = "send"]
    /\ UNCHANGED <<semaphore, producer, queue, part, attempt, session, outcome,
                   stale, up, faults>>

\* The finally of a cancelled worker; its upload may be over, and hold nothing.
Stops(u, w) ==
    /\ worker[u][w] = "stopping"
    /\ worker' = [worker EXCEPT ![u][w] = "cancelled"]
    /\ Release(u, 1)
    /\ UNCHANGED <<line, producer, queue, part, attempt, session, stale, outcome,
                   up, faults>>

Work(u, w) ==
    Get(u, w) \/ Acked(u, w) \/ Restarted(u, w) \/ SendsAgain(u, w) \/ Stops(u, w)

-----------------------------------------------------------------------------
(* The sessions, which also lose and repair their connections themselves *)

LinkLost(s) ==
    /\ up[s]
    /\ Fault
    /\ up' = [up EXCEPT ![s] = FALSE]
    /\ UNCHANGED <<semaphore, producer, queue, working, outcome>>

Reconnected(s) ==
    /\ ~up[s]
    /\ Connects(s)
    /\ UNCHANGED <<semaphore, producer, queue, worker, part, attempt, session,
                   outcome, faults>>

-----------------------------------------------------------------------------
(* The specification *)

Next ==
    \/ Grant
    \/ \E u \in Uploads :
          \/ Produce(u) \/ PutTimesOut(u) \/ DrainStalls(u) \/ Cancel(u)
          \/ CancelCleanup(u) \/ Grows(u)
          \/ \E w \in Workers : Work(u, w) \/ TransportFails(u, w) \/ Refused(u, w)
    \/ \E s \in Sessions : LinkLost(s) \/ Reconnected(s)

Spec == Init /\ [][Next]_vars

\* Tasks that can go on do, timers fire, a session that is down is repaired by
\* the next invoke() and the server answers; a cancelled worker ends, be it late.
\* Faults and cancellation are not due.
Fairness ==
    /\ WF_vars(Grant)
    /\ \A u \in Uploads :
          /\ WF_vars(Produce(u))
          /\ \A w \in Workers : WF_vars(Work(u, w))
    /\ \A s \in Sessions : WF_vars(Reconnected(s))

FairSpec == Spec /\ Fairness

-----------------------------------------------------------------------------
(* Properties *)

Over(u) == phase[u] \in {"over", "left"}

\* A slot is free, lent to a download or held by one upload, however parts and
\* workers end: <<u, n>> stands for the n-th slot that upload u holds.
Holdings == {slot \in Uploads \X (1 .. Slots) : slot[2] <= held[slot[1]]}
SlotsConserved == TypeOK /\ free + lent + Cardinality(Holdings) = Slots

\* The docstring of ReadAhead (client.py 91): it "always gives them back".  When an
\* upload and its workers are over, it holds no slot.
GivesSlotsBack ==
    \A u \in Uploads : Over(u) /\ Active(u) = {} => held[u] = 0

\* save_file() returns an InputFile only when the server has every part,
\* although it counts acknowledgements and parts are sent more than once.
FileIsComplete ==
    \A u \in Uploads : result[u] = "file" => accepted[u] = 1 .. Parts

\* A worker quarantines the connection its attempt began with and no other:
\* a session that was restarted meanwhile stays up.
FreshStaysUp ==
    [][\A s \in Sessions : up[s] /\ ~up'[s] =>
          \/ LinkLost(s)
          \/ \E u \in Uploads, w \in Workers :
                worker[u][w] = "send" /\ session[u][w] = s /\ ~stale[u][w]]_vars

\* An upload ends, unless for ever all slots are held by paused downloads, by calls
\* cancelled in their finally, and by uploads that wait for one more slot themselves
\* while they have no worker at work: that wait has no timeout and does not look
\* for the errors of the workers.
AtRest(u) == \A w \in Active(u) : worker[u][w] = "get" /\ queue[u] = <<>>
Starved ==
    /\ free = 0
    /\ \A u \in Uploads : held[u] > 0 => phase[u] \in {"line", "left"} /\ AtRest(u)
UploadsEnd == (\A u \in Uploads : <>Over(u)) \/ <>[]Starved
=============================================================================
