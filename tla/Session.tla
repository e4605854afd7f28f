------------------------------- MODULE Session -------------------------------
(***************************************************************************)
(* The life cycle of one MTProto session (pyrogram/session/session.py):    *)
(* start(), stop(), restart(), the receive loop, the background reconnect  *)
(* and the retry loop of invoke(), as asyncio tasks that interleave at     *)
(* their awaits.                                                           *)
(*                                                                         *)
(* An action is the code between two awaits of one task.  An await that    *)
(* may complete at once is modelled as one that suspends.  A connection is *)
(* a number, in the order the connections were dialled; 0 is None.         *)
(* A restart, stop or start that runs inside another coroutine is a        *)
(* subroutine of its task: cont[t] says where stop() returns to.           *)
(***************************************************************************)
EXTENDS Naturals, FiniteSets

CONSTANTS
    Callers,        \* tasks that run _invoke()
    Background,     \* the task of _schedule_restart(), running _safe_restart()
    Owner,          \* the client's code that calls start() and, once, stop()
    MaxConn,        \* bound: connections dialled in a behaviour
    MaxFaults,      \* bound: failures the network injects in a behaviour
    MaxRetries,     \* the retries argument of invoke(), and of restart()
    AutoAttempts,   \* MAX_AUTO_RESTART_ATTEMPTS
    Cancellable,    \* the callers their own users may cancel
    Events          \* the rare events that may happen, of RareEvents

\* The owner stops the session while requests use it; the server answers -404;
\* a packet fails its checks, on a connected session or during a handshake.
RareEvents == {"stop", "unknownKey", "badPacket", "earlyBadPacket"}

None == "none"

ASSUME TasksAreDistinct ==
    /\ Background \notin Callers
    /\ Owner \notin Callers
    /\ Background # Owner
    /\ None \notin Callers \cup {Background, Owner}

ASSUME ParametersOK ==
    /\ MaxConn \in Nat \ {0}
    /\ MaxFaults \in Nat
    /\ MaxRetries \in Nat \ {0}
    /\ AutoAttempts \in Nat \ {0}
    /\ Cancellable \subseteq Callers
    /\ Events \subseteq RareEvents

VARIABLES
    \* Attributes of the Session object.
    connection,     \* the published connection, 0 when None
    recvTask,       \* the connection recv_task was created for, 0 when None
    connected,      \* is_connected
    stopping,       \* _stopping
    teardown,       \* _teardown_started
    startActive,    \* _start_active; _start_completed is its negation
    startExc,       \* _start_exc
    lock,           \* holder of _restart_lock, None when free
    restartExc,     \* _restart_exc
    cooling,        \* RESTART_COOLDOWN has not passed since _restart_failed_at
    results,        \* the entry of each task's request in results
    pinging,        \* ping_task is running
    packets,        \* tasks whose answer is in a packet task (_packet_tasks)
    \* The transports and the receive loops.
    socket,         \* of each connection
    worker,         \* state of the receive loop created with each connection
    reading,        \* the connection that loop is reading
    \* Local variables of the tasks.
    pc, cont, via, retries, attempt, on,
    awaited,        \* the recv_task that a stop() awaits, 0 for none
    \* The environment.
    faults,         \* failures injected so far
    owed,           \* requests whose answer the server still has to send
    struck          \* callers that have been cancelled

link == <<connection, recvTask>>
flags == <<connected, stopping, teardown>>
startState == <<startActive, startExc>>
restartState == <<lock, restartExc, cooling>>
session == <<link, flags, startState, restartState, pinging>>
requests == <<results, packets, owed>>
transport == <<socket, worker, reading>>
callLocals == <<via, retries>>
locals == <<pc, cont, awaited, callLocals, attempt, on>>
environment == <<faults, struck>>
vars == <<session, requests, transport, locals, environment>>

-----------------------------------------------------------------------------
(* Values *)

Restarters == Callers \cup {Background}   \* the tasks that call restart()
Tasks == Restarters \cup {Owner}
Conns == 1 .. MaxConn

\* An exception is told apart by how its handlers treat it: "os" is an OSError
\* or a TimeoutError; "busy" an InternalServerError, a ServiceUnavailable or a
\* FloodWait, which are retried too; "rpc" any other RPCError, which is raised;
\* "cancelled" a CancelledError.
Errors == {"os", "busy", "rpc", "cancelled"}
RetriedErrors == {"os", "busy"}
RaisedErrors == {"rpc", "cancelled"}

\* The value of a Result: "lost" is ConnectionLost or a ConnectionResetError,
\* "salt" a BadServerSalt or BadMsgNotification, after which send() sends again.
Outcomes == {"pending", "ok", "lost", "busy", "rpc", "salt"}

StopPoints == {"stopPing", "stopRecv"}
StartPoints == {"slot", "dial", "hello", "startSleep"}
CallPoints == {"loop", "waitStart", "waitedStart", "look", "waitRestart",
               "waitedRestart", "checkUp", "retry", "busy", "send", "answer",
               "restart", "shareWait", "shareWoke", "backoff"}
Returned == {"done", "failed", "cancelled"}
Points == {"idle", "up", "gone"} \cup StopPoints \cup StartPoints
              \cup CallPoints \cup Returned

\* Where a caller runs on without an await: nothing else happens meanwhile.
Running == {"loop", "look", "checkUp", "retry", "busy", "restart"}
Quiet == \A c \in Callers : pc[c] \notin Running

\* Task t goes on from one of the points S; no other task is running.
At(t, S) ==
    /\ pc[t] \in S
    /\ \A c \in Callers \ {t} : pc[c] \notin Running

SessionTypeOK ==
    /\ connection \in {0} \cup Conns
    /\ recvTask \in {0} \cup Conns
    /\ connected \in BOOLEAN
    /\ stopping \in BOOLEAN
    /\ teardown \in BOOLEAN
    /\ startActive \in BOOLEAN
    /\ startExc \in Errors \cup {None}
    /\ lock \in Restarters \cup {None}
    /\ restartExc \in Errors \cup {None}
    /\ cooling \in BOOLEAN
    /\ pinging \in BOOLEAN

RequestsTypeOK ==
    /\ results \in [Tasks -> Outcomes \cup {None}]
    /\ packets \subseteq Tasks
    /\ owed \subseteq Tasks

TransportTypeOK ==
    /\ socket \in [Conns -> {None, "open", "lost", "closed"}]
    /\ worker \in [Conns -> {None, "run", "stopPing", "stopRecv", "ended"}]
    /\ reading \in [Conns -> {0} \cup Conns]

LocalsTypeOK ==
    /\ pc \in [Tasks -> Points]
    /\ cont \in [Tasks -> {None, "restart", "owner"} \cup Errors]
    /\ via \in [Tasks -> {"invoke", "wait"}]
    /\ retries \in [Tasks -> 0 .. MaxRetries]
    /\ attempt \in [Tasks -> Nat]
    /\ on \in [Tasks -> {0} \cup Conns]
    /\ awaited \in [Tasks \cup Conns -> {0} \cup Conns]

TypeOK ==
    /\ SessionTypeOK
    /\ RequestsTypeOK
    /\ TransportTypeOK
    /\ LocalsTypeOK
    /\ faults \in 0 .. MaxFaults
    /\ struck \subseteq Callers

Init ==
    /\ connection = 0
    /\ recvTask = 0
    /\ connected = FALSE
    /\ stopping = FALSE
    /\ teardown = FALSE
    /\ startActive = FALSE
    /\ startExc = None
    /\ lock = None
    /\ restartExc = None
    /\ cooling = FALSE
    /\ results = [t \in Tasks |-> None]
    /\ pinging = FALSE
    /\ packets = {}
    /\ socket = [c \in Conns |-> None]
    /\ worker = [c \in Conns |-> None]
    /\ reading = [c \in Conns |-> 0]
    /\ pc = [t \in Tasks |-> "idle"]
    /\ cont = [t \in Tasks |-> None]
    /\ via = [t \in Tasks |-> "invoke"]
    /\ retries = [t \in Tasks |-> IF t \in Callers THEN MaxRetries ELSE 0]
    /\ attempt = [t \in Tasks |-> 0]
    /\ on = [t \in Tasks |-> 0]
    /\ awaited = [a \in Tasks \cup Conns |-> 0]
    /\ faults = 0
    /\ owed = {}
    /\ struck = {}

-----------------------------------------------------------------------------
(* Subroutines *)

\* Set pc[t], and leave the other tasks where they are.
Goto(t, p) == pc' = [pc EXCEPT ![t] = p]

\* Frames of the steps that only move a task, or its retry loop.
OnlyCall ==
    UNCHANGED <<session, requests, transport, environment, cont, awaited, attempt, on>>
OnlyPc == OnlyCall /\ UNCHANGED callLocals

\* Mutant: _fail_pending() does not look whether the event is set already.
FailEvery(v) == [t \in Tasks |-> IF results[t] = None THEN None ELSE v]

\* The results after _fail_pending(v): only entries without a value get one.
FailPending(v) ==
    [t \in Tasks |-> IF results[t] = "pending" THEN v ELSE results[t]]

\* A result leaves results: a late answer to it is ignored.
Forget(t) ==
    /\ results' = [results EXCEPT ![t] = None]
    /\ packets' = packets \ {t}
    /\ owed' = owed \ {t}

\* A request is registered and sent on connection c.
Register(t, c) ==
    /\ results' = [results EXCEPT ![t] = "pending"]
    /\ on' = [on EXCEPT ![t] = c]
    /\ owed' = owed \cup {t}

\* No answer will come: nobody reads the connection, or it was dropped.
Unanswerable(t) ==
    /\ t \notin packets
    /\ \/ t \notin owed
       \/ socket[on[t]] # "open"
       \/ \A w \in Conns : worker[w] # "run" \/ reading[w] # on[t]

\* The sockets after close() of the published connection.
CloseConnection ==
    IF connection = 0 THEN socket ELSE [socket EXCEPT ![connection] = "closed"]

\* The receive loop whose end stop() awaits is over.
RecvTaskDone(a) == awaited[a] # 0 => worker[awaited[a]] = "ended"

\* The first lines of stop(), up to the await of ping_task.
StopBegins(t, ret) ==
    /\ connected' = FALSE
    /\ stopping' = TRUE
    /\ cont' = [cont EXCEPT ![t] = ret]
    /\ UNCHANGED awaited
    /\ Goto(t, "stopPing")

\* Mutant: restart() sets only the event of the tasks that called it.
WakeSharers(p) == [t \in Tasks |-> IF p[t] = "shareWait" THEN "shareWoke" ELSE p[t]]

\* Setting _start_completed and _restart_done moves their waiters on: an
\* asyncio.Event does not look again at a waiter it has resolved.
WakeStart(p) ==
    [t \in Tasks |-> IF p[t] = "waitStart" THEN "waitedStart" ELSE p[t]]
WakeRestart(p) ==
    [t \in Tasks |-> CASE p[t] = "shareWait" -> "shareWoke"
                       [] p[t] = "waitRestart" -> "waitedRestart"
                       [] OTHER -> p[t]]

\* Where task t continues once its call of restart() has returned (e = None)
\* or raised e: in _safe_restart(), in _invoke() or in _wait_started(), whose
\* exceptions the retry loop of _invoke() catches.
AfterRestart(t, e) ==
    CASE t = Background                       -> "idle"
      [] t # Background /\ e = "rpc"          -> "failed"
      [] t # Background /\ e = "cancelled"    -> "cancelled"
      [] t # Background /\ e = None           ->
            IF via[t] = "wait" THEN "checkUp" ELSE "loop"
      [] t # Background /\ e = "os"           ->
            IF via[t] = "wait" THEN "retry" ELSE "backoff"
      [] t # Background /\ e = "busy"         ->
            IF via[t] = "wait" THEN "busy" ELSE "failed"

\* The locals that go with it.
RestartReturns(t) ==
    /\ via' = [via EXCEPT ![t] = "invoke"]
    /\ UNCHANGED retries

\* Mutant: a cancelled restart() does not release the lock.
RestartEndsLocked(t, e, p) ==
    /\ restartExc' = e
    /\ cooling' = (e # None)
    /\ lock' = IF e = "cancelled" THEN lock ELSE None
    /\ RestartReturns(t)
    /\ pc' = WakeRestart([p EXCEPT ![t] = AfterRestart(t, e)])

\* The end of restart() for the task that holds the lock: the outcome is
\* recorded, _restart_done set and the lock released.  p is pc, as it is
\* before or after start() has woken its own waiters.
RestartEnds(t, e, p) ==
    /\ restartExc' = e
    /\ cooling' = (e # None)
    /\ lock' = None
    /\ RestartReturns(t)
    /\ pc' = WakeRestart([p EXCEPT ![t] = AfterRestart(t, e)])

\* The finally of start(), and the return to the task's own code or to restart().
StartEnds(t, e) ==
    /\ startActive' = FALSE
    /\ IF t = Owner
       THEN /\ pc' = WakeStart([pc EXCEPT ![t] = IF e = None THEN "up" ELSE "gone"])
            /\ UNCHANGED <<restartState, callLocals>>
       ELSE RestartEnds(t, e, WakeStart(pc))

\* Mutant: the receive loop leaves the reconnect to the next request.
ScheduleNothing == UNCHANGED pc

\* The background reconnect is not scheduled during a stop or when one is alive.
ScheduleRestart ==
    IF stopping \/ pc[Background] # "idle" THEN UNCHANGED pc
    ELSE Goto(Background, "restart")

\* Mutant: the retries are compared before they are counted down.
RetryOnceMore(c, p) ==
    /\ retries' = [retries EXCEPT ![c] = @ - 1]
    /\ Goto(c, IF retries[c] = 0 THEN "failed" ELSE p)

\* An attempt of _invoke() failed with an exception it retries.
Retry(c, p) ==
    /\ retries' = [retries EXCEPT ![c] = @ - 1]
    /\ Goto(c, IF retries[c] = 1 THEN "failed" ELSE p)

\* A failure the network injects.
Fault ==
    /\ faults < MaxFaults
    /\ faults' = faults + 1

-----------------------------------------------------------------------------
(* start() *)

\* max_attempts: _safe_restart() bounds its attempts, connect() does not.
LastAttempt(t) ==
    \/ t = Background /\ attempt[t] >= AutoAttempts
    \/ t \in Callers /\ attempt[t] >= MaxRetries

\* The attempts of a start() without max_attempts are not counted.
CountAttempt(t) == attempt' = [attempt EXCEPT ![t] = IF t = Owner THEN 0 ELSE @ + 1]

\* Entering the loop of start(), up to the await of the connection slot.
NextAttempt(t) ==
    /\ stopping' = FALSE
    /\ teardown' = FALSE
    /\ CountAttempt(t)
    /\ Goto(t, "slot")

\* The first lines of start(), for a session that is not connected.
StartBegins(t) ==
    /\ startExc' = None
    /\ startActive' = TRUE
    /\ NextAttempt(t)

OwnerStarts ==
    /\ At(Owner, {"idle"})
    /\ StartBegins(Owner)
    /\ UNCHANGED <<link, restartState, requests, transport, callLocals,
                   environment, connected, pinging, cont, awaited, on>>

\* The governor has admitted this handshake; a stale connection is dropped.
SlotAcquired(t) ==
    /\ At(t, {"slot"})
    /\ socket' = CloseConnection
    /\ connection' = 0
    /\ Goto(t, "dial")
    /\ UNCHANGED <<flags, startState, restartState, requests, callLocals,
                   environment, recvTask, pinging, worker, reading, cont,
                   awaited, attempt, on>>

\* connect() succeeded: the connection is published, its receive loop created
\* and the handshake request sent.
Dialled(t) ==
    /\ At(t, {"dial"})
    /\ \E c \in Conns :
          /\ socket[c] = None
          /\ \A d \in Conns : d < c => socket[d] # None
          /\ socket' = [socket EXCEPT ![c] = "open"]
          /\ connection' = c
          /\ recvTask' = c
          /\ worker' = [worker EXCEPT ![c] = "run"]
          /\ reading' = [reading EXCEPT ![c] = c]
          /\ Register(t, c)
    /\ Goto(t, "hello")
    /\ UNCHANGED <<flags, startState, restartState, callLocals, environment,
                   pinging, packets, cont, awaited, attempt>>

\* connect() raised after its own retries.  A dial that would exceed MaxConn
\* fails too.
DialFails(t) ==
    /\ At(t, {"dial"})
    /\ \/ Fault
       \/ (\A c \in Conns : socket[c] # None) /\ UNCHANGED faults
    /\ StopBegins(t, "os")
    /\ UNCHANGED <<link, startState, restartState, requests, transport,
                   callLocals, teardown, pinging, attempt, on, struck>>

\* The answers to the Ping and to InitConnection have arrived: the session is
\* connected.  Nothing is awaited between resuming here and is_connected.set().
HelloAnswered(t) ==
    /\ At(t, {"hello"})
    /\ results[t] = "ok"
    /\ Forget(t)
    /\ pinging' = TRUE
    /\ connected' = TRUE
    /\ StartEnds(t, None)
    /\ UNCHANGED <<link, transport, environment, stopping, teardown, startExc,
                   cont, awaited, attempt, on>>

\* A handshake request is sent again, on the connection of now.
HelloResent(t) ==
    /\ At(t, {"hello"})
    /\ results[t] = "salt"
    /\ connection # 0
    /\ Register(t, connection)
    /\ UNCHANGED <<session, transport, environment, callLocals, packets, pc,
                   cont, awaited, attempt>>

\* The handshake failed with an exception start() retries: the server is busy,
\* the result was failed, the connection does not send any more, or no answer
\* came in time.
HelloFails(t) ==
    /\ At(t, {"hello"})
    /\ \/ results[t] \in {"busy", "lost"} /\ UNCHANGED faults
       \/ results[t] = "salt" /\ connection = 0 /\ UNCHANGED faults
       \/ results[t] = "pending" /\ Unanswerable(t) /\ UNCHANGED faults
       \/ results[t] = "pending" /\ Fault
    /\ Forget(t)
    /\ StopBegins(t, IF results[t] = "busy" THEN "busy" ELSE "os")
    /\ UNCHANGED <<link, startState, restartState, transport, callLocals,
                   teardown, pinging, attempt, on, struck>>

\* The handshake failed with an RPCError, which start() does not retry.
HelloRejected(t) ==
    /\ At(t, {"hello"})
    /\ results[t] = "rpc"
    /\ Forget(t)
    /\ startExc' = "rpc"
    /\ StopBegins(t, "rpc")
    /\ UNCHANGED <<link, restartState, transport, callLocals, environment,
                   teardown, startActive, pinging, attempt, on>>

\* The backoff after a failed attempt is over.
StartSleepEnds(t) ==
    /\ At(t, {"startSleep"})
    /\ NextAttempt(t)
    /\ UNCHANGED <<link, startState, restartState, requests, transport,
                   callLocals, environment, connected, pinging, cont, awaited,
                   on>>

Start(t) ==
    \/ SlotAcquired(t) \/ Dialled(t) \/ DialFails(t) \/ HelloAnswered(t)
    \/ HelloResent(t) \/ HelloFails(t) \/ HelloRejected(t) \/ StartSleepEnds(t)

-----------------------------------------------------------------------------
(* stop() *)

OwnerStops ==
    /\ "stop" \in Events
    /\ At(Owner, {"up"})
    /\ StopBegins(Owner, "owner")
    /\ UNCHANGED <<link, startState, restartState, requests, transport,
                   callLocals, environment, teardown, pinging, attempt, on>>

\* Mutant: stop() waits for the receive loop without cancelling it.
AwaitRecvTask == UNCHANGED worker

\* Cancelling the receive loop ends it where it reads.  Inside its own stop() the
\* cancellation is swallowed and it runs to its end, but not where that stop()
\* gathers the packet tasks: there it ends too, and closes nothing.
CancelRecvTask ==
    \/ /\ recvTask # 0 /\ worker[recvTask] \in {"run", "stopRecv"}
       /\ worker' = [worker EXCEPT ![recvTask] = "ended"]
    \/ /\ recvTask # 0 => worker[recvTask] # "run"
       /\ UNCHANGED worker

\* ping_task has ended; the receive loop is cancelled.
StopPingDone(t) ==
    /\ At(t, {"stopPing"})
    /\ pinging' = FALSE
    /\ CancelRecvTask
    /\ awaited' = [awaited EXCEPT ![t] = recvTask]
    /\ Goto(t, "stopRecv")
    /\ UNCHANGED <<link, flags, startState, restartState, requests,
                   callLocals, environment, socket, reading, cont, attempt,
                   on>>

\* stop() has awaited the receive loop, and then the packet tasks it cancelled.
PacketsGathered(t, ret) ==
    /\ At(t, {"stopRecv"})
    /\ cont[t] = ret
    /\ RecvTaskDone(t)
    /\ awaited' = [awaited EXCEPT ![t] = 0]
    /\ packets' = {}

\* The last lines of stop(): the packet tasks are gone, the connection is
\* dropped and every pending result fails.
StopFinishes(t, ret) ==
    /\ PacketsGathered(t, ret)
    /\ socket' = CloseConnection
    /\ connection' = 0
    /\ results' = FailPending("lost")
    /\ UNCHANGED <<environment, recvTask, connected, pinging, owed, worker,
                   reading, cont, on>>

\* restart(): its stop() is over and its start() begins, or returns at once
\* when another task has connected the session meanwhile.
StopThenStart(t) ==
    /\ StopFinishes(t, "restart")
    /\ \/ /\ ~connected
          /\ StartBegins(t)
          /\ UNCHANGED <<restartState, callLocals>>
       \/ /\ connected
          /\ RestartEnds(t, None, pc)
          /\ UNCHANGED <<startState, stopping, teardown, attempt>>

\* start(): the failed attempt is cleaned up; it was the last one, or not.
StopThenRetry(t) ==
    /\ \E e \in RetriedErrors :
          /\ StopFinishes(t, e)
          /\ \/ /\ LastAttempt(t)
                /\ startExc' = e
                /\ StartEnds(t, e)
             \/ /\ ~LastAttempt(t)
                /\ Goto(t, "startSleep")
                /\ UNCHANGED <<startState, restartState, callLocals>>
    /\ UNCHANGED <<stopping, teardown, attempt>>

\* start(): the session is cleaned up and the exception raised.
StopThenRaise(t) ==
    /\ \E e \in RaisedErrors : StopFinishes(t, e) /\ StartEnds(t, e)
    /\ UNCHANGED <<stopping, teardown, startExc, attempt>>

OwnerStopped ==
    /\ StopFinishes(Owner, "owner")
    /\ Goto(Owner, "gone")
    /\ UNCHANGED <<startState, restartState, callLocals, stopping, teardown,
                   attempt>>

Stop(t) ==
    \/ StopPingDone(t) \/ StopThenStart(t) \/ StopThenRetry(t)
    \/ StopThenRaise(t)

-----------------------------------------------------------------------------
(* restart() *)

\* A restart is in progress: wait for it.
RestartShares(t) ==
    /\ At(t, {"restart"})
    /\ lock # None
    /\ Goto(t, "shareWait")
    /\ OnlyPc

\* It has ended: share its outcome.
RestartShared(t) ==
    /\ At(t, {"shareWoke"})
    /\ LET e == IF connected THEN None ELSE restartExc
       IN  Goto(t, AfterRestart(t, e)) /\ RestartReturns(t)
    /\ OnlyCall

\* The last restart failed less than RESTART_COOLDOWN ago.
RestartRefused(t) ==
    /\ At(t, {"restart"})
    /\ lock = None
    /\ ~connected
    /\ cooling
    /\ LET e == IF restartExc = None THEN "os" ELSE restartExc
       IN  Goto(t, AfterRestart(t, e)) /\ RestartReturns(t)
    /\ OnlyCall

\* This task takes the lock and reconnects, from stop() on.
RestartLeads(t) ==
    /\ At(t, {"restart"})
    /\ lock = None
    /\ connected \/ ~cooling
    /\ lock' = t
    /\ attempt' = [attempt EXCEPT ![t] = 0]
    /\ StopBegins(t, "restart")
    /\ UNCHANGED <<link, startState, requests, transport, callLocals,
                   environment, teardown, restartExc, cooling, pinging, on>>

CooldownPasses ==
    /\ cooling
    /\ cooling' = FALSE
    /\ UNCHANGED <<locals, link, flags, startState, requests, transport,
                   environment, lock, restartExc, pinging>>

Restart(t) ==
    \/ RestartShares(t) \/ RestartShared(t) \/ RestartRefused(t)
    \/ RestartLeads(t)

-----------------------------------------------------------------------------
(* _invoke(), _wait_started() and send() *)

Invoke(c) ==
    /\ At(c, {"idle"})
    /\ pc[Owner] # "idle"       \* the client hands the session out once started
    /\ Goto(c, "loop")
    /\ OnlyPc

\* send() captures the connection and registers the request.
SendBegins(c) ==
    /\ At(c, {"loop"})
    /\ connected
    /\ connection # 0
    /\ Register(c, connection)
    /\ Goto(c, "send")
    /\ UNCHANGED <<session, transport, callLocals, environment, packets, cont,
                   awaited, attempt>>

\* There is no connection: send() raises an OSError.
SendRefused(c) ==
    /\ At(c, {"loop"})
    /\ connected
    /\ connection = 0
    /\ Retry(c, "restart")
    /\ OnlyCall /\ UNCHANGED via

\* The payload is in the socket.  A socket the peer has closed may take it.
Sent(c) ==
    /\ At(c, {"send"})
    /\ socket[on[c]] \in {"open", "lost"}
    /\ Goto(c, "answer")
    /\ OnlyPc

\* The transport raised an OSError, or took too long: the request is forgotten.
SendFails(c) ==
    /\ At(c, {"send"})
    /\ \/ socket[on[c]] # "open" /\ Retry(c, "restart") /\ UNCHANGED faults
       \/ Fault /\ Goto(c, "retry") /\ UNCHANGED retries
    /\ Forget(c)
    /\ UNCHANGED <<session, transport, cont, awaited, via, attempt, on,
                   struck>>

\* The result event is set: its value is what the request ends with.
Answered(c) ==
    /\ At(c, {"answer"})
    /\ \/ results[c] = "ok" /\ Goto(c, "done") /\ UNCHANGED retries
       \/ results[c] = "lost" /\ Retry(c, "restart")
       \/ results[c] = "busy" /\ Goto(c, "busy") /\ UNCHANGED retries
       \/ results[c] = "rpc" /\ Goto(c, "failed") /\ UNCHANGED retries
    /\ Forget(c)
    /\ UNCHANGED <<session, transport, environment, cont, awaited, via,
                   attempt, on>>

\* The server is busy: sleep and try again, which a FloodWait does not count,
\* or raise the errors that are not worth a retry.
Busy(c) ==
    /\ At(c, {"busy"})
    /\ \/ Retry(c, "backoff")
       \/ (\E p \in {"failed", "backoff"} : Goto(c, p)) /\ UNCHANGED retries
    /\ OnlyCall /\ UNCHANGED via

\* send() calls itself again with a new message, on the connection of now.
Resent(c) ==
    /\ At(c, {"answer"})
    /\ results[c] = "salt"
    /\ \/ /\ connection # 0
          /\ Register(c, connection)
          /\ Goto(c, "send")
          /\ UNCHANGED <<packets, retries>>
       \/ /\ connection = 0
          /\ Forget(c)
          /\ Retry(c, "restart")
          /\ UNCHANGED on
    /\ UNCHANGED <<session, transport, environment, via, cont, awaited,
                   attempt>>

\* No answer in time.  A request on a live connection only times out when the
\* network is at fault.
AnswerTimesOut(c) ==
    /\ At(c, {"answer"})
    /\ results[c] = "pending"
    /\ \/ Fault
       \/ Unanswerable(c) /\ UNCHANGED faults
    /\ Forget(c)
    /\ Goto(c, "retry")
    /\ UNCHANGED <<session, transport, callLocals, cont, awaited, attempt, on,
                   struck>>

\* A TimeoutError: back off while packets still arrive, else reconnect.
Retries(c) ==
    /\ At(c, {"retry"})
    /\ \E p \in {"backoff", "restart"} : Retry(c, p)
    /\ OnlyCall /\ UNCHANGED via

BackoffEnds(c) ==
    /\ At(c, {"backoff"})
    /\ Goto(c, "loop")
    /\ OnlyPc

\* The session is not connected: _wait_started() waits for a start in progress.
WaitStarted(c) ==
    /\ At(c, {"loop"})
    /\ ~connected
    /\ Goto(c, IF startActive THEN "waitStart" ELSE "look")
    /\ OnlyPc

\* It looks at the session again: raise, pass, wait for a restart or restart.
WaitedStart(c) ==
    /\ At(c, {"look", "waitedStart"})
    /\ LET p == CASE startExc = "rpc"                             -> "failed"
                  [] startExc = "busy"                            -> "busy"
                  [] startExc \notin {"rpc", "busy"} /\ connected  -> "loop"
                  [] startExc \notin {"rpc", "busy"} /\ ~connected ->
                        IF lock # None THEN "waitRestart" ELSE "restart"
       IN  /\ Goto(c, p)
           /\ via' = [via EXCEPT ![c] = IF p = "restart" THEN "wait" ELSE @]
    /\ OnlyCall /\ UNCHANGED retries

\* The last lines of _wait_started(): never return disconnected.
CheckUp(c) ==
    /\ At(c, {"checkUp", "waitedRestart"})
    /\ Goto(c, CASE connected                                 -> "loop"
                 [] ~connected /\ startExc \in {None, "os"}    -> "retry"
                 [] ~connected /\ startExc = "busy"            -> "busy"
                 [] ~connected /\ startExc = "rpc"             -> "failed"
                 [] ~connected /\ startExc = "cancelled"       -> "cancelled")
    /\ OnlyPc

Request(c) ==
    \/ Invoke(c) \/ SendBegins(c) \/ SendRefused(c) \/ Sent(c)
    \/ SendFails(c) \/ Answered(c) \/ Resent(c) \/ AnswerTimesOut(c)
    \/ Retries(c) \/ Busy(c) \/ BackoffEnds(c)
    \/ WaitStarted(c) \/ WaitedStart(c) \/ CheckUp(c)

-----------------------------------------------------------------------------
(* The receive loops, by the connection each was created with *)

\* The next turn of the loop reads the connection published now.
NextTurn(w) ==
    /\ reading' = [reading EXCEPT ![w] = connection]
    /\ worker' = IF connection = 0 THEN [worker EXCEPT ![w] = "ended"] ELSE worker

\* A packet with the answer to t's request: it goes to a packet task, unless
\* the session is stopping.
ReceiveAnswer(w, t) ==
    /\ worker[w] = "run"
    /\ Quiet
    /\ socket[reading[w]] = "open"
    /\ t \in owed
    /\ on[t] = reading[w]
    /\ owed' = owed \ {t}
    /\ packets' = IF stopping THEN packets ELSE packets \cup {t}
    /\ NextTurn(w)
    /\ UNCHANGED <<session, locals, environment, results, socket>>

\* The packet task: the result is assigned whatever value it has.  Nothing is
\* delivered once a teardown has started.
DeliverAnswer(t) ==
    /\ t \in packets
    /\ Quiet
    /\ packets' = packets \ {t}
    /\ \/ /\ results' = IF teardown THEN results ELSE [results EXCEPT ![t] = "ok"]
          /\ UNCHANGED faults
       \/ /\ ~teardown
          /\ Fault
          /\ \E r \in {"busy", "rpc", "salt"} : results' = [results EXCEPT ![t] = r]
    /\ UNCHANGED <<session, locals, transport, owed, struck>>

\* A packet that fails a security check: _teardown().
BadPacket(w) ==
    /\ worker[w] = "run"
    /\ Quiet
    /\ socket[reading[w]] = "open"
    /\ ~stopping
    /\ ~teardown
    /\ (IF connected THEN "badPacket" ELSE "earlyBadPacket") \in Events
    /\ Fault
    /\ teardown' = TRUE
    /\ ScheduleRestart
    /\ NextTurn(w)
    /\ UNCHANGED <<link, startState, restartState, requests, callLocals,
                   connected, stopping, pinging, socket, cont, awaited,
                   attempt, on, struck>>

\* Mutant: the receive loop reconnects during a handshake too.
ReceiveFailsRestarts(w) ==
    /\ worker[w] = "run"
    /\ Quiet
    /\ socket[reading[w]] # "open"
    /\ worker' = [worker EXCEPT ![w] = "ended"]
    /\ results' = FailPending("lost")
    /\ ScheduleRestart
    /\ UNCHANGED <<session, callLocals, environment, packets, owed, socket,
                   reading, cont, awaited, attempt, on>>

\* recv() raised, returned nothing or a transport error: the loop ends.
ReceiveFails(w) ==
    /\ worker[w] = "run"
    /\ Quiet
    /\ socket[reading[w]] # "open"
    /\ worker' = [worker EXCEPT ![w] = "ended"]
    /\ results' = FailPending("lost")
    /\ IF connected THEN ScheduleRestart ELSE UNCHANGED pc
    /\ UNCHANGED <<session, callLocals, environment, packets, owed, socket,
                   reading, cont, awaited, attempt, on>>

\* Transport error -404: the key is unknown, so the loop stops the session.
ReceiveUnknownKey(w) ==
    /\ "unknownKey" \in Events
    /\ worker[w] = "run"
    /\ Quiet
    /\ socket[reading[w]] = "open"
    /\ Fault
    /\ startExc' = "rpc"
    /\ connected' = FALSE
    /\ stopping' = TRUE
    /\ results' = FailPending("rpc")
    /\ worker' = [worker EXCEPT ![w] = "stopPing"]
    /\ UNCHANGED <<locals, link, restartState, teardown, startActive,
                   pinging, packets, owed, socket, reading, struck>>

\* Its stop(): recv_task is the loop itself, or a newer one to cancel.
WorkerPingDone(w) ==
    /\ worker[w] = "stopPing"
    /\ Quiet
    /\ pinging' = FALSE
    /\ worker' = [c \in Conns |->
                    IF c = w THEN "stopRecv"
                    ELSE IF c = recvTask /\ worker[c] = "run" THEN "ended"
                    ELSE worker[c]]
    /\ awaited' = [awaited EXCEPT ![w] = IF recvTask = w THEN 0 ELSE recvTask]
    /\ UNCHANGED <<pc, cont, callLocals, attempt, on, link, flags, startState,
                   restartState, requests, environment, socket, reading>>

WorkerStopped(w) ==
    /\ worker[w] = "stopRecv"
    /\ Quiet
    /\ RecvTaskDone(w)
    /\ awaited' = [awaited EXCEPT ![w] = 0]
    /\ worker' = [worker EXCEPT ![w] = "ended"]
    /\ packets' = {}
    /\ socket' = CloseConnection
    /\ connection' = 0
    /\ results' = FailPending("lost")
    /\ UNCHANGED <<pc, cont, callLocals, attempt, on, flags, startState,
                   restartState, environment, recvTask, pinging, owed, reading>>

Receive(w) ==
    \/ \E t \in Tasks : ReceiveAnswer(w, t)
    \/ BadPacket(w)
    \/ ReceiveFails(w)
    \/ ReceiveUnknownKey(w)
    \/ WorkerPingDone(w)
    \/ WorkerStopped(w)

-----------------------------------------------------------------------------
(* The environment *)

\* The network drops a connection.
Break(c) ==
    /\ socket[c] = "open"
    /\ Fault
    /\ socket' = [socket EXCEPT ![c] = "lost"]
    /\ UNCHANGED <<session, locals, requests, worker, reading, struck>>

\* A user cancels the task of a request, where it is suspended.  start() raises
\* the cancellation, after a stop() when a handshake runs; stop() swallows it,
\* but for the gather of the packet tasks.
CancelRequest(c) ==
    /\ c \in Cancellable \ struck
    /\ At(c, {"waitStart", "waitedStart", "waitRestart", "waitedRestart",
              "shareWait", "shareWoke", "backoff", "send", "answer"})
    /\ Forget(c)
    /\ Goto(c, "cancelled")
    /\ struck' = struck \cup {c}
    /\ UNCHANGED <<session, transport, callLocals, cont, awaited, attempt, on,
                   faults>>

CancelHandshake(c) ==
    /\ c \in Cancellable \ struck
    /\ At(c, {"dial", "hello"})
    /\ Forget(c)
    /\ startExc' = "cancelled"
    /\ StopBegins(c, "cancelled")
    /\ struck' = struck \cup {c}
    /\ UNCHANGED <<link, restartState, transport, callLocals, teardown,
                   startActive, pinging, attempt, on, faults>>

CancelStart(c) ==
    /\ c \in Cancellable \ struck
    /\ At(c, {"slot", "startSleep"})
    /\ StartEnds(c, "cancelled")
    /\ struck' = struck \cup {c}
    /\ UNCHANGED <<link, flags, requests, transport, startExc, pinging, cont,
                   awaited, attempt, on, faults>>

\* stop() is left before it closes the connection and fails the results, for
\* restart(), or for the start() whose attempt it cleans up.
CancelStop(c) ==
    /\ c \in Cancellable \ struck
    /\ \/ /\ PacketsGathered(c, "restart")
          /\ RestartEnds(c, "cancelled", pc)
          /\ UNCHANGED startActive
       \/ /\ \E e \in Errors : PacketsGathered(c, e)
          /\ StartEnds(c, "cancelled")
    /\ struck' = struck \cup {c}
    /\ UNCHANGED <<link, flags, transport, startExc, pinging, results, owed, cont,
                   attempt, on, faults>>

Cancel(c) ==
    CancelRequest(c) \/ CancelHandshake(c) \/ CancelStart(c) \/ CancelStop(c)

-----------------------------------------------------------------------------
(* The specification *)

Next ==
    \/ OwnerStarts
    \/ OwnerStops
    \/ OwnerStopped
    \/ \E t \in Tasks : Start(t) \/ Stop(t)
    \/ \E t \in Restarters : Restart(t)
    \/ \E c \in Callers : Request(c) \/ Cancel(c)
    \/ \E t \in Tasks : DeliverAnswer(t)
    \/ \E w \in Conns : Receive(w) \/ Break(w)
    \/ CooldownPasses

Spec == Init /\ [][Next]_vars

-----------------------------------------------------------------------------
(* Fairness: the event loop runs every task that can run, sockets report what *)
(* happened to them, timeouts expire and the server answers what it received. *)
(* A caller that is running cannot run forever: its retries are counted down.  *)
(* Users need not cancel, the owner need not stop, the network need not fail. *)

Fairness ==
    /\ WF_vars(OwnerStarts)
    /\ WF_vars(OwnerStopped)
    /\ \A t \in Tasks : WF_vars(Start(t)) /\ WF_vars(Stop(t))
    /\ \A t \in Restarters : WF_vars(Restart(t))
    /\ \A c \in Callers : WF_vars(pc[c] # "idle" /\ Request(c))
    /\ \A t \in Tasks : WF_vars(DeliverAnswer(t))
    /\ \A w \in Conns : WF_vars(Receive(w))
    /\ WF_vars(CooldownPasses)

FairSpec == Spec /\ Fairness

-----------------------------------------------------------------------------
(* Properties *)

\* Task t runs start(), its own cleanup included; task t runs restart().
InStart(t) ==
    \/ pc[t] \in StartPoints
    \/ pc[t] \in StopPoints /\ cont[t] \in Errors
InRestart(t) == t # Owner /\ pc[t] \in StartPoints \cup StopPoints

\* Nobody waits for an event that nobody will set: while a task waits for
\* _start_completed some task runs start(), and while a task waits for
\* _restart_done the holder of the restart lock runs restart().
NoStrandedWaiter ==
    \A t \in Tasks :
        /\ pc[t] = "waitStart" => startActive /\ \E u \in Tasks : InStart(u)
        /\ pc[t] \in {"shareWait", "waitRestart"} =>
               lock # None /\ InRestart(lock)

\* At most one handshake cycle at a time: two of them would close each other's
\* connection (a start() drops the connection it finds) and dial in turns.
OneHandshakeCycle ==
    \A t, u \in Tasks : InStart(t) /\ InStart(u) => t = u

\* Two receive loops never read the same connection: each would take packets
\* the other waits for, and asyncio refuses the second reader.
OneReader ==
    \A v, w \in Conns :
        worker[v] = "run" /\ worker[w] = "run" /\ reading[v] = reading[w] => v = w

\* An answer that has reached the request is what invoke() returns: a transport
\* failure that follows at once does not turn it into a retry, which would run
\* the query a second time.
AnswerIsKept ==
    [][\A c \in Callers :
          pc[c] = "answer" /\ results[c] = "ok" =>
              \/ pc'[c] = "answer" /\ results'[c] = "ok"
              \/ pc'[c] \in {"done", "cancelled"}]_vars

\* restart() is a single flight: whoever wants a reconnect while one runs waits
\* for it, and its end, also by failure or cancellation, releases them all.
Waiting == {t \in Tasks : pc[t] \in {"shareWait", "waitRestart"}}
Flight == INSTANCE SingleFlight WITH leader <- lock, waiting <- Waiting
RestartIsShared == Flight!Spec

\* Every reconnect ends, so that nobody waits for one forever.
RestartEndsForAll == Flight!FairSpec

\* Every invoke() returns or raises, whatever the network did.
InvokeReturns ==
    \A c \in Callers : (pc[c] = "loop") ~> (pc[c] \in Returned)

\* A connection that is lost while its receive loop reads it is replaced, by
\* the background reconnect if by nobody else, unless the attempts run out or a
\* request is cancelled: a leader of a restart that is cancelled leaves the
\* session down, until another request finds it so.
LossIsRepaired ==
    (/\ connected
     /\ connection # 0
     /\ socket[connection] = "lost"
     /\ \E w \in Conns : worker[w] = "run" /\ reading[w] = connection)
    ~> \/ connected /\ connection # 0 /\ socket[connection] = "open"
       \/ startExc # None
       \/ struck # {}
=============================================================================
