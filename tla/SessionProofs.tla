---------------------------- MODULE SessionProofs ----------------------------
(***************************************************************************)
(* Proofs about Session, for any number of callers, connections, faults    *)
(* and retries: its types, that restart() is the single flight of          *)
(* SingleFlight, that nobody waits for an event that nobody will set, that *)
(* one task at a time runs a handshake cycle and one receive loop reads,   *)
(* and that an answer which has arrived is what the request returns.       *)
(***************************************************************************)
EXTENDS Session, TLAPS

-----------------------------------------------------------------------------
(* Type correctness                                                        *)

\* A request that has used up its retries has failed, so that they never go
\* below zero.
RetriesLeft == \A c \in Callers : retries[c] = 0 => pc[c] = "failed"

Typed == TypeOK /\ RetriesLeft

\* Where restart() may return to: never to a point where a task waits.
AfterPoints == {"idle", "failed", "cancelled", "checkUp", "loop", "retry",
                "busy", "backoff"}

LEMMA AfterRestartPoint ==
    ASSUME NEW t \in Tasks, NEW e \in Errors \cup {None}
    PROVE  AfterRestart(t, e) \in AfterPoints
BY SMT DEF AfterRestart, AfterPoints, Errors, None, Tasks, Restarters

\* Waking waiters keeps a program counter well typed, and fails nobody.
LEMMA WakeTyped ==
    ASSUME NEW p \in [Tasks -> Points]
    PROVE  /\ WakeStart(p) \in [Tasks -> Points]
           /\ WakeRestart(p) \in [Tasks -> Points]
           /\ \A t \in Tasks : /\ p[t] = "failed" => WakeStart(p)[t] = "failed"
                               /\ p[t] = "failed" => WakeRestart(p)[t] = "failed"
BY SMT DEF WakeStart, WakeRestart, Points, CallPoints, Tasks, Restarters

LEMMA RestartEndsTyped ==
    ASSUME LocalsTypeOK, RetriesLeft,
           NEW t \in Tasks, pc[t] # "failed",
           NEW e \in Errors \cup {None},
           NEW p \in [Tasks -> Points],
           \A c \in Callers : pc[c] = "failed" => p[c] = "failed",
           RestartEnds(t, e, p)
    PROVE  /\ pc' \in [Tasks -> Points]
           /\ via' \in [Tasks -> {"invoke", "wait"}]
           /\ retries' = retries
           /\ RetriesLeft'
           /\ lock' = None /\ restartExc' = e /\ cooling' \in BOOLEAN
<1> DEFINE q == [p EXCEPT ![t] = AfterRestart(t, e)]
<1>1. q \in [Tasks -> Points]
  BY AfterRestartPoint DEF AfterPoints, Points, CallPoints, Returned
<1>2. pc' = WakeRestart(q)
  BY DEF RestartEnds
<1>3. RetriesLeft'
  <2> SUFFICES ASSUME NEW c \in Callers, retries'[c] = 0 PROVE pc'[c] = "failed"
    BY DEF RetriesLeft
  <2>1. retries[c] = 0 /\ c \in Tasks
    BY DEF RestartEnds, RestartReturns, Tasks, Restarters
  <2>2. pc[c] = "failed" /\ c # t
    BY <2>1 DEF RetriesLeft
  <2>3. q[c] = "failed"
    BY <2>1, <2>2
  <2> QED
    BY <1>1, <1>2, <2>1, <2>3, WakeTyped
<1>4. via' \in [Tasks -> {"invoke", "wait"}]
  BY DEF RestartEnds, RestartReturns, LocalsTypeOK
<1>5. cooling' \in BOOLEAN
  BY Zenon DEF RestartEnds
<1>6. retries' = retries /\ lock' = None /\ restartExc' = e
  BY DEF RestartEnds, RestartReturns
<1> QED
  BY <1>1, <1>2, <1>3, <1>4, <1>5, <1>6, WakeTyped

LEMMA StartEndsTyped ==
    ASSUME SessionTypeOK, LocalsTypeOK, RetriesLeft,
           NEW t \in Tasks, pc[t] # "failed",
           NEW e \in Errors \cup {None},
           StartEnds(t, e)
    PROVE  /\ pc' \in [Tasks -> Points]
           /\ via' \in [Tasks -> {"invoke", "wait"}]
           /\ retries' = retries
           /\ RetriesLeft'
           /\ startActive' = FALSE
           /\ lock' \in Restarters \cup {None}
           /\ restartExc' \in Errors \cup {None}
           /\ cooling' \in BOOLEAN
<1>1. startActive' = FALSE
  BY DEF StartEnds
<1>2. CASE t = Owner
  <2> DEFINE q == [pc EXCEPT ![t] = IF e = None THEN "up" ELSE "gone"]
  <2>1. q \in [Tasks -> Points]
    BY DEF LocalsTypeOK, Points
  <2>2. pc' = WakeStart(q) /\ UNCHANGED <<restartState, callLocals>>
    BY <1>2 DEF StartEnds
  <2>3. UNCHANGED <<via, retries, lock, restartExc, cooling>>
    BY <2>2 DEF callLocals, restartState
  <2>4. RetriesLeft'
    <3> SUFFICES ASSUME NEW c \in Callers, retries[c] = 0 PROVE pc'[c] = "failed"
      BY <2>3 DEF RetriesLeft
    <3>1. pc[c] = "failed" /\ c # t /\ c \in Tasks
      BY DEF RetriesLeft, Tasks, Restarters
    <3>2. q[c] = "failed"
      BY <3>1 DEF LocalsTypeOK
    <3> QED
      BY <2>1, <2>2, <3>1, <3>2, WakeTyped
  <2> QED
    BY <1>1, <2>1, <2>2, <2>3, <2>4, WakeTyped DEF SessionTypeOK, LocalsTypeOK
<1>3. CASE t # Owner
  <2>1. WakeStart(pc) \in [Tasks -> Points]
    BY WakeTyped DEF LocalsTypeOK
  <2>2. \A c \in Callers : pc[c] = "failed" => WakeStart(pc)[c] = "failed"
    BY WakeTyped DEF LocalsTypeOK, Tasks, Restarters
  <2>3. RestartEnds(t, e, WakeStart(pc))
    BY <1>3 DEF StartEnds
  <2> QED
    BY <1>1, <2>1, <2>2, <2>3, RestartEndsTyped
<1> QED
  BY <1>2, <1>3

\* stop() begins: what it does to the session's attributes, beside what its
\* caller does to them.
LEMMA StopBeginsTyped ==
    ASSUME SessionTypeOK, NEW t, NEW ret, StopBegins(t, ret),
           UNCHANGED <<connection, recvTask, teardown, pinging>>,
           startActive' \in BOOLEAN, cooling' \in BOOLEAN,
           startExc' \in Errors \cup {None}, restartExc' \in Errors \cup {None},
           lock' \in Restarters \cup {None}
    PROVE  SessionTypeOK'
<1>1. connected' = FALSE /\ stopping' = TRUE
  BY DEF StopBegins
<1> QED
  BY <1>1, Zenon DEF SessionTypeOK

\* Each attempt of start() clears _stopping and _teardown_started.
LEMMA AttemptTyped ==
    ASSUME SessionTypeOK, stopping' = FALSE, teardown' = FALSE,
           UNCHANGED <<connection, recvTask, connected, startActive, startExc,
                       lock, restartExc, cooling, pinging>>
    PROVE  SessionTypeOK'
BY Zenon DEF SessionTypeOK

\* The steps of start().
LEMMA StartTyped ==
    ASSUME Typed, NEW t \in Tasks, Start(t) PROVE Typed'
<1> USE ParametersOK DEF Typed, TypeOK, SessionTypeOK, RequestsTypeOK,
      TransportTypeOK, LocalsTypeOK, RetriesLeft, Tasks, Restarters, Points,
      StopPoints, StartPoints, CallPoints, Returned, Outcomes, Errors, link,
      flags, startState, restartState, session, requests, transport,
      callLocals, locals, environment
<1>1. CASE SlotAcquired(t)
  BY <1>1
  DEF SlotAcquired, At, CloseConnection, Goto
<1>2. CASE Dialled(t)
  BY <1>2
  DEF Dialled, At, Register, Goto
<1>3. CASE DialFails(t)
  <2>1. SessionTypeOK'
    <3>1. StopBegins(t, "os")
      BY <1>3 DEF DialFails
    <3>2. UNCHANGED <<connection, recvTask, teardown, pinging, startActive, startExc, lock, restartExc, cooling>>
      BY <1>3 DEF DialFails
    <3> QED
      BY <3>1, <3>2, StopBeginsTyped
  <2>2. /\ RequestsTypeOK' /\ TransportTypeOK'
        /\ faults' \in 0 .. MaxFaults /\ struck' \subseteq Callers
    BY <1>3
    DEF DialFails, At, StopBegins, Fault, Goto
  <2>3. LocalsTypeOK' /\ RetriesLeft'
    BY <1>3
    DEF DialFails, At, StopBegins, Fault, Goto
  <2> QED
    BY <2>1, <2>2, <2>3
<1>4. CASE HelloAnswered(t)
  <2>1. pc[t] # "failed" /\ StartEnds(t, None)
    BY <1>4 DEF HelloAnswered, At
  <2>2. /\ pc' \in [Tasks -> Points] /\ via' \in [Tasks -> {"invoke", "wait"}]
        /\ retries' = retries /\ RetriesLeft' /\ startActive' = FALSE
        /\ lock' \in Restarters \cup {None}
        /\ restartExc' \in Errors \cup {None} /\ cooling' \in BOOLEAN
    BY <2>1, StartEndsTyped
  <2>3. /\ connected' = TRUE /\ pinging' = TRUE
        /\ UNCHANGED <<link, stopping, teardown, startExc>>
    BY <1>4 DEF HelloAnswered
  <2>4. SessionTypeOK'
    BY <2>2, <2>3, Zenon
  <2>5. RequestsTypeOK' /\ TransportTypeOK' /\ faults' = faults /\ struck' = struck
    BY <1>4 DEF HelloAnswered, Forget
  <2>6. LocalsTypeOK'
    BY <1>4, <2>2 DEF HelloAnswered
  <2> QED
    BY <2>2, <2>4, <2>5, <2>6
<1>5. CASE HelloResent(t)
  BY <1>5
  DEF HelloResent, At, Register
<1>6. CASE HelloFails(t)
  <2>1. SessionTypeOK'
    <3>1. StopBegins(t, IF results[t] = "busy" THEN "busy" ELSE "os")
      BY <1>6 DEF HelloFails
    <3>2. UNCHANGED <<connection, recvTask, teardown, pinging, startActive, startExc, lock, restartExc, cooling>>
      BY <1>6 DEF HelloFails
    <3> QED
      BY <3>1, <3>2, StopBeginsTyped
  <2>2. /\ RequestsTypeOK' /\ TransportTypeOK'
        /\ faults' \in 0 .. MaxFaults /\ struck' \subseteq Callers
    BY <1>6
    DEF HelloFails, At, Forget, StopBegins, Fault, Goto
  <2>3. LocalsTypeOK' /\ RetriesLeft'
    BY <1>6
    DEF HelloFails, At, Forget, StopBegins, Fault, Goto
  <2> QED
    BY <2>1, <2>2, <2>3
<1>7. CASE HelloRejected(t)
  <2>1. SessionTypeOK'
    <3>1. StopBegins(t, "rpc")
      BY <1>7 DEF HelloRejected
    <3>2. UNCHANGED <<connection, recvTask, teardown, pinging, startActive, lock, restartExc, cooling>>
      BY <1>7 DEF HelloRejected
    <3>3. startExc' \in Errors \cup {None}
      BY <1>7 DEF HelloRejected
    <3> QED
      BY <3>1, <3>2, <3>3, StopBeginsTyped
  <2>2. /\ RequestsTypeOK' /\ TransportTypeOK'
        /\ faults' \in 0 .. MaxFaults /\ struck' \subseteq Callers
    BY <1>7
    DEF HelloRejected, At, Forget, StopBegins, Goto
  <2>3. LocalsTypeOK' /\ RetriesLeft'
    BY <1>7
    DEF HelloRejected, At, Forget, StopBegins, Goto
  <2> QED
    BY <2>1, <2>2, <2>3
<1>8. CASE StartSleepEnds(t)
  <2>1. SessionTypeOK'
    <3>1. stopping' = FALSE /\ teardown' = FALSE
      BY <1>8 DEF StartSleepEnds, NextAttempt
    <3>2. UNCHANGED <<connection, recvTask, connected, startActive, startExc,
                      lock, restartExc, cooling, pinging>>
      BY <1>8 DEF StartSleepEnds
    <3> QED
      BY <3>1, <3>2, AttemptTyped
  <2>2. /\ RequestsTypeOK' /\ TransportTypeOK'
        /\ faults' \in 0 .. MaxFaults /\ struck' \subseteq Callers
    BY <1>8
    DEF StartSleepEnds, At, NextAttempt, CountAttempt, Goto
  <2>3. LocalsTypeOK' /\ RetriesLeft'
    BY <1>8
    DEF StartSleepEnds, At, NextAttempt, CountAttempt, Goto
  <2> QED
    BY <2>1, <2>2, <2>3
<1> QED
  BY <1>1, <1>2, <1>3, <1>4, <1>5, <1>6, <1>7, <1>8 DEF Start

\* What the last lines of stop() do to the connection and the results.
LEMMA StopFinishesTyped ==
    ASSUME Typed, NEW t \in Tasks, NEW ret, StopFinishes(t, ret)
    PROVE  /\ RequestsTypeOK' /\ TransportTypeOK'
           /\ connection' = 0 /\ pc[t] = "stopRecv" /\ cont[t] = ret
           /\ recvTask' = recvTask /\ connected' = connected /\ pinging' = pinging
           /\ cont' = cont /\ on' = on /\ faults' = faults /\ struck' = struck
           /\ awaited' \in [Tasks \cup Conns -> {0} \cup Conns]
BY DEF StopFinishes, PacketsGathered, At, FailPending, CloseConnection, Typed,
   TypeOK, SessionTypeOK, RequestsTypeOK, TransportTypeOK, LocalsTypeOK, Outcomes,
   environment

\* The steps of stop().
LEMMA StopTyped ==
    ASSUME Typed, NEW t \in Tasks, Stop(t) PROVE Typed'
<1> USE ParametersOK DEF Typed, TypeOK, SessionTypeOK, RequestsTypeOK,
      TransportTypeOK, LocalsTypeOK, RetriesLeft, Tasks, Restarters, Points,
      StopPoints, StartPoints, CallPoints, Returned, Outcomes, Errors, link,
      flags, startState, restartState, session, requests, transport,
      callLocals, locals, environment
<1>1. CASE StopPingDone(t)
  <2>1. SessionTypeOK'
    <3>1. pinging' \in BOOLEAN
      BY <1>1 DEF StopPingDone
    <3>2. UNCHANGED <<link, startExc, lock, restartExc,
                       connected, stopping, teardown, startActive, cooling>>
      BY <1>1 DEF StopPingDone
    <3> QED
      BY <3>1, <3>2
  <2>2. /\ RequestsTypeOK' /\ TransportTypeOK'
        /\ faults' \in 0 .. MaxFaults /\ struck' \subseteq Callers
    BY <1>1
    DEF StopPingDone, At, CancelRecvTask, Goto
  <2>3. LocalsTypeOK' /\ RetriesLeft'
    BY <1>1
    DEF StopPingDone, At, CancelRecvTask, Goto
  <2> QED
    BY <2>1, <2>2, <2>3
<1>2. CASE StopThenStart(t)
  <2>1. StopFinishes(t, "restart")
    BY <1>2 DEF StopThenStart
  <2>0. /\ RequestsTypeOK' /\ TransportTypeOK' /\ pc[t] # "failed"
        /\ connection' = 0 /\ recvTask' = recvTask
        /\ connected' = connected /\ pinging' = pinging
        /\ cont' = cont /\ on' = on /\ faults' = faults /\ struck' = struck
        /\ awaited' \in [Tasks \cup Conns -> {0} \cup Conns]
    BY <2>1, StopFinishesTyped
  <2>2. CASE /\ StartBegins(t)
             /\ UNCHANGED <<restartState, callLocals>>
    <3>1. SessionTypeOK'
      BY <2>1, <2>2, <2>0, Zenon DEF StartBegins, NextAttempt
    <3>2. LocalsTypeOK' /\ RetriesLeft'
      BY <2>0, <2>2
      DEF StartBegins, NextAttempt, CountAttempt, Goto
    <3> QED
      BY <2>0, <3>1, <3>2
  <2>3. CASE /\ RestartEnds(t, None, pc)
             /\ UNCHANGED <<startState, stopping, teardown, attempt>>
    <3>1. /\ pc' \in [Tasks -> Points] /\ via' \in [Tasks -> {"invoke", "wait"}]
          /\ retries' = retries /\ RetriesLeft'
          /\ lock' = None /\ restartExc' = None /\ cooling' \in BOOLEAN
      BY <2>1, <2>3, <2>0, RestartEndsTyped
    <3>2. SessionTypeOK'
      BY <2>1, <2>3, <3>1, <2>0, Zenon
    <3>3. LocalsTypeOK'
      BY <2>1, <2>3, <3>1, <2>0
    <3> QED
      BY <2>0, <3>1, <3>2, <3>3
  <2> QED
    BY <1>2, <2>2, <2>3 DEF StopThenStart
<1>3. CASE StopThenRetry(t)
  <2> PICK e \in RetriedErrors :
          /\ StopFinishes(t, e)
          /\ \/ startExc' = e /\ StartEnds(t, e)
             \/ /\ Goto(t, "startSleep")
                /\ UNCHANGED <<startState, restartState, callLocals>>
    BY <1>3 DEF StopThenRetry
  <2>1. /\ StopFinishes(t, e) /\ UNCHANGED <<stopping, teardown, attempt>>
        /\ e \in Errors
    BY <1>3 DEF StopThenRetry, RetriedErrors
  <2>0. /\ RequestsTypeOK' /\ TransportTypeOK' /\ pc[t] # "failed"
        /\ connection' = 0 /\ recvTask' = recvTask
        /\ connected' = connected /\ pinging' = pinging
        /\ cont' = cont /\ on' = on /\ faults' = faults /\ struck' = struck
        /\ awaited' \in [Tasks \cup Conns -> {0} \cup Conns]
    BY <2>1, StopFinishesTyped
  <2>2. CASE startExc' = e /\ StartEnds(t, e)
    <3>1. /\ pc' \in [Tasks -> Points] /\ via' \in [Tasks -> {"invoke", "wait"}]
          /\ retries' = retries /\ RetriesLeft' /\ startActive' = FALSE
          /\ lock' \in Restarters \cup {None}
          /\ restartExc' \in Errors \cup {None} /\ cooling' \in BOOLEAN
      BY <2>1, <2>2, <2>0, StartEndsTyped
    <3>2. SessionTypeOK'
      BY <2>1, <2>2, <3>1, <2>0, Zenon
    <3>3. LocalsTypeOK'
      BY <2>1, <2>2, <3>1, <2>0
    <3> QED
      BY <2>0, <3>1, <3>2, <3>3
  <2>3. CASE /\ Goto(t, "startSleep")
             /\ UNCHANGED <<startState, restartState, callLocals>>
    <3>1. SessionTypeOK'
      BY <2>0, <2>1, <2>3
    <3>2. LocalsTypeOK' /\ RetriesLeft'
      BY <2>0, <2>1, <2>3 DEF Goto
    <3> QED
      BY <2>0, <3>1, <3>2
  <2> QED
    BY <2>2, <2>3
<1>4. CASE StopThenRaise(t)
  <2> PICK e \in Errors : StopFinishes(t, e) /\ StartEnds(t, e)
    BY <1>4 DEF StopThenRaise, RaisedErrors
  <2>1. StopFinishes(t, e) /\ UNCHANGED <<stopping, teardown, startExc, attempt>>
    BY <1>4 DEF StopThenRaise
  <2>0. /\ RequestsTypeOK' /\ TransportTypeOK' /\ pc[t] # "failed"
        /\ connection' = 0 /\ recvTask' = recvTask
        /\ connected' = connected /\ pinging' = pinging
        /\ cont' = cont /\ on' = on /\ faults' = faults /\ struck' = struck
        /\ awaited' \in [Tasks \cup Conns -> {0} \cup Conns]
    BY <2>1, StopFinishesTyped
  <2>2. StartEnds(t, e)
    OBVIOUS
  <2>3. /\ pc' \in [Tasks -> Points] /\ via' \in [Tasks -> {"invoke", "wait"}]
        /\ retries' = retries /\ RetriesLeft' /\ startActive' = FALSE
        /\ lock' \in Restarters \cup {None}
        /\ restartExc' \in Errors \cup {None} /\ cooling' \in BOOLEAN
    BY <2>1, <2>2, <2>0, StartEndsTyped
  <2>4. SessionTypeOK'
    BY <2>1, <2>2, <2>3, <2>0, Zenon
  <2>5. LocalsTypeOK'
    BY <2>1, <2>2, <2>3, <2>0
  <2> QED
    BY <2>0, <2>3, <2>4, <2>5
<1> QED
  BY <1>1, <1>2, <1>3, <1>4 DEF Stop

\* The steps of restart().
LEMMA RestartTyped ==
    ASSUME Typed, NEW t \in Restarters, Restart(t) PROVE Typed'
<1> USE ParametersOK DEF Typed, TypeOK, SessionTypeOK, RequestsTypeOK,
      TransportTypeOK, LocalsTypeOK, RetriesLeft, Tasks, Restarters, Points,
      StopPoints, StartPoints, CallPoints, Returned, Outcomes, Errors, link,
      flags, startState, restartState, session, requests, transport,
      callLocals, locals, environment
<1>1. CASE RestartShares(t)
  BY <1>1
  DEF RestartShares, At, Goto, OnlyPc, OnlyCall
<1>2. CASE RestartShared(t)
  BY <1>2, AfterRestartPoint
  DEF RestartShared, At, Goto, RestartReturns, OnlyCall, AfterPoints
<1>3. CASE RestartRefused(t)
  BY <1>3, AfterRestartPoint
  DEF RestartRefused, At, Goto, RestartReturns, OnlyCall, AfterPoints
<1>4. CASE RestartLeads(t)
  <2>1. SessionTypeOK'
    <3>1. StopBegins(t, "restart")
      BY <1>4 DEF RestartLeads
    <3>2. UNCHANGED <<connection, recvTask, teardown, pinging, startActive, startExc, restartExc, cooling>>
      BY <1>4 DEF RestartLeads
    <3>3. lock' = t
      BY <1>4 DEF RestartLeads
    <3> QED
      BY <3>1, <3>2, <3>3, StopBeginsTyped
  <2>2. /\ RequestsTypeOK' /\ TransportTypeOK'
        /\ faults' \in 0 .. MaxFaults /\ struck' \subseteq Callers
    BY <1>4
    DEF RestartLeads, At, StopBegins, Goto
  <2>3. LocalsTypeOK' /\ RetriesLeft'
    BY <1>4
    DEF RestartLeads, At, StopBegins, Goto
  <2> QED
    BY <2>1, <2>2, <2>3
<1> QED
  BY <1>1, <1>2, <1>3, <1>4 DEF Restart

\* The steps of a request.
LEMMA RequestTyped ==
    ASSUME Typed, NEW c \in Callers, Request(c) PROVE Typed'
<1> USE ParametersOK DEF Typed, TypeOK, SessionTypeOK, RequestsTypeOK,
      TransportTypeOK, LocalsTypeOK, RetriesLeft, Tasks, Restarters, Points,
      StopPoints, StartPoints, CallPoints, Returned, Outcomes, Errors, link,
      flags, startState, restartState, session, requests, transport,
      callLocals, locals, environment
<1>1. CASE Invoke(c)
  BY <1>1
  DEF Invoke, At, Goto, OnlyPc, OnlyCall
<1>2. CASE SendBegins(c)
  BY <1>2
  DEF SendBegins, At, Register, Goto
<1>3. CASE SendRefused(c)
  BY <1>3
  DEF SendRefused, At, Retry, Goto, OnlyCall
<1>4. CASE Sent(c)
  BY <1>4
  DEF Sent, At, Goto, OnlyPc, OnlyCall
<1>5. CASE SendFails(c)
  BY <1>5
  DEF SendFails, At, Forget, Retry, Fault, Goto
<1>6. CASE Answered(c)
  BY <1>6
  DEF Answered, At, Forget, Retry, Goto
<1>7. CASE Resent(c)
  BY <1>7
  DEF Resent, At, Forget, Register, Retry, Goto
<1>8. CASE AnswerTimesOut(c)
  BY <1>8
  DEF AnswerTimesOut, At, Forget, Fault, Goto
<1>9. CASE Retries(c)
  BY <1>9
  DEF Retries, At, Retry, Goto, OnlyCall
<1>10. CASE BackoffEnds(c)
  BY <1>10
  DEF BackoffEnds, At, Goto, OnlyPc, OnlyCall
<1>11. CASE WaitStarted(c)
  BY <1>11
  DEF WaitStarted, At, Goto, OnlyPc, OnlyCall
<1>12. CASE WaitedStart(c)
  BY <1>12
  DEF WaitedStart, At, Goto, OnlyCall
<1>13. CASE CheckUp(c)
  BY <1>13
  DEF CheckUp, At, Goto, OnlyPc, OnlyCall
<1>14. CASE Busy(c)
  BY <1>14
  DEF Busy, At, Retry, Goto, OnlyCall
<1> QED
  BY <1>1, <1>2, <1>3, <1>4, <1>5, <1>6, <1>7, <1>8, <1>9, <1>10, <1>11,
     <1>12, <1>13, <1>14 DEF Request

\* The steps of a receive loop.
LEMMA ReceiveTyped ==
    ASSUME Typed, NEW w \in Conns, Receive(w) PROVE Typed'
<1> USE ParametersOK DEF Typed, TypeOK, SessionTypeOK, RequestsTypeOK,
      TransportTypeOK, LocalsTypeOK, RetriesLeft, Tasks, Restarters, Points,
      StopPoints, StartPoints, CallPoints, Returned, Outcomes, Errors, link,
      flags, startState, restartState, session, requests, transport,
      callLocals, locals, environment
<1>1. ASSUME NEW t \in Tasks, ReceiveAnswer(w, t) PROVE Typed'
  BY <1>1 DEF ReceiveAnswer, NextTurn
<1>2. CASE BadPacket(w)
  BY <1>2
  DEF BadPacket, ScheduleRestart, Goto, Fault, NextTurn
<1>3. CASE ReceiveFails(w)
  BY <1>3
  DEF ReceiveFails, FailPending, ScheduleRestart, Goto
<1>4. CASE ReceiveUnknownKey(w)
  <2>1. SessionTypeOK'
    BY <1>4
    DEF ReceiveUnknownKey, FailPending, Fault
  <2>2. /\ RequestsTypeOK' /\ TransportTypeOK'
        /\ faults' \in 0 .. MaxFaults /\ struck' \subseteq Callers
    BY <1>4
    DEF ReceiveUnknownKey, FailPending, Fault
  <2>3. LocalsTypeOK' /\ RetriesLeft'
    BY <1>4
    DEF ReceiveUnknownKey, FailPending, Fault
  <2> QED
    BY <2>1, <2>2, <2>3
<1>5. CASE WorkerPingDone(w)
  <2>1. SessionTypeOK'
    <3>1. pinging' \in BOOLEAN
      BY <1>5 DEF WorkerPingDone
    <3>2. UNCHANGED <<link, startExc, lock, restartExc,
                       connected, stopping, teardown, startActive, cooling>>
      BY <1>5 DEF WorkerPingDone
    <3> QED
      BY <3>1, <3>2
  <2>2. /\ RequestsTypeOK' /\ TransportTypeOK'
        /\ faults' \in 0 .. MaxFaults /\ struck' \subseteq Callers
    BY <1>5
    DEF WorkerPingDone
  <2>3. LocalsTypeOK' /\ RetriesLeft'
    BY <1>5
    DEF WorkerPingDone
  <2> QED
    BY <2>1, <2>2, <2>3
<1>6. CASE WorkerStopped(w)
  BY <1>6
  DEF WorkerStopped, FailPending, CloseConnection
<1> QED
  BY <1>1, <1>2, <1>3, <1>4, <1>5, <1>6 DEF Receive

\* The restart() or start() that a cancelled stop() was called by.
LEMMA CancelStopTyped ==
    ASSUME Typed, NEW c \in Callers, CancelStop(c)
    PROVE  /\ pc' \in [Tasks -> Points] /\ via' \in [Tasks -> {"invoke", "wait"}]
           /\ retries' = retries /\ RetriesLeft' /\ startActive' \in BOOLEAN
           /\ lock' \in Restarters \cup {None}
           /\ restartExc' \in Errors \cup {None} /\ cooling' \in BOOLEAN
<1>1. c \in Tasks /\ "cancelled" \in Errors /\ pc[c] # "failed"
  BY DEF CancelStop, PacketsGathered, At, Tasks, Restarters, Errors
<1>2. SessionTypeOK /\ LocalsTypeOK /\ RetriesLeft /\ pc \in [Tasks -> Points]
  BY DEF Typed, TypeOK, LocalsTypeOK
<1>3. CASE RestartEnds(c, "cancelled", pc) /\ UNCHANGED startActive
  BY <1>1, <1>2, <1>3, RestartEndsTyped DEF SessionTypeOK
<1>4. CASE StartEnds(c, "cancelled")
  BY <1>1, <1>2, <1>4, StartEndsTyped
<1> QED
  BY <1>3, <1>4 DEF CancelStop

\* A cancelled request.
LEMMA CancelTyped ==
    ASSUME Typed, NEW c \in Callers, Cancel(c) PROVE Typed'
<1> USE ParametersOK DEF Typed, TypeOK, SessionTypeOK, RequestsTypeOK,
      TransportTypeOK, LocalsTypeOK, RetriesLeft, Tasks, Restarters, Points,
      StopPoints, StartPoints, CallPoints, Returned, Outcomes, Errors, link,
      flags, startState, restartState, session, requests, transport,
      callLocals, locals, environment
<1>1. CASE CancelRequest(c)
  BY <1>1
  DEF CancelRequest, At, Forget, Goto
<1>2. CASE CancelHandshake(c)
  <2>1. SessionTypeOK'
    <3>1. StopBegins(c, "cancelled")
      BY <1>2 DEF CancelHandshake
    <3>2. UNCHANGED <<connection, recvTask, teardown, pinging, startActive, lock, restartExc, cooling>>
      BY <1>2 DEF CancelHandshake
    <3>3. startExc' \in Errors \cup {None}
      BY <1>2 DEF CancelHandshake
    <3> QED
      BY <3>1, <3>2, <3>3, StopBeginsTyped
  <2>2. /\ RequestsTypeOK' /\ TransportTypeOK'
        /\ faults' \in 0 .. MaxFaults /\ struck' \subseteq Callers
    BY <1>2
    DEF CancelHandshake, At, Forget, StopBegins, Goto
  <2>3. LocalsTypeOK' /\ RetriesLeft'
    BY <1>2
    DEF CancelHandshake, At, Forget, StopBegins, Goto
  <2> QED
    BY <2>1, <2>2, <2>3
<1>3. CASE CancelStart(c)
  <2>1. pc[c] # "failed" /\ StartEnds(c, "cancelled")
    BY <1>3 DEF CancelStart, At
  <2>2. /\ pc' \in [Tasks -> Points] /\ via' \in [Tasks -> {"invoke", "wait"}]
        /\ retries' = retries /\ RetriesLeft' /\ startActive' = FALSE
        /\ lock' \in Restarters \cup {None}
        /\ restartExc' \in Errors \cup {None} /\ cooling' \in BOOLEAN
    BY <2>1, StartEndsTyped
  <2>3. UNCHANGED <<link, flags, startExc, pinging>>
    BY <1>3 DEF CancelStart
  <2>4. SessionTypeOK'
    BY <2>2, <2>3, Zenon
  <2>5. LocalsTypeOK'
    BY <1>3, <2>2 DEF CancelStart
  <2> QED
    BY <1>3, <2>2, <2>4, <2>5 DEF CancelStart
<1>4. CASE CancelStop(c)
  <2>1. packets' = {} /\ awaited' \in [Tasks \cup Conns -> {0} \cup Conns]
    BY <1>4 DEF CancelStop, PacketsGathered
  <2>3. /\ pc' \in [Tasks -> Points] /\ via' \in [Tasks -> {"invoke", "wait"}]
        /\ retries' = retries /\ RetriesLeft' /\ startActive' \in BOOLEAN
        /\ lock' \in Restarters \cup {None}
        /\ restartExc' \in Errors \cup {None} /\ cooling' \in BOOLEAN
    BY <1>4, CancelStopTyped
  <2>4. UNCHANGED <<link, flags, startExc, pinging>>
    BY <1>4 DEF CancelStop
  <2>5. SessionTypeOK'
    BY <2>3, <2>4, Zenon
  <2>6. LocalsTypeOK'
    BY <1>4, <2>1, <2>3 DEF CancelStop
  <2> QED
    BY <1>4, <2>1, <2>3, <2>5, <2>6 DEF CancelStop
<1> QED
  BY <1>1, <1>2, <1>3, <1>4 DEF Cancel

\* The attributes, the requests in flight, the transports and the locals of the
\* tasks stay in their ranges: retries never go below zero and no exception
\* leaves its handlers' kinds.
THEOREM TypeCorrect == Spec => []TypeOK
<1>1. Init => Typed
  <2> SUFFICES ASSUME Init PROVE Typed
    OBVIOUS
  <2> USE DEF Init
  <2>1. SessionTypeOK
    BY DEF SessionTypeOK
  <2>2. RequestsTypeOK
    BY DEF RequestsTypeOK
  <2>3. TransportTypeOK
    BY DEF TransportTypeOK, None
  <2>4. LocalsTypeOK
    BY ParametersOK DEF LocalsTypeOK, Points
  <2>5. faults \in 0 .. MaxFaults /\ struck \subseteq Callers
    BY ParametersOK
  <2>6. RetriesLeft
    BY ParametersOK DEF RetriesLeft, Tasks, Restarters
  <2> QED
    BY <2>1, <2>2, <2>3, <2>4, <2>5, <2>6 DEF Typed, TypeOK
<1>2. Typed /\ [Next]_vars => Typed'
  <2> SUFFICES ASSUME Typed, [Next]_vars PROVE Typed'
    OBVIOUS
  <2> USE ParametersOK DEF Typed, TypeOK, SessionTypeOK, RequestsTypeOK,
      TransportTypeOK, LocalsTypeOK, RetriesLeft, Tasks, Restarters, Points,
      StopPoints, StartPoints, CallPoints, Returned, Outcomes, Errors, link,
      flags, startState, restartState, session, requests, transport,
      callLocals, locals, environment
  <2>1. CASE OwnerStarts
    <3>1. SessionTypeOK'
      BY <2>1
      DEF OwnerStarts, At, StartBegins, NextAttempt, CountAttempt, Goto
    <3>2. /\ RequestsTypeOK' /\ TransportTypeOK'
          /\ faults' \in 0 .. MaxFaults /\ struck' \subseteq Callers
      BY <2>1
      DEF OwnerStarts, At, StartBegins, NextAttempt, CountAttempt, Goto
    <3>3. LocalsTypeOK' /\ RetriesLeft'
      BY <2>1
      DEF OwnerStarts, At, StartBegins, NextAttempt, CountAttempt, Goto
    <3> QED
      BY <3>1, <3>2, <3>3
  <2>2. CASE OwnerStops
    <3>1. SessionTypeOK'
      <4>1. StopBegins(Owner, "owner")
        BY <2>2 DEF OwnerStops
      <4>2. UNCHANGED <<connection, recvTask, teardown, pinging, startActive, startExc, lock, restartExc, cooling>>
        BY <2>2 DEF OwnerStops
      <4> QED
        BY <4>1, <4>2, StopBeginsTyped
    <3>2. /\ RequestsTypeOK' /\ TransportTypeOK'
          /\ faults' \in 0 .. MaxFaults /\ struck' \subseteq Callers
      BY <2>2
      DEF OwnerStops, At, StopBegins, Goto
    <3>3. LocalsTypeOK' /\ RetriesLeft'
      BY <2>2
      DEF OwnerStops, At, StopBegins, Goto
    <3> QED
      BY <3>1, <3>2, <3>3
  <2>3. CASE OwnerStopped
    BY <2>3
    DEF OwnerStopped, StopFinishes, PacketsGathered, At, FailPending,
        CloseConnection, Goto
  <2>4. ASSUME NEW t \in Tasks, Start(t) PROVE Typed'
    BY <2>4, StartTyped
  <2>5. ASSUME NEW t \in Tasks, Stop(t) PROVE Typed'
    BY <2>5, StopTyped
  <2>6. ASSUME NEW t \in Restarters, Restart(t) PROVE Typed'
    BY <2>6, RestartTyped
  <2>7. ASSUME NEW c \in Callers, Request(c) PROVE Typed'
    BY <2>7, RequestTyped
  <2>8. ASSUME NEW c \in Callers, Cancel(c) PROVE Typed'
    BY <2>8, CancelTyped
  <2>9. ASSUME NEW t \in Tasks, DeliverAnswer(t) PROVE Typed'
    BY <2>9 DEF DeliverAnswer, Fault
  <2>10. ASSUME NEW w \in Conns, Receive(w) PROVE Typed'
    BY <2>10, ReceiveTyped
  <2>11. ASSUME NEW w \in Conns, Break(w) PROVE Typed'
    BY <2>11 DEF Break, Fault
  <2>12. CASE CooldownPasses
    <3>1. SessionTypeOK'
      <4>1. cooling' \in BOOLEAN
        BY <2>12 DEF CooldownPasses
      <4>2. UNCHANGED <<link, startExc, lock, restartExc,
                         connected, stopping, teardown, startActive, pinging>>
        BY <2>12 DEF CooldownPasses
      <4> QED
        BY <4>1, <4>2
    <3>2. /\ RequestsTypeOK' /\ TransportTypeOK'
          /\ faults' \in 0 .. MaxFaults /\ struck' \subseteq Callers
      BY <2>12
      DEF CooldownPasses
    <3>3. LocalsTypeOK' /\ RetriesLeft'
      BY <2>12
      DEF CooldownPasses
    <3> QED
      BY <3>1, <3>2, <3>3
  <2>13. CASE UNCHANGED vars
    BY <2>13 DEF vars
  <2> QED
    BY <2>1, <2>2, <2>3, <2>4, <2>5, <2>6, <2>7, <2>8, <2>9, <2>10, <2>11,
       <2>12, <2>13 DEF Next
<1> QED
  BY <1>1, <1>2, PTL DEF Spec, Typed

-----------------------------------------------------------------------------
(* The flight: how the lock of restart() and the waits of its tasks go     *)
(* together.                                                               *)

\* The part of the types these proofs need.
FlightTyped ==
    /\ pc \in [Tasks -> Points]
    /\ cont \in [Tasks -> {None, "restart", "owner"} \cup Errors]
    /\ lock \in Restarters \cup {None}
    /\ restartExc \in Errors \cup {None}
    /\ startExc \in Errors \cup {None}
    /\ connected \in BOOLEAN

LEMMA TypedForFlight == TypeOK => FlightTyped
BY DEF TypeOK, SessionTypeOK, LocalsTypeOK, FlightTyped

\* The inductive invariant.  The lock is held by the task that runs restart()
\* and by nobody else, those who wait for its end wait for a holder, stop()
\* never returns the owner into a restart, and _start_active belongs to a
\* start() in progress as long as somebody waits for it.
FlightInv ==
    /\ \A t \in Restarters : InRestart(t) <=> lock = t
    /\ \A t \in Waiting : lock # None
    /\ pc[Owner] \in StopPoints => cont[Owner] # "restart"
    /\ startActive => \E u \in Tasks : InStart(u)
    /\ \A t \in Tasks : pc[t] = "waitStart" => startActive

\* What every step of Session does: it keeps the invariant, and it is a step of
\* SingleFlight or leaves its variables alone.
FlightStep == FlightInv' /\ [Flight!Next]_<<lock, Waiting>>

-----------------------------------------------------------------------------
(* How the end of a start() or restart() moves the waiters on.             *)

LEMMA WokenStart ==
    ASSUME NEW p \in [Tasks -> Points], NEW t \in Tasks
    PROVE  WakeStart(p)[t] = IF p[t] = "waitStart" THEN "waitedStart" ELSE p[t]
BY DEF WakeStart

LEMMA WokenRestart ==
    ASSUME NEW p \in [Tasks -> Points], NEW t \in Tasks
    PROVE  /\ p[t] \notin {"shareWait", "waitRestart"} => WakeRestart(p)[t] = p[t]
           /\ p[t] = "shareWait" => WakeRestart(p)[t] = "shareWoke"
           /\ p[t] = "waitRestart" => WakeRestart(p)[t] = "waitedRestart"
BY DEF WakeRestart

\* Where every task is once task t has ended its start().
LEMMA StartEndsPoints ==
    ASSUME FlightTyped, NEW t \in Tasks, NEW e \in Errors \cup {None},
           StartEnds(t, e), NEW u \in Tasks
    PROVE  /\ u # t =>
                 pc'[u] = CASE pc[u] = "waitStart"                  -> "waitedStart"
                            [] pc[u] = "shareWait" /\ t # Owner     -> "shareWoke"
                            [] pc[u] = "waitRestart" /\ t # Owner   -> "waitedRestart"
                            [] OTHER                                -> pc[u]
           /\ t # Owner => pc'[t] \in AfterPoints
           /\ t = Owner => pc'[t] \in {"up", "gone"}
<1>1. CASE t = Owner
  <2> DEFINE q == [pc EXCEPT ![t] = IF e = None THEN "up" ELSE "gone"]
  <2>1. q \in [Tasks -> Points] /\ pc' = WakeStart(q)
    BY <1>1 DEF StartEnds, FlightTyped, Points
  <2>2. q[t] \in {"up", "gone"} /\ (u # t => q[u] = pc[u])
    BY DEF FlightTyped
  <2> HIDE DEF q
  <2> QED
    BY <1>1, <2>1, <2>2, WokenStart, TasksAreDistinct
<1>2. CASE t # Owner
  <2> DEFINE p == WakeStart(pc)
             q == [p EXCEPT ![t] = AfterRestart(t, e)]
  <2>1. p \in [Tasks -> Points]
    BY WakeTyped DEF FlightTyped
  <2>2. p[u] = IF pc[u] = "waitStart" THEN "waitedStart" ELSE pc[u]
    BY WokenStart DEF FlightTyped
  <2>3. pc' = WakeRestart(q)
    BY <1>2 DEF StartEnds, RestartEnds
  <2> HIDE DEF p
  <2>4. q \in [Tasks -> Points] /\ q[t] \in AfterPoints /\ (u # t => q[u] = p[u])
    BY <2>1, AfterRestartPoint DEF AfterPoints, Points, CallPoints, Returned
  <2> HIDE DEF q
  <2>5. q[t] \notin {"shareWait", "waitRestart"}
    BY <2>4 DEF AfterPoints
  <2>6. pc'[t] \in AfterPoints
    BY <2>3, <2>4, <2>5, WokenRestart
  <2>7. u # t => pc'[u] = CASE q[u] = "shareWait"   -> "shareWoke"
                            [] q[u] = "waitRestart" -> "waitedRestart"
                            [] OTHER                -> q[u]
    BY <2>3, <2>4, WokenRestart
  <2> QED
    BY <1>2, <2>2, <2>4, <2>6, <2>7
<1> QED
  BY <1>1, <1>2

\* Where every task is once task t has ended a restart() that called no start().
LEMMA RestartEndsPoints ==
    ASSUME FlightTyped, NEW t \in Restarters, NEW e \in Errors \cup {None},
           RestartEnds(t, e, pc), NEW u \in Tasks
    PROVE  /\ u # t => pc'[u] = CASE pc[u] = "shareWait"   -> "shareWoke"
                                 [] pc[u] = "waitRestart" -> "waitedRestart"
                                 [] OTHER                 -> pc[u]
           /\ pc'[t] \in AfterPoints
<1> DEFINE q == [pc EXCEPT ![t] = AfterRestart(t, e)]
<1>1. t \in Tasks
  BY DEF Tasks
<1>2. q \in [Tasks -> Points] /\ q[t] \in AfterPoints /\ (u # t => q[u] = pc[u])
  BY <1>1, AfterRestartPoint
  DEF FlightTyped, AfterPoints, Points, CallPoints, Returned
<1>3. pc' = WakeRestart(q)
  BY DEF RestartEnds
<1> HIDE DEF q
<1> QED
  BY <1>1, <1>2, <1>3, WokenRestart DEF AfterPoints

\* A start() that ends keeps the invariant.  Under a restart() it ends the
\* flight: the lock is free and nobody waits any more.
LEMMA StartEndsFlight ==
    ASSUME FlightTyped, FlightInv,
           NEW t \in Tasks, NEW e \in Errors \cup {None}, StartEnds(t, e),
           \/ pc[t] \in StartPoints
           \/ pc[t] \in StopPoints /\ cont[t] # "owner",
           cont' = cont
    PROVE  FlightStep
<1> USE TasksAreDistinct DEF FlightTyped, FlightInv, FlightStep, InRestart,
      InStart, Waiting, Tasks, Restarters, Points, StopPoints, StartPoints,
      CallPoints, Returned, Errors, link, flags, startState, restartState,
      session, requests, transport, callLocals, locals, environment,
      Flight!Next, Flight!Lead, Flight!Join, Flight!Leave, Flight!Finish
<1>1. ASSUME NEW u \in Tasks PROVE pc'[u] # "waitStart"
  BY <1>1, StartEndsPoints DEF AfterPoints
<1>2. CASE t = Owner
  <2>1. lock' = lock /\ startActive' = FALSE
    BY <1>2 DEF StartEnds
  <2>2. ASSUME NEW u \in Restarters
        PROVE  (InRestart(u)' <=> InRestart(u)) /\ (u \in Waiting' <=> u \in Waiting)
    BY <1>2, StartEndsPoints
  <2>3. pc'[Owner] \in {"up", "gone"} /\ Owner \notin Waiting /\ Owner \notin Waiting'
    BY <1>2, StartEndsPoints
  <2>4. Waiting' = Waiting
    BY <2>2, <2>3
  <2> QED
    BY <1>1, <2>1, <2>2, <2>3, <2>4
<1>3. CASE t # Owner
  <2>1. lock' = None /\ startActive' = FALSE
    BY <1>3 DEF StartEnds, RestartEnds
  <2>2. lock = t /\ t # None
    BY <1>3
  <2>3. ASSUME NEW u \in Tasks PROVE u \notin Waiting' /\ ~InRestart(u)'
    BY <1>3, <2>2, StartEndsPoints DEF AfterPoints
  <2>4. pc'[Owner] \in StopPoints => cont'[Owner] # "restart"
    BY <1>3, StartEndsPoints
  <2> QED
    BY <1>1, <2>1, <2>2, <2>3, <2>4
<1> QED
  BY <1>2, <1>3

-----------------------------------------------------------------------------
(* The flight, step by step.                                               *)

\* The two starts that end in one step: a session that is up, a start cancelled
\* while it waits.
LEMMA HelloAnsweredFlight ==
    ASSUME FlightTyped, FlightInv, NEW t \in Tasks, HelloAnswered(t)
    PROVE  FlightStep
<1>1. pc[t] \in StartPoints /\ StartEnds(t, None) /\ cont' = cont
  BY DEF HelloAnswered, At, StartPoints
<1> QED
  BY <1>1, StartEndsFlight

LEMMA CancelStartFlight ==
    ASSUME FlightTyped, FlightInv, NEW c \in Callers, CancelStart(c)
    PROVE  FlightStep
<1>1. pc[c] \in StartPoints /\ StartEnds(c, "cancelled") /\ cont' = cont
  BY DEF CancelStart, At, StartPoints
<1>2. c \in Tasks /\ "cancelled" \in Errors
  BY DEF Tasks, Restarters, Errors
<1> QED
  BY <1>1, <1>2, StartEndsFlight

\* The restart() whose stop() is cancelled ends the flight too.
LEMMA CancelStopFlight ==
    ASSUME FlightTyped, FlightInv, NEW c \in Callers, CancelStop(c)
    PROVE  FlightStep
<1>1. /\ pc[c] = "stopRecv" /\ cont' = cont /\ connected' = connected
      /\ c \in Restarters /\ c \in Tasks /\ "cancelled" \in Errors
  BY DEF CancelStop, PacketsGathered, At, flags, Tasks, Restarters, Errors
<1>2. CASE /\ cont[c] = "restart" /\ UNCHANGED startActive
           /\ RestartEnds(c, "cancelled", pc)
  <2>1. lock = c /\ lock' = None /\ c # None /\ c # Owner /\ Owner \in Tasks
    BY <1>1, <1>2, TasksAreDistinct
    DEF FlightInv, InRestart, StopPoints, RestartEnds, Tasks, Restarters
  <2>2. \A t \in Restarters : t # c => ~InRestart(t)
    BY <2>1 DEF FlightInv
  <2>3. ASSUME NEW u \in Tasks
        PROVE  /\ u \notin Waiting'
               /\ u \in Restarters => ~InRestart(u)'
               /\ pc[u] = "waitStart" <=> pc'[u] = "waitStart"
               /\ InStart(u) <=> InStart(u)'
               /\ u = Owner /\ pc'[u] \in StopPoints => pc[u] = pc'[u]
    BY <1>1, <1>2, <2>2, RestartEndsPoints
    DEF Waiting, InRestart, InStart, AfterPoints, StopPoints, StartPoints, Tasks,
        Restarters, Errors
  <2> QED
    <3>1. FlightInv'
      <4>1. \A u \in Restarters : ~InRestart(u)' /\ u # None
        BY <2>3, TasksAreDistinct DEF Tasks, Restarters
      <4>2. pc'[Owner] \in StopPoints => cont'[Owner] # "restart"
        BY <1>1, <2>1, <2>3 DEF FlightInv
      <4>3. startActive' => \E u \in Tasks : InStart(u)'
        BY <1>2, <2>3 DEF FlightInv
      <4>4. \A u \in Tasks : pc'[u] = "waitStart" => startActive'
        BY <1>2, <2>3 DEF FlightInv
      <4> QED
        BY <2>1, <2>3, <4>1, <4>2, <4>3, <4>4 DEF FlightInv, Waiting
    <3>2. Waiting' = {}
      BY <2>3 DEF Waiting, Tasks
    <3> QED
      BY <2>1, <3>1, <3>2 DEF FlightStep, Flight!Next, Flight!Finish
<1>3. CASE cont[c] \in Errors /\ StartEnds(c, "cancelled")
  BY <1>1, <1>3, StartEndsFlight DEF StopPoints, Errors
<1> QED
  BY <1>2, <1>3 DEF CancelStop, PacketsGathered

\* The steps of start().
LEMMA StartFlight ==
    ASSUME FlightTyped, FlightInv, NEW t \in Tasks, Start(t)
    PROVE  FlightStep
<1> USE TasksAreDistinct DEF FlightTyped, FlightInv, FlightStep, InRestart,
      InStart, Waiting, Tasks, Restarters, Points, StopPoints, StartPoints,
      CallPoints, Returned, Errors, link, flags, startState, restartState,
      session, requests, transport, callLocals, locals, environment,
      Flight!Next, Flight!Lead, Flight!Join, Flight!Leave, Flight!Finish
<1>1. CASE SlotAcquired(t)
  BY <1>1
  DEF SlotAcquired, At, Goto
<1>2. CASE Dialled(t)
  BY <1>2
  DEF Dialled, At, Goto
<1>3. CASE DialFails(t)
  BY <1>3
  DEF DialFails, At, StopBegins, Goto
<1>4. CASE HelloAnswered(t)
  BY <1>4, HelloAnsweredFlight
<1>5. CASE HelloResent(t)
  BY <1>5
  DEF HelloResent
<1>6. CASE HelloFails(t)
  BY <1>6
  DEF HelloFails, At, StopBegins, Goto
<1>7. CASE HelloRejected(t)
  BY <1>7
  DEF HelloRejected, At, StopBegins, Goto
<1>8. CASE StartSleepEnds(t)
  BY <1>8
  DEF StartSleepEnds, At, NextAttempt, Goto
<1> QED
  BY <1>1, <1>2, <1>3, <1>4, <1>5, <1>6, <1>7, <1>8 DEF Start

\* The steps of stop().
LEMMA StopFlight ==
    ASSUME FlightTyped, FlightInv, NEW t \in Tasks, Stop(t)
    PROVE  FlightStep
<1> USE TasksAreDistinct DEF FlightTyped, FlightInv, FlightStep, InRestart,
      InStart, Waiting, Tasks, Restarters, Points, StopPoints, StartPoints,
      CallPoints, Returned, Errors, link, flags, startState, restartState,
      session, requests, transport, callLocals, locals, environment,
      Flight!Next, Flight!Lead, Flight!Join, Flight!Leave, Flight!Finish
<1>1. CASE StopPingDone(t)
  BY <1>1
  DEF StopPingDone, At, Goto
<1>2. CASE StopThenStart(t)
  <2>1. /\ pc[t] = "stopRecv" /\ cont[t] = "restart" /\ cont' = cont
        /\ connected' = connected
    BY <1>2 DEF StopThenStart, StopFinishes, PacketsGathered, At
  <2>2. CASE StartBegins(t) /\ UNCHANGED <<restartState, callLocals>>
    BY <2>1, <2>2 DEF StartBegins, NextAttempt, Goto
  <2>3. CASE /\ RestartEnds(t, None, pc)
             /\ UNCHANGED <<startState, stopping, teardown, attempt>>
    <3> DEFINE q == [pc EXCEPT ![t] = AfterRestart(t, None)]
    <3>1. /\ q \in [Tasks -> Points] /\ q[t] \in AfterPoints
          /\ \A u \in Tasks : u # t => q[u] = pc[u]
      BY <2>1, AfterRestartPoint DEF AfterPoints
    <3>2. pc' = WakeRestart(q) /\ lock' = None
      BY <2>3 DEF RestartEnds
    <3> HIDE DEF q
    <3> QED
      BY <2>1, <2>3, <3>1, <3>2, WokenRestart DEF AfterPoints
  <2> QED
    BY <1>2, <2>2, <2>3 DEF StopThenStart
<1>3. CASE StopThenRetry(t)
  <2> PICK e \in RetriedErrors :
          /\ StopFinishes(t, e)
          /\ \/ StartEnds(t, e)
             \/ Goto(t, "startSleep") /\ UNCHANGED <<startState, restartState>>
    BY <1>3 DEF StopThenRetry
  <2>1. pc[t] = "stopRecv" /\ cont[t] = e /\ e \in Errors /\ cont' = cont
    BY DEF StopFinishes, PacketsGathered, At, RetriedErrors
  <2>2. CASE StartEnds(t, e)
    BY <2>1, <2>2, StartEndsFlight
  <2>3. CASE Goto(t, "startSleep") /\ UNCHANGED <<startState, restartState>>
    BY <2>1, <2>3 DEF Goto
  <2> QED
    BY <2>2, <2>3
<1>4. CASE StopThenRaise(t)
  <2> PICK e \in Errors : StopFinishes(t, e) /\ StartEnds(t, e)
    BY <1>4 DEF StopThenRaise, RaisedErrors
  <2>1. pc[t] = "stopRecv" /\ cont[t] = e /\ cont' = cont
    BY DEF StopFinishes, PacketsGathered, At
  <2> QED
    BY <2>1, StartEndsFlight
<1> QED
  BY <1>1, <1>2, <1>3, <1>4 DEF Stop

\* The steps of restart().
LEMMA RestartFlight ==
    ASSUME FlightTyped, FlightInv, NEW t \in Restarters, Restart(t)
    PROVE  FlightStep
<1> USE TasksAreDistinct DEF FlightTyped, FlightInv, FlightStep, InRestart,
      InStart, Waiting, Tasks, Restarters, Points, StopPoints, StartPoints,
      CallPoints, Returned, Errors, link, flags, startState, restartState,
      session, requests, transport, callLocals, locals, environment,
      Flight!Next, Flight!Lead, Flight!Join, Flight!Leave, Flight!Finish
<1>1. CASE RestartShares(t)
  BY <1>1
  DEF RestartShares, At, Goto, OnlyPc, OnlyCall
<1>2. CASE RestartShared(t)
  BY <1>2, AfterRestartPoint
  DEF RestartShared, At, Goto, OnlyCall, AfterPoints
<1>3. CASE RestartRefused(t)
  BY <1>3, AfterRestartPoint
  DEF RestartRefused, At, Goto, OnlyCall, AfterPoints
<1>4. CASE RestartLeads(t)
  BY <1>4
  DEF RestartLeads, At, StopBegins, Goto
<1> QED
  BY <1>1, <1>2, <1>3, <1>4 DEF Restart

\* The steps of a request.
LEMMA RequestFlight ==
    ASSUME FlightTyped, FlightInv, NEW c \in Callers, Request(c)
    PROVE  FlightStep
<1> USE TasksAreDistinct DEF FlightTyped, FlightInv, FlightStep, InRestart,
      InStart, Waiting, Tasks, Restarters, Points, StopPoints, StartPoints,
      CallPoints, Returned, Errors, link, flags, startState, restartState,
      session, requests, transport, callLocals, locals, environment,
      Flight!Next, Flight!Lead, Flight!Join, Flight!Leave, Flight!Finish
<1>1. CASE Invoke(c)
  BY <1>1
  DEF Invoke, At, Goto, OnlyPc, OnlyCall
<1>2. CASE SendBegins(c)
  BY <1>2
  DEF SendBegins, At, Goto
<1>3. CASE SendRefused(c)
  BY <1>3
  DEF SendRefused, At, Retry, Goto, OnlyCall
<1>4. CASE Sent(c)
  BY <1>4
  DEF Sent, At, Goto, OnlyPc, OnlyCall
<1>5. CASE SendFails(c)
  BY <1>5
  DEF SendFails, At, Retry, Goto
<1>6. CASE Answered(c)
  BY <1>6
  DEF Answered, At, Retry, Goto
<1>7. CASE Resent(c)
  BY <1>7
  DEF Resent, At, Retry, Goto
<1>8. CASE AnswerTimesOut(c)
  BY <1>8
  DEF AnswerTimesOut, At, Goto
<1>9. CASE Retries(c)
  BY <1>9
  DEF Retries, At, Retry, Goto, OnlyCall
<1>10. CASE BackoffEnds(c)
  BY <1>10
  DEF BackoffEnds, At, Goto, OnlyPc, OnlyCall
<1>11. CASE WaitStarted(c)
  BY <1>11
  DEF WaitStarted, At, Goto, OnlyPc, OnlyCall
<1>12. CASE WaitedStart(c)
  BY <1>12
  DEF WaitedStart, At, Goto, OnlyCall
<1>13. CASE CheckUp(c)
  BY <1>13
  DEF CheckUp, At, Goto, OnlyPc, OnlyCall
<1>14. CASE Busy(c)
  BY <1>14
  DEF Busy, At, Retry, Goto, OnlyCall
<1> QED
  BY <1>1, <1>2, <1>3, <1>4, <1>5, <1>6, <1>7, <1>8, <1>9, <1>10, <1>11,
     <1>12, <1>13, <1>14 DEF Request

\* The steps of a receive loop.
LEMMA ReceiveFlight ==
    ASSUME FlightTyped, FlightInv, NEW w \in Conns, Receive(w)
    PROVE  FlightStep
<1> USE TasksAreDistinct DEF FlightTyped, FlightInv, FlightStep, InRestart,
      InStart, Waiting, Tasks, Restarters, Points, StopPoints, StartPoints,
      CallPoints, Returned, Errors, link, flags, startState, restartState,
      session, requests, transport, callLocals, locals, environment,
      Flight!Next, Flight!Lead, Flight!Join, Flight!Leave, Flight!Finish
<1>1. ASSUME NEW t \in Tasks, ReceiveAnswer(w, t) PROVE FlightStep
  BY <1>1 DEF ReceiveAnswer
<1>2. CASE BadPacket(w)
  BY <1>2
  DEF BadPacket, ScheduleRestart, Goto
<1>3. CASE ReceiveFails(w)
  BY <1>3
  DEF ReceiveFails, ScheduleRestart, Goto
<1>4. CASE ReceiveUnknownKey(w)
  BY <1>4
  DEF ReceiveUnknownKey
<1>5. CASE WorkerPingDone(w)
  BY <1>5
  DEF WorkerPingDone
<1>6. CASE WorkerStopped(w)
  BY <1>6
  DEF WorkerStopped
<1> QED
  BY <1>1, <1>2, <1>3, <1>4, <1>5, <1>6 DEF Receive

\* A cancelled request.
LEMMA CancelFlight ==
    ASSUME FlightTyped, FlightInv, NEW c \in Callers, Cancel(c)
    PROVE  FlightStep
<1> USE TasksAreDistinct DEF FlightTyped, FlightInv, FlightStep, InRestart,
      InStart, Waiting, Tasks, Restarters, Points, StopPoints, StartPoints,
      CallPoints, Returned, Errors, link, flags, startState, restartState,
      session, requests, transport, callLocals, locals, environment,
      Flight!Next, Flight!Lead, Flight!Join, Flight!Leave, Flight!Finish
<1>1. CASE CancelRequest(c)
  BY <1>1
  DEF CancelRequest, At, Goto
<1>2. CASE CancelHandshake(c)
  BY <1>2
  DEF CancelHandshake, At, StopBegins, Goto
<1>3. CASE CancelStart(c)
  BY <1>3, CancelStartFlight
<1>4. CASE CancelStop(c)
  BY <1>4, CancelStopFlight
<1> QED
  BY <1>1, <1>2, <1>3, <1>4 DEF Cancel

\* All of them together.
LEMMA NextFlight ==
    ASSUME FlightTyped, FlightInv, [Next]_vars PROVE FlightStep
<1> USE TasksAreDistinct DEF FlightTyped, FlightInv, FlightStep, InRestart,
      InStart, Waiting, Tasks, Restarters, Points, StopPoints, StartPoints,
      CallPoints, Returned, Errors, link, flags, startState, restartState,
      session, requests, transport, callLocals, locals, environment,
      Flight!Next, Flight!Lead, Flight!Join, Flight!Leave, Flight!Finish
<1>1. CASE OwnerStarts
  BY <1>1
  DEF OwnerStarts, At, StartBegins, NextAttempt, Goto
<1>2. CASE OwnerStops
  BY <1>2
  DEF OwnerStops, At, StopBegins, Goto
<1>3. CASE OwnerStopped
  BY <1>3
  DEF OwnerStopped, StopFinishes, PacketsGathered, At, Goto
<1>4. ASSUME NEW t \in Tasks, DeliverAnswer(t) PROVE FlightStep
  BY <1>4 DEF DeliverAnswer
<1>5. ASSUME NEW w \in Conns, Break(w) PROVE FlightStep
  BY <1>5 DEF Break
<1>6. CASE CooldownPasses
  BY <1>6
  DEF CooldownPasses
<1>7. CASE UNCHANGED vars
  BY <1>7 DEF vars
<1> QED
  BY <1>1, <1>2, <1>3, <1>4, <1>5, <1>6, <1>7, StartFlight, StopFlight,
     RestartFlight, RequestFlight, ReceiveFlight, CancelFlight DEF Next

LEMMA InitFlight == Init => FlightInv
BY TasksAreDistinct
DEF Init, FlightInv, InRestart, InStart, Waiting, StartPoints, StopPoints,
    Tasks, Restarters

LEMMA FlightInvariant == Spec => []FlightInv
<1>1. FlightTyped /\ FlightInv /\ [Next]_vars => FlightInv'
  BY NextFlight DEF FlightStep
<1> QED
  BY <1>1, InitFlight, TypeCorrect, TypedForFlight, PTL DEF Spec

-----------------------------------------------------------------------------
(* The theorems about the flight.                                          *)

\* Nobody waits for _start_completed or _restart_done, of start() and
\* restart(), without a task at work that will set it.
THEOREM NobodyIsStranded == Spec => []NoStrandedWaiter
<1>1. FlightTyped /\ FlightInv => NoStrandedWaiter
  BY TasksAreDistinct
  DEF FlightTyped, FlightInv, NoStrandedWaiter, Waiting, InRestart, Tasks,
      Restarters
<1> QED
  BY <1>1, FlightInvariant, TypeCorrect, TypedForFlight, PTL

\* restart() implements the single flight: one task leads, whoever else wants
\* a reconnect waits for it, and its end releases all of them in one step.
THEOREM SharedByAll == Spec => RestartIsShared
<1>1. Init => Flight!Init
  BY DEF Init, Flight!Init, Waiting
<1>2. FlightTyped /\ FlightInv /\ [Next]_vars => [Flight!Next]_<<lock, Waiting>>
  BY NextFlight DEF FlightStep
<1> QED
  BY <1>1, <1>2, FlightInvariant, TypeCorrect, TypedForFlight, PTL
  DEF Spec, RestartIsShared, Flight!Spec

-----------------------------------------------------------------------------
(* Handshakes.  Among the tasks that call restart() its lock keeps them    *)
(* apart; the client's own start() does not take the lock, but while it    *)
(* runs nobody else can have a reason to reconnect, provided that no       *)
(* packet fails its checks during a handshake.                             *)

NoEarlyBadPacket == "earlyBadPacket" \notin Events

\* The client's start() has not begun, or runs.
OwnersStart == pc[Owner] = "idle" \/ InStart(Owner)

\* The inductive invariant: until the client's start() is over the session is
\* not connected, the lock is free, no reconnect is scheduled, and a request
\* can at most wait for that start.
OwnerInv ==
    OwnersStart =>
        /\ ~connected
        /\ lock = None
        /\ pc[Background] = "idle"
        /\ \A c \in Callers : pc[c] \in {"idle", "loop", "waitStart", "cancelled"}
        /\ pc[Owner] = "idle" => \A c \in Callers : pc[c] = "idle"
        /\ InStart(Owner) => startActive

\* The end of a start() is the end of the client's, or comes after it.
LEMMA StartEndsOwner ==
    ASSUME FlightTyped, OwnerInv,
           NEW t \in Tasks, NEW e \in Errors \cup {None}, StartEnds(t, e),
           pc[t] \in StartPoints \cup StopPoints,
           cont' = cont
    PROVE  OwnerInv'
<1>1. ~OwnersStart'
  <2>1. CASE t = Owner
    BY <2>1, StartEndsPoints
    DEF OwnersStart, InStart, StartPoints, StopPoints
  <2>2. CASE t # Owner
    <3>1. ~OwnersStart
      BY <2>2 DEF OwnerInv, Tasks, Restarters, StartPoints, StopPoints
    <3> QED
      BY <2>2, <3>1, StartEndsPoints
      DEF FlightTyped, Points, OwnersStart, InStart, StartPoints, StopPoints,
          Tasks
  <2> QED
    BY <2>1, <2>2
<1> QED
  BY <1>1 DEF OwnerInv

-----------------------------------------------------------------------------
(* Handshakes, step by step.                                               *)

LEMMA HelloAnsweredOwner ==
    ASSUME FlightTyped, OwnerInv, NEW t \in Tasks, HelloAnswered(t)
    PROVE  OwnerInv'
<1>1. /\ pc[t] \in StartPoints \cup StopPoints
      /\ StartEnds(t, None) /\ cont' = cont
  BY DEF HelloAnswered, At, StartPoints
<1> QED
  BY <1>1, StartEndsOwner

LEMMA CancelStartOwner ==
    ASSUME FlightTyped, OwnerInv, NEW c \in Callers, CancelStart(c)
    PROVE  OwnerInv'
<1>1. /\ pc[c] \in StartPoints \cup StopPoints
      /\ StartEnds(c, "cancelled") /\ cont' = cont
  BY DEF CancelStart, At, StartPoints
<1>2. c \in Tasks /\ "cancelled" \in Errors
  BY DEF Tasks, Restarters, Errors
<1> QED
  BY <1>1, <1>2, StartEndsOwner

\* No request is in stop() before the client's start() is over.
LEMMA CancelStopOwner ==
    ASSUME FlightTyped, OwnerInv, NEW c \in Callers, CancelStop(c)
    PROVE  OwnerInv'
<1>1. pc[c] = "stopRecv" /\ cont' = cont
  BY DEF CancelStop, PacketsGathered, At
<1>2. c \in Tasks /\ c \in Restarters /\ c # Owner /\ "cancelled" \in Errors
  BY TasksAreDistinct DEF Tasks, Restarters, Errors
<1>3. CASE RestartEnds(c, "cancelled", pc)
  <2>1. ~OwnersStart
    BY <1>1, <1>2 DEF OwnerInv
  <2>2. pc'[Owner] \in {pc[Owner], "shareWoke", "waitedRestart"}
    BY <1>2, <1>3, RestartEndsPoints DEF Tasks
  <2> QED
    BY <1>1, <2>1, <2>2
    DEF OwnerInv, OwnersStart, InStart, StartPoints, StopPoints
<1>4. CASE StartEnds(c, "cancelled")
  BY <1>1, <1>2, <1>4, StartEndsOwner DEF StopPoints
<1> QED
  BY <1>3, <1>4 DEF CancelStop

\* A restart that finds the session connected returns from the lock only.
LEMMA StopThenOwner ==
    ASSUME FlightTyped, OwnerInv, NEW t \in Tasks,
           StopThenStart(t) \/ StopThenRetry(t) \/ StopThenRaise(t), FlightInv
    PROVE  OwnerInv'
<1>1. pc[t] = "stopRecv" /\ cont' = cont /\ connected' = connected
  BY DEF StopThenStart, StopThenRetry, StopThenRaise, StopFinishes,
         PacketsGathered, At
<1>2. ASSUME NEW e \in Errors \cup {None}, StartEnds(t, e) PROVE OwnerInv'
  BY <1>1, <1>2, StartEndsOwner DEF StopPoints
<1>3. CASE StopThenStart(t)
  <2>1. cont[t] = "restart"
    BY <1>3 DEF StopThenStart, StopFinishes, PacketsGathered
  <2>2. t # Owner /\ t \in Restarters
    BY <1>1, <2>1 DEF FlightInv, StopPoints, Tasks
  <2>3. ~OwnersStart
    BY <1>1, <2>2 DEF OwnerInv, Restarters
  <2>4. pc'[Owner] \in {pc[Owner], "shareWoke", "waitedRestart"}
    <3>1. CASE StartBegins(t)
      BY <2>2, <3>1 DEF StartBegins, NextAttempt, Goto, FlightTyped, Tasks
    <3>2. CASE RestartEnds(t, None, pc)
      <4> DEFINE q == [pc EXCEPT ![t] = AfterRestart(t, None)]
      <4>1. q \in [Tasks -> Points] /\ q[Owner] = pc[Owner] /\ Owner \in Tasks
        BY <2>2, AfterRestartPoint
        DEF AfterPoints, FlightTyped, Points, CallPoints, Returned, Tasks
      <4>2. pc' = WakeRestart(q)
        BY <3>2 DEF RestartEnds
      <4> HIDE DEF q
      <4> QED
        BY <4>1, <4>2, WokenRestart
    <3> QED
      BY <1>3, <3>1, <3>2 DEF StopThenStart
  <2> QED
    BY <1>1, <2>3, <2>4
    DEF OwnerInv, OwnersStart, InStart, StartPoints, StopPoints
<1>4. CASE StopThenRetry(t)
  <2> PICK e \in RetriedErrors :
          /\ StopFinishes(t, e)
          /\ \/ StartEnds(t, e)
             \/ Goto(t, "startSleep") /\ UNCHANGED <<startState, restartState>>
    BY <1>4 DEF StopThenRetry
  <2>1. cont[t] = e /\ e \in Errors
    BY DEF StopFinishes, PacketsGathered, RetriedErrors, Errors
  <2>2. CASE StartEnds(t, e)
    BY <1>2, <2>1, <2>2
  <2>3. CASE Goto(t, "startSleep") /\ UNCHANGED <<startState, restartState>>
    BY <1>1, <2>1, <2>3, TasksAreDistinct
    DEF Goto, FlightTyped, OwnerInv, OwnersStart, InStart, StartPoints,
        StopPoints, Tasks, Restarters, startState, restartState
  <2> QED
    BY <2>2, <2>3
<1>5. CASE StopThenRaise(t)
  BY <1>2, <1>5 DEF StopThenRaise, RaisedErrors, Errors
<1> QED
  BY <1>3, <1>4, <1>5

\* The steps of start().
LEMMA StartOwner ==
    ASSUME FlightTyped, OwnerInv, NoEarlyBadPacket, NEW t \in Tasks, Start(t)
    PROVE  OwnerInv'
<1> USE TasksAreDistinct DEF FlightTyped, OwnerInv, OwnersStart, InStart,
      Tasks, Restarters, Points, StopPoints, StartPoints, CallPoints, Returned,
      Errors, link, flags, startState, restartState, session, requests,
      transport, callLocals, locals, environment
<1>1. CASE SlotAcquired(t)
  BY <1>1
  DEF SlotAcquired, At, Goto
<1>2. CASE Dialled(t)
  BY <1>2
  DEF Dialled, At, Goto
<1>3. CASE DialFails(t)
  BY <1>3
  DEF DialFails, At, StopBegins, Goto
<1>4. CASE HelloAnswered(t)
  BY <1>4, HelloAnsweredOwner
<1>5. CASE HelloResent(t)
  BY <1>5
  DEF HelloResent
<1>6. CASE HelloFails(t)
  BY <1>6
  DEF HelloFails, At, StopBegins, Goto
<1>7. CASE HelloRejected(t)
  BY <1>7
  DEF HelloRejected, At, StopBegins, Goto
<1>8. CASE StartSleepEnds(t)
  BY <1>8
  DEF StartSleepEnds, At, NextAttempt, Goto
<1> QED
  BY <1>1, <1>2, <1>3, <1>4, <1>5, <1>6, <1>7, <1>8 DEF Start

\* The steps of restart().
LEMMA RestartOwner ==
    ASSUME FlightTyped, OwnerInv, NoEarlyBadPacket, NEW t \in Restarters, Restart(t)
    PROVE  OwnerInv'
<1> USE TasksAreDistinct DEF FlightTyped, OwnerInv, OwnersStart, InStart,
      Tasks, Restarters, Points, StopPoints, StartPoints, CallPoints, Returned,
      Errors, link, flags, startState, restartState, session, requests,
      transport, callLocals, locals, environment
<1>1. CASE RestartShares(t)
  BY <1>1
  DEF RestartShares, At, Goto, OnlyPc, OnlyCall
<1>2. CASE RestartShared(t)
  BY <1>2, AfterRestartPoint
  DEF RestartShared, At, Goto, OnlyCall, AfterPoints
<1>3. CASE RestartRefused(t)
  BY <1>3, AfterRestartPoint
  DEF RestartRefused, At, Goto, OnlyCall, AfterPoints
<1>4. CASE RestartLeads(t)
  BY <1>4
  DEF RestartLeads, At, StopBegins, Goto
<1> QED
  BY <1>1, <1>2, <1>3, <1>4 DEF Restart

\* The steps of a request.
LEMMA RequestOwner ==
    ASSUME FlightTyped, OwnerInv, NoEarlyBadPacket, NEW c \in Callers, Request(c)
    PROVE  OwnerInv'
<1> USE TasksAreDistinct DEF FlightTyped, OwnerInv, OwnersStart, InStart,
      Tasks, Restarters, Points, StopPoints, StartPoints, CallPoints, Returned,
      Errors, link, flags, startState, restartState, session, requests,
      transport, callLocals, locals, environment
<1>1. CASE Invoke(c)
  BY <1>1
  DEF Invoke, At, Goto, OnlyPc, OnlyCall
<1>2. CASE SendBegins(c)
  BY <1>2
  DEF SendBegins, At, Goto
<1>3. CASE SendRefused(c)
  BY <1>3
  DEF SendRefused, At, Retry, Goto, OnlyCall
<1>4. CASE Sent(c)
  BY <1>4
  DEF Sent, At, Goto, OnlyPc, OnlyCall
<1>5. CASE SendFails(c)
  BY <1>5
  DEF SendFails, At, Retry, Goto
<1>6. CASE Answered(c)
  BY <1>6
  DEF Answered, At, Retry, Goto
<1>7. CASE Resent(c)
  BY <1>7
  DEF Resent, At, Retry, Goto
<1>8. CASE AnswerTimesOut(c)
  BY <1>8
  DEF AnswerTimesOut, At, Goto
<1>9. CASE Retries(c)
  BY <1>9
  DEF Retries, At, Retry, Goto, OnlyCall
<1>10. CASE BackoffEnds(c)
  BY <1>10
  DEF BackoffEnds, At, Goto, OnlyPc, OnlyCall
<1>11. CASE WaitStarted(c)
  BY <1>11
  DEF WaitStarted, At, Goto, OnlyPc, OnlyCall
<1>12. CASE WaitedStart(c)
  BY <1>12
  DEF WaitedStart, At, Goto, OnlyCall
<1>13. CASE CheckUp(c)
  BY <1>13
  DEF CheckUp, At, Goto, OnlyPc, OnlyCall
<1>14. CASE Busy(c)
  BY <1>14
  DEF Busy, At, Retry, Goto, OnlyCall
<1> QED
  BY <1>1, <1>2, <1>3, <1>4, <1>5, <1>6, <1>7, <1>8, <1>9, <1>10, <1>11,
     <1>12, <1>13, <1>14 DEF Request

\* The steps of a receive loop: a bad packet does not come during a handshake.
LEMMA ReceiveOwner ==
    ASSUME FlightTyped, OwnerInv, NoEarlyBadPacket, NEW w \in Conns, Receive(w)
    PROVE  OwnerInv'
<1> USE TasksAreDistinct DEF FlightTyped, OwnerInv, OwnersStart, InStart,
      Tasks, Restarters, Points, StopPoints, StartPoints, CallPoints, Returned,
      Errors, link, flags, startState, restartState, session, requests,
      transport, callLocals, locals, environment
<1>1. ASSUME NEW t \in Tasks, ReceiveAnswer(w, t) PROVE OwnerInv'
  BY <1>1 DEF ReceiveAnswer
<1>2. CASE BadPacket(w)
  BY <1>2
  DEF BadPacket, NoEarlyBadPacket, ScheduleRestart, Goto
<1>3. CASE ReceiveFails(w)
  BY <1>3
  DEF ReceiveFails, ScheduleRestart, Goto
<1>4. CASE ReceiveUnknownKey(w)
  BY <1>4
  DEF ReceiveUnknownKey
<1>5. CASE WorkerPingDone(w)
  BY <1>5
  DEF WorkerPingDone
<1>6. CASE WorkerStopped(w)
  BY <1>6
  DEF WorkerStopped
<1> QED
  BY <1>1, <1>2, <1>3, <1>4, <1>5, <1>6 DEF Receive

\* A cancelled request.
LEMMA CancelOwner ==
    ASSUME FlightTyped, OwnerInv, NoEarlyBadPacket, NEW c \in Callers, Cancel(c)
    PROVE  OwnerInv'
<1> USE TasksAreDistinct DEF FlightTyped, OwnerInv, OwnersStart, InStart,
      Tasks, Restarters, Points, StopPoints, StartPoints, CallPoints, Returned,
      Errors, link, flags, startState, restartState, session, requests,
      transport, callLocals, locals, environment
<1>1. CASE CancelRequest(c)
  BY <1>1
  DEF CancelRequest, At, Goto
<1>2. CASE CancelHandshake(c)
  BY <1>2
  DEF CancelHandshake, At, StopBegins, Goto
<1>3. CASE CancelStart(c)
  BY <1>3, CancelStartOwner
<1>4. CASE CancelStop(c)
  BY <1>4, CancelStopOwner
<1> QED
  BY <1>1, <1>2, <1>3, <1>4 DEF Cancel

\* All of them together.
LEMMA NextOwner ==
    ASSUME FlightTyped, FlightInv, OwnerInv, NoEarlyBadPacket, [Next]_vars
    PROVE  OwnerInv'
<1> USE TasksAreDistinct DEF FlightTyped, OwnerInv, OwnersStart, InStart,
      Tasks, Restarters, Points, StopPoints, StartPoints, CallPoints, Returned,
      Errors, link, flags, startState, restartState, session, requests,
      transport, callLocals, locals, environment
<1>1. CASE OwnerStarts
  BY <1>1
  DEF OwnerStarts, At, StartBegins, NextAttempt, Goto
<1>2. CASE OwnerStops
  BY <1>2
  DEF OwnerStops, At, StopBegins, Goto
<1>3. CASE OwnerStopped
  BY <1>3
  DEF OwnerStopped, StopFinishes, PacketsGathered, At, Goto
<1>4. ASSUME NEW t \in Tasks, Stop(t) PROVE OwnerInv'
  <2>1. CASE StopPingDone(t)
    BY <2>1 DEF StopPingDone, At, Goto
  <2> QED
    BY <1>4, <2>1, StopThenOwner DEF Stop
<1>5. ASSUME NEW t \in Tasks, DeliverAnswer(t) PROVE OwnerInv'
  BY <1>5 DEF DeliverAnswer
<1>6. ASSUME NEW w \in Conns, Break(w) PROVE OwnerInv'
  BY <1>6 DEF Break
<1>7. CASE CooldownPasses
  BY <1>7
  DEF CooldownPasses
<1>8. CASE UNCHANGED vars
  BY <1>8 DEF vars
<1> QED
  BY <1>1, <1>2, <1>3, <1>4, <1>5, <1>6, <1>7, <1>8, StartOwner, RestartOwner,
     RequestOwner, ReceiveOwner, CancelOwner DEF Next

LEMMA InitOwner == Init => OwnerInv
BY TasksAreDistinct
DEF Init, OwnerInv, OwnersStart, InStart, StartPoints, StopPoints, Tasks,
    Restarters

-----------------------------------------------------------------------------
(* The theorem about handshakes.                                           *)

\* However many requests, reconnects and faults there are, start() and the
\* start() of a restart() never overlap: they would close each other's
\* connection and dial in turns.
THEOREM HandshakesAreExclusive ==
    ASSUME NoEarlyBadPacket
    PROVE  Spec => []OneHandshakeCycle
<1>1. FlightTyped /\ FlightInv /\ OwnerInv /\ [Next]_vars => OwnerInv'
  BY NextOwner
<1>2. FlightTyped /\ FlightInv /\ OwnerInv => OneHandshakeCycle
  BY TasksAreDistinct
  DEF FlightTyped, FlightInv, OwnerInv, OwnersStart, OneHandshakeCycle,
      InStart, InRestart, Tasks, Restarters
<1> QED
  BY <1>1, <1>2, InitOwner, FlightInvariant, TypeCorrect, TypedForFlight, PTL
  DEF Spec

-----------------------------------------------------------------------------
(* Answers: where the answer to a request can be, and that a request keeps *)
(* the one it has.                                                         *)

AnswerTyped ==
    /\ pc \in [Tasks -> Points]
    /\ results \in [Tasks -> Outcomes \cup {None}]
    /\ FlightTyped

\* Where a task has a request in results.
Asking == {"hello", "send", "answer"}

\* The inductive invariant: only a task that waits for an answer has an entry,
\* and while the answer is with the server or in a packet task the entry does not
\* have it; it is pending, or has been failed meanwhile.
AnswerInv ==
    \A t \in Tasks :
        /\ results[t] # None => pc[t] \in Asking
        /\ t \in packets \cup owed => results[t] \in {"pending", "lost", "rpc"}
        /\ t \notin packets \cap owed

AnswerStep ==
    /\ AnswerInv'
    /\ \A c \in Callers :
          pc[c] = "answer" /\ results[c] = "ok" =>
              \/ pc'[c] = "answer" /\ results'[c] = "ok"
              \/ pc'[c] \in {"done", "cancelled"}

\* The end of a start() moves no task that waits for an answer, and makes none.
LEMMA StartEndsAsking ==
    ASSUME FlightTyped, NEW t \in Tasks, NEW e \in Errors \cup {None},
           StartEnds(t, e), NEW u \in Tasks
    PROVE  /\ pc[u] \in Asking /\ u # t => pc'[u] = pc[u]
           /\ pc[u] \notin Asking => pc'[u] \notin Asking
BY StartEndsPoints DEF Asking, AfterPoints, FlightTyped, Points

LEMMA HelloAnsweredAnswer ==
    ASSUME AnswerTyped, AnswerInv, NEW t \in Tasks, HelloAnswered(t)
    PROVE  AnswerStep
<1>1. /\ pc[t] = "hello" /\ StartEnds(t, None)
      /\ results' = [results EXCEPT ![t] = None]
      /\ packets' = packets \ {t} /\ owed' = owed \ {t}
  BY DEF HelloAnswered, At, Forget
<1>2. ASSUME NEW u \in Tasks, u # t
      PROVE  /\ results'[u] = results[u]
             /\ pc[u] \in Asking => pc'[u] = pc[u]
  BY <1>1, <1>2, StartEndsAsking DEF AnswerTyped
<1>3. results'[t] = None
  BY <1>1 DEF AnswerTyped
<1>4. AnswerInv'
  BY <1>1, <1>2, <1>3 DEF AnswerInv
<1>5. ASSUME NEW c \in Callers, pc[c] = "answer", results[c] = "ok"
      PROVE  pc'[c] = "answer" /\ results'[c] = "ok"
  BY <1>1, <1>2, <1>5 DEF Asking, Tasks, Restarters
<1> QED
  BY <1>4, <1>5 DEF AnswerStep

\* What does not concern the requests, and moves none of those that wait.
LEMMA NoAnswer ==
    ASSUME AnswerInv, UNCHANGED requests,
           \A u \in Tasks : pc[u] \in Asking => pc'[u] = pc[u]
    PROVE  AnswerStep
BY DEF AnswerInv, AnswerStep, Asking, requests, Tasks, Restarters

\* A task that has no answer, or has to ask again, sends a request.
LEMMA RegisterAnswer ==
    ASSUME AnswerTyped, AnswerInv, NEW t \in Tasks, NEW c, Register(t, c),
           packets' = packets, results[t] = "salt" \/ pc[t] \notin Asking,
           NEW p \in Asking, pc' = [pc EXCEPT ![t] = p]
    PROVE  AnswerStep
<1>1. results' = [results EXCEPT ![t] = "pending"] /\ owed' = owed \cup {t}
  BY DEF Register
<1>2. t \notin packets
  BY DEF AnswerInv, None
<1>3. ASSUME NEW u \in Tasks, u # t PROVE results'[u] = results[u] /\ pc'[u] = pc[u]
  BY <1>1, <1>3 DEF AnswerTyped
<1>4. results'[t] = "pending" /\ pc'[t] \in Asking
  BY <1>1 DEF AnswerTyped
<1>5. AnswerInv'
  BY <1>1, <1>2, <1>3, <1>4 DEF AnswerInv
<1>6. ASSUME NEW u \in Callers, pc[u] = "answer", results[u] = "ok"
      PROVE  pc'[u] = "answer" /\ results'[u] = "ok"
  BY <1>3, <1>6 DEF Asking, Tasks, Restarters
<1> QED
  BY <1>5, <1>6 DEF AnswerStep

\* What is pending fails.
LEMMA FailsAnswer ==
    ASSUME AnswerTyped, AnswerInv, NEW v \in {"lost", "rpc"},
           results' = FailPending(v), packets' \subseteq packets, owed' = owed,
           \A u \in Tasks : pc[u] \in Asking => pc'[u] = pc[u]
    PROVE  AnswerStep
<1>1. ASSUME NEW u \in Tasks
      PROVE  results'[u] = IF results[u] = "pending" THEN v ELSE results[u]
  BY DEF FailPending
<1>2. AnswerInv'
  BY <1>1 DEF AnswerInv, None
<1>3. ASSUME NEW c \in Callers, pc[c] = "answer", results[c] = "ok"
      PROVE  pc'[c] = "answer" /\ results'[c] = "ok"
  BY <1>1, <1>3 DEF Asking, Tasks, Restarters
<1> QED
  BY <1>2, <1>3 DEF AnswerStep

LEMMA CancelStartAnswer ==
    ASSUME AnswerTyped, AnswerInv, NEW c \in Callers, CancelStart(c)
    PROVE  AnswerStep
<1>1. /\ pc[c] \notin Asking /\ c \in Tasks /\ "cancelled" \in Errors
      /\ StartEnds(c, "cancelled") /\ UNCHANGED requests
  BY DEF CancelStart, At, Asking, Tasks, Restarters, Errors
<1>2. \A u \in Tasks : pc[u] \in Asking => pc'[u] = pc[u]
  BY <1>1, StartEndsAsking DEF AnswerTyped
<1> QED
  BY <1>1, <1>2, NoAnswer

\* A stop() that is cancelled drops the packet tasks, and fails nothing.
LEMMA CancelStopAnswer ==
    ASSUME AnswerTyped, AnswerInv, NEW c \in Callers, CancelStop(c)
    PROVE  AnswerStep
<1>1. /\ pc[c] = "stopRecv" /\ packets' = {} /\ UNCHANGED <<results, owed>>
      /\ c \in Tasks /\ c \in Restarters /\ "cancelled" \in Errors
  BY DEF CancelStop, PacketsGathered, At, Tasks, Restarters, Errors
<1>2. \/ RestartEnds(c, "cancelled", pc)
      \/ StartEnds(c, "cancelled")
  BY DEF CancelStop
<1>3. \A u \in Tasks : pc[u] \in Asking => pc'[u] = pc[u]
  BY <1>1, <1>2, StartEndsAsking, RestartEndsPoints DEF AnswerTyped, Asking
<1> QED
  BY <1>1, <1>3 DEF AnswerInv, AnswerStep, Asking, Tasks, Restarters

\* The steps of start().
LEMMA StartAnswer ==
    ASSUME AnswerTyped, AnswerInv, NEW t \in Tasks, Start(t)
    PROVE  AnswerStep
<1> USE TasksAreDistinct DEF AnswerTyped, AnswerInv, AnswerStep, Asking, Tasks,
      Restarters, link, flags, startState, restartState, session, requests,
      transport, callLocals, locals, environment
<1>1. CASE SlotAcquired(t)
  BY <1>1
  DEF SlotAcquired, At, Goto
<1>2. CASE Dialled(t)
  BY <1>2, RegisterAnswer
  DEF Dialled, At, Goto
<1>3. CASE DialFails(t)
  BY <1>3
  DEF DialFails, At, StopBegins, Goto
<1>4. CASE HelloAnswered(t)
  BY <1>4, HelloAnsweredAnswer
<1>5. CASE HelloResent(t)
  BY <1>5
  DEF HelloResent, At, Register
<1>6. CASE HelloFails(t)
  BY <1>6
  DEF HelloFails, At, Forget, StopBegins, Goto
<1>7. CASE HelloRejected(t)
  BY <1>7
  DEF HelloRejected, At, Forget, StopBegins, Goto
<1>8. CASE StartSleepEnds(t)
  BY <1>8
  DEF StartSleepEnds, At, NextAttempt, Goto
<1> QED
  BY <1>1, <1>2, <1>3, <1>4, <1>5, <1>6, <1>7, <1>8 DEF Start

\* The steps of stop(): what is pending fails, the packet tasks are gone.
LEMMA StopFinishesAnswer ==
    ASSUME AnswerTyped, AnswerInv, NEW t \in Tasks, NEW ret, StopFinishes(t, ret),
           \A u \in Tasks : pc[u] \in Asking => pc'[u] = pc[u]
    PROVE  AnswerStep
BY FailsAnswer DEF StopFinishes, PacketsGathered

LEMMA StopAnswer ==
    ASSUME AnswerTyped, AnswerInv, NEW t \in Tasks, Stop(t)
    PROVE  AnswerStep
<1>1. CASE StopPingDone(t)
  <2>1. \A u \in Tasks : pc[u] \in Asking => pc'[u] = pc[u]
    BY <1>1 DEF StopPingDone, At, Goto, Asking, AnswerTyped
  <2> QED
    BY <1>1, <2>1, NoAnswer DEF StopPingDone
<1>2. ASSUME NEW ret, StopFinishes(t, ret), NEW e \in Errors \cup {None}, StartEnds(t, e)
      PROVE  AnswerStep
  <2>1. pc[t] \notin Asking
    BY <1>2 DEF StopFinishes, PacketsGathered, At, Asking
  <2>2. \A u \in Tasks : pc[u] \in Asking => pc'[u] = pc[u]
    BY <1>2, <2>1, StartEndsAsking DEF AnswerTyped
  <2> QED
    BY <1>2, <2>2, StopFinishesAnswer
<1>3. ASSUME NEW ret, StopFinishes(t, ret), NEW p, Goto(t, p)
      PROVE  AnswerStep
  <2>1. \A u \in Tasks : pc[u] \in Asking => pc'[u] = pc[u]
    BY <1>3 DEF StopFinishes, PacketsGathered, At, Asking, Goto, AnswerTyped
  <2> QED
    BY <1>3, <2>1, StopFinishesAnswer
<1>4. CASE StopThenStart(t)
  <2>1. StopFinishes(t, "restart")
    BY <1>4 DEF StopThenStart
  <2>2. CASE StartBegins(t)
    BY <1>3, <2>1, <2>2 DEF StartBegins, NextAttempt
  <2>3. CASE RestartEnds(t, None, pc)
    <3> DEFINE q == [pc EXCEPT ![t] = AfterRestart(t, None)]
    <3>1. /\ q \in [Tasks -> Points] /\ \A u \in Tasks : u # t => q[u] = pc[u]
      BY AfterRestartPoint DEF AnswerTyped, AfterPoints, Points, CallPoints, Returned
    <3>2. pc' = WakeRestart(q)
      BY <2>3 DEF RestartEnds
    <3>3. pc[t] \notin Asking
      BY <2>1 DEF StopFinishes, PacketsGathered, At, Asking
    <3> HIDE DEF q
    <3>4. \A u \in Tasks : pc[u] \in Asking => pc'[u] = pc[u]
      BY <3>1, <3>2, <3>3, WokenRestart DEF Asking
    <3> QED
      BY <2>1, <3>4, StopFinishesAnswer
  <2> QED
    BY <1>4, <2>2, <2>3 DEF StopThenStart
<1>5. CASE StopThenRetry(t)
  <2>1. PICK e \in RetriedErrors :
          StopFinishes(t, e) /\ (StartEnds(t, e) \/ Goto(t, "startSleep"))
    BY <1>5 DEF StopThenRetry
  <2>2. e \in Errors
    BY DEF RetriedErrors, Errors
  <2> QED
    BY <1>2, <1>3, <2>1, <2>2
<1>6. CASE StopThenRaise(t)
  BY <1>2, <1>6 DEF StopThenRaise, RaisedErrors, Errors
<1> QED
  BY <1>1, <1>4, <1>5, <1>6 DEF Stop

\* The steps of restart().
LEMMA RestartAnswer ==
    ASSUME AnswerTyped, AnswerInv, NEW t \in Restarters, Restart(t)
    PROVE  AnswerStep
<1> USE TasksAreDistinct DEF AnswerTyped, AnswerInv, AnswerStep, Asking, Tasks,
      Restarters, link, flags, startState, restartState, session, requests,
      transport, callLocals, locals, environment
<1>1. CASE RestartShares(t)
  BY <1>1
  DEF RestartShares, At, Goto, OnlyPc, OnlyCall
<1>2. CASE RestartShared(t)
  BY <1>2, AfterRestartPoint
  DEF RestartShared, At, Goto, OnlyCall, AfterPoints
<1>3. CASE RestartRefused(t)
  BY <1>3, AfterRestartPoint
  DEF RestartRefused, At, Goto, OnlyCall, AfterPoints
<1>4. CASE RestartLeads(t)
  BY <1>4
  DEF RestartLeads, At, StopBegins, Goto
<1> QED
  BY <1>1, <1>2, <1>3, <1>4 DEF Restart

\* The steps of a request.
LEMMA RequestAnswer ==
    ASSUME AnswerTyped, AnswerInv, NEW c \in Callers, Request(c)
    PROVE  AnswerStep
<1> USE TasksAreDistinct DEF AnswerTyped, AnswerInv, AnswerStep, Asking, Tasks,
      Restarters, link, flags, startState, restartState, session, requests,
      transport, callLocals, locals, environment
<1>1. CASE Invoke(c)
  BY <1>1
  DEF Invoke, At, Goto, OnlyPc, OnlyCall
<1>2. CASE SendBegins(c)
  BY <1>2, RegisterAnswer
  DEF SendBegins, At, Goto
<1>3. CASE SendRefused(c)
  BY <1>3
  DEF SendRefused, At, Retry, Goto, OnlyCall
<1>4. CASE Sent(c)
  BY <1>4
  DEF Sent, At, Goto, OnlyPc, OnlyCall
<1>5. CASE SendFails(c)
  BY <1>5
  DEF SendFails, At, Forget, Retry, Goto
<1>6. CASE Answered(c)
  BY <1>6
  DEF Answered, At, Forget, Retry, Goto
<1>7. CASE Resent(c)
  BY <1>7
  DEF Resent, At, Register, Forget, Retry, Goto
<1>8. CASE AnswerTimesOut(c)
  BY <1>8
  DEF AnswerTimesOut, At, Forget, Goto
<1>9. CASE Retries(c)
  BY <1>9
  DEF Retries, At, Retry, Goto, OnlyCall
<1>10. CASE BackoffEnds(c)
  BY <1>10
  DEF BackoffEnds, At, Goto, OnlyPc, OnlyCall
<1>11. CASE WaitStarted(c)
  BY <1>11
  DEF WaitStarted, At, Goto, OnlyPc, OnlyCall
<1>12. CASE WaitedStart(c)
  BY <1>12
  DEF WaitedStart, At, Goto, OnlyCall
<1>13. CASE CheckUp(c)
  BY <1>13
  DEF CheckUp, At, Goto, OnlyPc, OnlyCall
<1>14. CASE Busy(c)
  BY <1>14
  DEF Busy, At, Retry, Goto, OnlyCall
<1> QED
  BY <1>1, <1>2, <1>3, <1>4, <1>5, <1>6, <1>7, <1>8, <1>9, <1>10, <1>11,
     <1>12, <1>13, <1>14 DEF Request

\* The steps of a receive loop.
LEMMA ReceiveAnswers ==
    ASSUME AnswerTyped, AnswerInv, NEW w \in Conns, Receive(w)
    PROVE  AnswerStep
<1> USE TasksAreDistinct DEF AnswerTyped, AnswerInv, AnswerStep, Asking, Tasks,
      Restarters, link, flags, startState, restartState, session, requests,
      transport, callLocals, locals, environment
<1>1. ASSUME NEW t \in Tasks, ReceiveAnswer(w, t) PROVE AnswerStep
  BY <1>1 DEF ReceiveAnswer, NextTurn
<1>2. CASE BadPacket(w)
  BY <1>2
  DEF BadPacket, ScheduleRestart, NextTurn, Goto
<1>3. CASE ReceiveFails(w)
  BY <1>3, FailsAnswer
  DEF ReceiveFails, ScheduleRestart, Goto
<1>4. CASE ReceiveUnknownKey(w)
  BY <1>4, FailsAnswer
  DEF ReceiveUnknownKey
<1>5. CASE WorkerPingDone(w)
  BY <1>5
  DEF WorkerPingDone
<1>6. CASE WorkerStopped(w)
  BY <1>6, FailsAnswer
  DEF WorkerStopped
<1> QED
  BY <1>1, <1>2, <1>3, <1>4, <1>5, <1>6 DEF Receive

\* A cancelled request.
LEMMA CancelAnswer ==
    ASSUME AnswerTyped, AnswerInv, NEW c \in Callers, Cancel(c)
    PROVE  AnswerStep
<1> USE TasksAreDistinct DEF AnswerTyped, AnswerInv, AnswerStep, Asking, Tasks,
      Restarters, link, flags, startState, restartState, session, requests,
      transport, callLocals, locals, environment
<1>1. CASE CancelRequest(c)
  BY <1>1
  DEF CancelRequest, At, Forget, Goto
<1>2. CASE CancelHandshake(c)
  BY <1>2
  DEF CancelHandshake, At, Forget, StopBegins, Goto
<1>3. CASE CancelStart(c)
  BY <1>3, CancelStartAnswer
<1>4. CASE CancelStop(c)
  BY <1>4, CancelStopAnswer
<1> QED
  BY <1>1, <1>2, <1>3, <1>4 DEF Cancel

\* A packet task sets the answer of a request that does not have one.
LEMMA DeliverAnswerAnswer ==
    ASSUME AnswerTyped, AnswerInv, NEW t \in Tasks, DeliverAnswer(t)
    PROVE  AnswerStep
<1>1. /\ t \in packets /\ packets' = packets \ {t} /\ owed' = owed /\ pc' = pc
      /\ \/ results' = results
         \/ \E r \in {"ok", "busy", "rpc", "salt"} : results' = [results EXCEPT ![t] = r]
  BY DEF DeliverAnswer, locals
<1>2. t \notin owed /\ results[t] \notin {None, "ok"}
  BY <1>1 DEF AnswerInv, None
<1>3. ASSUME NEW u \in Tasks, u # t PROVE results'[u] = results[u]
  BY <1>1, <1>3 DEF AnswerTyped
<1>4. AnswerInv'
  BY <1>1, <1>2, <1>3 DEF AnswerInv
<1> QED
  BY <1>1, <1>2, <1>3, <1>4 DEF AnswerStep, Tasks, Restarters

\* All of them together.
LEMMA NextAnswer ==
    ASSUME AnswerTyped, AnswerInv, [Next]_vars PROVE AnswerStep
<1>1. CASE OwnerStarts
  <2>1. \A u \in Tasks : pc[u] \in Asking => pc'[u] = pc[u]
    BY <1>1 DEF OwnerStarts, At, StartBegins, NextAttempt, Goto, Asking, AnswerTyped
  <2> QED
    BY <1>1, <2>1, NoAnswer DEF OwnerStarts
<1>2. CASE OwnerStops
  <2>1. \A u \in Tasks : pc[u] \in Asking => pc'[u] = pc[u]
    BY <1>2 DEF OwnerStops, At, StopBegins, Goto, Asking, AnswerTyped
  <2> QED
    BY <1>2, <2>1, NoAnswer DEF OwnerStops
<1>3. CASE OwnerStopped
  <2>1. \A u \in Tasks : pc[u] \in Asking => pc'[u] = pc[u]
    BY <1>3 DEF OwnerStopped, StopFinishes, PacketsGathered, At, Goto, Asking,
                AnswerTyped
  <2> QED
    BY <1>3, <2>1, StopFinishesAnswer DEF OwnerStopped, Tasks
<1>4. ASSUME NEW w \in Conns, Break(w) PROVE AnswerStep
  BY <1>4, NoAnswer DEF Break, locals
<1>5. CASE CooldownPasses
  BY <1>5, NoAnswer DEF CooldownPasses, locals
<1>6. CASE UNCHANGED vars
  BY <1>6, NoAnswer DEF vars, locals
<1> QED
  BY <1>1, <1>2, <1>3, <1>4, <1>5, <1>6, StartAnswer, StopAnswer, RestartAnswer,
     RequestAnswer, CancelAnswer, DeliverAnswerAnswer, ReceiveAnswers DEF Next

LEMMA InitAnswer == Init => AnswerInv
BY DEF Init, AnswerInv

\* An answer that has reached the request is what _invoke() returns, unless its
\* user cancels it: no failure of the transport turns it into a retry.
THEOREM AnswerIsKeptAlways == Spec => AnswerIsKept
<1>1. TypeOK => AnswerTyped
  BY TypedForFlight DEF TypeOK, LocalsTypeOK, RequestsTypeOK, AnswerTyped
<1>2. AnswerTyped /\ AnswerInv /\ [Next]_vars => AnswerInv'
  BY NextAnswer DEF AnswerStep
<1>3. AnswerTyped /\ AnswerInv /\ [Next]_vars =>
          [\A c \in Callers :
              pc[c] = "answer" /\ results[c] = "ok" =>
                  \/ pc'[c] = "answer" /\ results'[c] = "ok"
                  \/ pc'[c] \in {"done", "cancelled"}]_vars
  BY NextAnswer DEF AnswerStep
<1> QED
  BY <1>1, <1>2, <1>3, InitAnswer, TypeCorrect, PTL DEF Spec, AnswerIsKept

-----------------------------------------------------------------------------
(* Receive loops.  A connection is dialled only when the loop of the last  *)
(* one has ended, so that there is one loop, and one reader.               *)

LoopTyped ==
    /\ pc \in [Tasks -> Points]
    /\ cont \in [Tasks -> {None, "restart", "owner"} \cup Errors]
    /\ worker \in [Conns -> {None, "run", "stopPing", "stopRecv", "ended"}]
    /\ recvTask \in {0} \cup Conns

\* The tasks that dial without a stop() of their own in between.
Redialling ==
    {t \in Tasks : \/ pc[t] \in {"slot", "dial", "startSleep"}
                   \/ pc[t] = "stopRecv" /\ cont[t] \in Errors \cup {"restart"}
                   \/ t = Owner /\ pc[t] = "idle"}
Loops == {w \in Conns : worker[w] = "run"}

\* The inductive invariant: a loop that runs is that of recv_task, which a task
\* cancels before it dials.
LoopInv ==
    /\ \A w \in Loops : w = recvTask
    /\ Redialling # {} => Loops = {}

\* What starts no loop, and brings no task before a dial.
LEMMA NoLoop ==
    ASSUME LoopInv, recvTask' = recvTask, Loops' \subseteq Loops,
           Redialling = {} => Redialling' = {}
    PROVE  LoopInv'
BY DEF LoopInv

\* A start() that ends brings no task before a dial.
LEMMA StartEndsLoop ==
    ASSUME FlightTyped, LoopInv, NEW t \in Tasks, NEW e \in Errors \cup {None},
           StartEnds(t, e), recvTask' = recvTask, worker' = worker, cont' = cont
    PROVE  LoopInv'
<1>1. ASSUME NEW u \in Tasks, u \in Redialling' PROVE u \in Redialling
  BY <1>1, StartEndsPoints
  DEF Redialling, AfterPoints, FlightTyped, Points, StopPoints, StartPoints,
      CallPoints, Returned
<1>2. Redialling' \subseteq Redialling
  BY <1>1 DEF Redialling
<1>3. Loops' = Loops
  BY DEF Loops
<1> QED
  BY <1>2, <1>3, NoLoop

LEMMA HelloAnsweredLoop ==
    ASSUME FlightTyped, LoopInv, NEW t \in Tasks, HelloAnswered(t)
    PROVE  LoopInv'
<1>1. StartEnds(t, None) /\ recvTask' = recvTask /\ worker' = worker /\ cont' = cont
  BY DEF HelloAnswered, link, transport
<1> QED
  BY <1>1, StartEndsLoop

LEMMA CancelStartLoop ==
    ASSUME FlightTyped, LoopInv, NEW c \in Callers, CancelStart(c)
    PROVE  LoopInv'
<1>1. /\ StartEnds(c, "cancelled") /\ recvTask' = recvTask /\ worker' = worker
      /\ cont' = cont
  BY DEF CancelStart, link, transport
<1>2. c \in Tasks /\ "cancelled" \in Errors
  BY DEF Tasks, Restarters, Errors
<1> QED
  BY <1>1, <1>2, StartEndsLoop

LEMMA CancelStopLoop ==
    ASSUME FlightTyped, LoopInv, NEW c \in Callers, CancelStop(c)
    PROVE  LoopInv'
<1>1. /\ recvTask' = recvTask /\ worker' = worker /\ cont' = cont
      /\ c \in Tasks /\ c \in Restarters /\ "cancelled" \in Errors
  BY DEF CancelStop, link, transport, Tasks, Restarters, Errors
<1>2. CASE RestartEnds(c, "cancelled", pc)
  <2>1. ASSUME NEW u \in Tasks, u \in Redialling' PROVE u \in Redialling
    <3>1. u # Owner => u \notin Redialling' \/ u # c
      BY <1>1, <1>2, RestartEndsPoints DEF Redialling, AfterPoints
    <3> QED
      BY <1>1, <1>2, <2>1, <3>1, RestartEndsPoints, TasksAreDistinct
      DEF Redialling, Restarters
  <2>2. Redialling' \subseteq Redialling /\ Loops' = Loops
    BY <1>1, <2>1 DEF Redialling, Loops
  <2> QED
    BY <1>1, <2>2, NoLoop
<1>3. CASE StartEnds(c, "cancelled")
  BY <1>1, <1>3, StartEndsLoop
<1> QED
  BY <1>2, <1>3 DEF CancelStop

\* The one that dials is alone before its dial: the lock of restart() and the
\* client's start() keep the others away.
LEMMA DialsAlone ==
    ASSUME FlightTyped, FlightInv, OwnerInv, OneHandshakeCycle,
           NEW t \in Tasks, pc[t] = "dial", NEW u \in Redialling
    PROVE  u = t
<1>1. InStart(t) /\ u \in Tasks
  BY DEF InStart, StartPoints, Redialling
<1>2. CASE InStart(u)
  BY <1>1, <1>2 DEF OneHandshakeCycle
<1>3. CASE u = Owner /\ pc[u] = "idle"
  <2>1. pc[Background] = "idle" /\ \A c \in Callers : pc[c] = "idle"
    BY <1>3 DEF OwnerInv, OwnersStart
  <2> QED
    BY <1>3, <2>1 DEF Tasks, Restarters
<1>4. CASE pc[u] = "stopRecv" /\ cont[u] = "restart"
  <2>1. u \in Restarters /\ lock = u
    BY <1>1, <1>4 DEF FlightInv, InRestart, StopPoints, Tasks
  <2>2. t # Owner
    <3>1. lock # None
      BY <2>1, TasksAreDistinct DEF Restarters
    <3> QED
      BY <1>1, <3>1 DEF OwnerInv, OwnersStart
  <2>3. lock = t
    BY <1>1, <2>2 DEF FlightInv, InRestart, StartPoints, Tasks
  <2> QED
    BY <2>1, <2>3
<1> QED
  BY <1>2, <1>3, <1>4 DEF Redialling, InStart, StartPoints, StopPoints

LEMMA DialledLoop ==
    ASSUME LoopTyped, LoopInv, FlightTyped, FlightInv, OwnerInv, OneHandshakeCycle,
           NEW t \in Tasks, Dialled(t)
    PROVE  LoopInv'
<1>1. PICK c \in Conns : recvTask' = c /\ worker' = [worker EXCEPT ![c] = "run"]
  BY DEF Dialled
<1>2. pc[t] = "dial" /\ pc' = [pc EXCEPT ![t] = "hello"] /\ cont' = cont
  BY DEF Dialled, At, Goto
<1>3. t \in Redialling
  BY <1>2 DEF Redialling
<1>4. Loops' = {c}
  BY <1>1, <1>3 DEF LoopInv, Loops, LoopTyped
<1>5. Redialling' = {}
  <2> SUFFICES ASSUME NEW u \in Tasks, u \in Redialling' PROVE FALSE
    BY DEF Redialling
  <2>1. CASE u = t
    BY <1>2, <2>1 DEF Redialling, LoopTyped
  <2>2. CASE u # t
    <3>1. u \in Redialling
      BY <1>2, <2>2 DEF Redialling, LoopTyped
    <3> QED
      BY <1>2, <2>2, <3>1, DialsAlone
  <2> QED
    BY <2>1, <2>2
<1> QED
  BY <1>1, <1>4, <1>5 DEF LoopInv

\* The steps of start().
LEMMA StartLoop ==
    ASSUME LoopTyped, LoopInv, FlightTyped, FlightInv, OwnerInv, OneHandshakeCycle,
           NEW t \in Tasks, Start(t)
    PROVE  LoopInv'
<1> USE TasksAreDistinct DEF LoopTyped, LoopInv, Redialling, Loops, Tasks,
      Restarters, Points, StopPoints, StartPoints, CallPoints, Returned, Errors,
      link, flags, startState, restartState, session, requests, transport,
      callLocals, locals, environment
<1>1. CASE SlotAcquired(t)
  BY <1>1
  DEF SlotAcquired, At, Goto
<1>2. CASE Dialled(t)
  BY <1>2, DialledLoop
<1>3. CASE DialFails(t)
  BY <1>3
  DEF DialFails, At, StopBegins, Goto
<1>4. CASE HelloAnswered(t)
  BY <1>4, HelloAnsweredLoop
<1>5. CASE HelloResent(t)
  BY <1>5
  DEF HelloResent, At, Register
<1>6. CASE HelloFails(t)
  BY <1>6
  DEF HelloFails, At, Forget, StopBegins, Goto
<1>7. CASE HelloRejected(t)
  BY <1>7
  DEF HelloRejected, At, Forget, StopBegins, Goto
<1>8. CASE StartSleepEnds(t)
  BY <1>8
  DEF StartSleepEnds, At, NextAttempt, Goto
<1> QED
  BY <1>1, <1>2, <1>3, <1>4, <1>5, <1>6, <1>7, <1>8 DEF Start

\* The steps of stop(), the first of which cancels recv_task.
LEMMA StopLoop ==
    ASSUME LoopTyped, LoopInv, FlightTyped, NEW t \in Tasks, Stop(t)
    PROVE  LoopInv'
<1>1. CASE StopPingDone(t)
  <2>1. recvTask' = recvTask /\ CancelRecvTask
    BY <1>1 DEF StopPingDone, link
  <2>2. Loops' = {}
    <3>1. CASE /\ recvTask # 0
               /\ worker' = [worker EXCEPT ![recvTask] = "ended"]
      BY <3>1 DEF LoopInv, Loops, LoopTyped
    <3>2. CASE worker' = worker /\ (recvTask # 0 => worker[recvTask] # "run")
      BY <3>2, ParametersOK DEF LoopInv, Loops, Conns
    <3> QED
      BY <2>1, <3>1, <3>2 DEF CancelRecvTask
  <2> QED
    BY <2>2 DEF LoopInv
<1>2. CASE ~ StopPingDone(t)
  <2>1. PICK ret \in Errors \cup {"restart"} : StopFinishes(t, ret)
    BY <1>2 DEF Stop, StopThenStart, StopThenRetry, StopThenRaise, RetriedErrors,
                RaisedErrors, Errors
  <2>2. /\ t \in Redialling /\ recvTask' = recvTask /\ worker' = worker
    BY <2>1 DEF StopFinishes, PacketsGathered, At, Redialling
  <2>3. Loops' = Loops
    BY <2>2 DEF Loops
  <2> QED
    BY <2>2, <2>3, NoLoop
<1> QED
  BY <1>1, <1>2

\* The steps of restart().
LEMMA RestartLoop ==
    ASSUME LoopTyped, LoopInv, FlightTyped, NEW t \in Restarters, Restart(t)
    PROVE  LoopInv'
<1> USE TasksAreDistinct DEF LoopTyped, LoopInv, Redialling, Loops, Tasks,
      Restarters, Points, StopPoints, StartPoints, CallPoints, Returned, Errors,
      link, flags, startState, restartState, session, requests, transport,
      callLocals, locals, environment
<1>1. CASE RestartShares(t)
  BY <1>1
  DEF RestartShares, At, Goto, OnlyPc, OnlyCall
<1>2. CASE RestartShared(t)
  BY <1>2, AfterRestartPoint
  DEF RestartShared, At, Goto, OnlyCall, AfterPoints, FlightTyped
<1>3. CASE RestartRefused(t)
  BY <1>3, AfterRestartPoint
  DEF RestartRefused, At, Goto, OnlyCall, AfterPoints, FlightTyped
<1>4. CASE RestartLeads(t)
  BY <1>4
  DEF RestartLeads, At, StopBegins, Goto
<1> QED
  BY <1>1, <1>2, <1>3, <1>4 DEF Restart

\* The steps of a request.
LEMMA RequestLoop ==
    ASSUME LoopTyped, LoopInv, FlightTyped, NEW c \in Callers, Request(c)
    PROVE  LoopInv'
<1> USE TasksAreDistinct DEF LoopTyped, LoopInv, Redialling, Loops, Tasks,
      Restarters, Points, StopPoints, StartPoints, CallPoints, Returned, Errors,
      link, flags, startState, restartState, session, requests, transport,
      callLocals, locals, environment
<1>1. CASE Invoke(c)
  BY <1>1
  DEF Invoke, At, Goto, OnlyPc, OnlyCall
<1>2. CASE SendBegins(c)
  BY <1>2
  DEF SendBegins, At, Goto
<1>3. CASE SendRefused(c)
  BY <1>3
  DEF SendRefused, At, Retry, Goto, OnlyCall
<1>4. CASE Sent(c)
  BY <1>4
  DEF Sent, At, Goto, OnlyPc, OnlyCall
<1>5. CASE SendFails(c)
  BY <1>5
  DEF SendFails, At, Forget, Retry, Goto
<1>6. CASE Answered(c)
  BY <1>6
  DEF Answered, At, Forget, Retry, Goto
<1>7. CASE Resent(c)
  BY <1>7
  DEF Resent, At, Register, Forget, Retry, Goto
<1>8. CASE AnswerTimesOut(c)
  BY <1>8
  DEF AnswerTimesOut, At, Forget, Goto
<1>9. CASE Retries(c)
  BY <1>9
  DEF Retries, At, Retry, Goto, OnlyCall
<1>10. CASE BackoffEnds(c)
  BY <1>10
  DEF BackoffEnds, At, Goto, OnlyPc, OnlyCall
<1>11. CASE WaitStarted(c)
  BY <1>11
  DEF WaitStarted, At, Goto, OnlyPc, OnlyCall
<1>12. CASE WaitedStart(c)
  BY <1>12
  DEF WaitedStart, At, Goto, OnlyCall
<1>13. CASE CheckUp(c)
  BY <1>13
  DEF CheckUp, At, Goto, OnlyPc, OnlyCall, FlightTyped
<1>14. CASE Busy(c)
  BY <1>14
  DEF Busy, At, Retry, Goto, OnlyCall
<1> QED
  BY <1>1, <1>2, <1>3, <1>4, <1>5, <1>6, <1>7, <1>8, <1>9, <1>10, <1>11,
     <1>12, <1>13, <1>14 DEF Request

\* The steps of a receive loop, which ends or goes on.
LEMMA ReceiveLoop ==
    ASSUME LoopTyped, LoopInv, NEW w \in Conns, Receive(w)
    PROVE  LoopInv'
<1> USE TasksAreDistinct DEF LoopTyped, LoopInv, Redialling, Loops, Tasks,
      Restarters, Points, StopPoints, StartPoints, CallPoints, Returned, Errors,
      link, flags, startState, restartState, session, requests, transport,
      callLocals, locals, environment
<1>1. ASSUME NEW t \in Tasks, ReceiveAnswer(w, t) PROVE LoopInv'
  BY <1>1 DEF ReceiveAnswer, NextTurn
<1>2. CASE BadPacket(w)
  BY <1>2
  DEF BadPacket, ScheduleRestart, NextTurn, Goto
<1>3. CASE ReceiveFails(w)
  BY <1>3
  DEF ReceiveFails, ScheduleRestart, FailPending, Goto
<1>4. CASE ReceiveUnknownKey(w)
  BY <1>4
  DEF ReceiveUnknownKey, FailPending
<1>5. CASE WorkerPingDone(w)
  BY <1>5
  DEF WorkerPingDone
<1>6. CASE WorkerStopped(w)
  BY <1>6
  DEF WorkerStopped, FailPending
<1> QED
  BY <1>1, <1>2, <1>3, <1>4, <1>5, <1>6 DEF Receive

\* A cancelled request.
LEMMA CancelLoop ==
    ASSUME LoopTyped, LoopInv, FlightTyped, NEW c \in Callers, Cancel(c)
    PROVE  LoopInv'
<1> USE TasksAreDistinct DEF LoopTyped, LoopInv, Redialling, Loops, Tasks,
      Restarters, Points, StopPoints, StartPoints, CallPoints, Returned, Errors,
      link, flags, startState, restartState, session, requests, transport,
      callLocals, locals, environment
<1>1. CASE CancelRequest(c)
  BY <1>1
  DEF CancelRequest, At, Forget, Goto
<1>2. CASE CancelHandshake(c)
  BY <1>2
  DEF CancelHandshake, At, Forget, StopBegins, Goto
<1>3. CASE CancelStart(c)
  BY <1>3, CancelStartLoop
<1>4. CASE CancelStop(c)
  BY <1>4, CancelStopLoop
<1> QED
  BY <1>1, <1>2, <1>3, <1>4 DEF Cancel

\* All of them together.
LEMMA NextLoop ==
    ASSUME LoopTyped, LoopInv, FlightTyped, FlightInv, OwnerInv, OneHandshakeCycle,
           [Next]_vars
    PROVE  LoopInv'
<1> USE TasksAreDistinct DEF LoopTyped, LoopInv, Redialling, Loops, Tasks,
      Restarters, Points, StopPoints, StartPoints, CallPoints, Returned, Errors,
      link, flags, startState, restartState, session, requests, transport,
      callLocals, locals, environment
<1>1. CASE OwnerStarts
  BY <1>1 DEF OwnerStarts, At, StartBegins, NextAttempt, Goto
<1>2. CASE OwnerStops
  BY <1>2 DEF OwnerStops, At, StopBegins, Goto
<1>3. CASE OwnerStopped
  BY <1>3 DEF OwnerStopped, StopFinishes, PacketsGathered, At, Goto
<1>4. ASSUME NEW t \in Tasks, DeliverAnswer(t) PROVE LoopInv'
  BY <1>4 DEF DeliverAnswer
<1>5. ASSUME NEW w \in Conns, Break(w) PROVE LoopInv'
  BY <1>5 DEF Break
<1>6. CASE CooldownPasses
  BY <1>6 DEF CooldownPasses
<1>7. CASE UNCHANGED vars
  BY <1>7 DEF vars
<1> QED
  BY <1>1, <1>2, <1>3, <1>4, <1>5, <1>6, <1>7, StartLoop, StopLoop, RestartLoop,
     RequestLoop, ReceiveLoop, CancelLoop DEF Next

LEMMA InitLoop == Init => LoopInv
BY DEF Init, LoopInv, Loops, None

\* However often the session reconnects, one receive loop runs at a time; so no
\* two read the same connection.
THEOREM OneReaderAlways ==
    ASSUME NoEarlyBadPacket
    PROVE  Spec => []OneReader
<1>1. TypeOK => LoopTyped
  BY DEF TypeOK, SessionTypeOK, TransportTypeOK, LocalsTypeOK, LoopTyped
<1>2. FlightTyped /\ FlightInv /\ OwnerInv /\ [Next]_vars => OwnerInv'
  BY NextOwner
<1>3. (/\ LoopTyped /\ LoopInv /\ FlightTyped /\ FlightInv /\ OwnerInv
       /\ OneHandshakeCycle /\ [Next]_vars)
      => LoopInv'
  BY NextLoop
<1>4. LoopInv => OneReader
  BY DEF LoopInv, Loops, OneReader
<1> QED
  BY <1>1, <1>2, <1>3, <1>4, InitOwner, InitLoop, HandshakesAreExclusive,
     FlightInvariant, TypeCorrect, TypedForFlight, PTL DEF Spec
=============================================================================
