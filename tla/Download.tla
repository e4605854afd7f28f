------------------------------ MODULE Download ------------------------------
(***************************************************************************)
(* The parallel download of pyrogram/client.py: get_file() with a known    *)
(* size and more than one chunk, and the read-ahead slots that every       *)
(* transfer of the event loop shares (class ReadAhead).                    *)
(*                                                                         *)
(* Chunk 0 comes from the authorized session.  The prefetch asks for the   *)
(* next chunks while it is on its way, and the workers take what is left   *)
(* in order.  An action is the code between two awaits of one task.        *)
(***************************************************************************)
EXTENDS Naturals, Sequences, FiniteSets

CONSTANTS
    Downloads,      \* the calls of get_file() that share the slots
    ToFile,         \* those with a _write_file, that is, of handle_download()
    Closable,       \* those whose consumer may leave early
    Slots,          \* MAX_READ_AHEAD_CHUNKS
    Chunks,         \* the last chunk of every file, counted from 0
    Prefetch,       \* chunks the prefetch asks for
    Workers,        \* the tasks of one download
    OtherSessions,  \* the pool has a second session to fetch from
    MaxFaults       \* bound: failures of the network and the server

ASSUME DownloadParameters ==
    /\ IsFiniteSet(Downloads)
    /\ IsFiniteSet(Workers) /\ Workers # {}
    /\ ToFile \subseteq Downloads
    /\ Closable \subseteq Downloads
    /\ Slots \in Nat \ {0}
    /\ Chunks \in Nat \ {0}
    /\ Prefetch \in 1 .. Chunks
    /\ OtherSessions \in BOOLEAN
    /\ MaxFaults \in Nat

VARIABLES
    free,       \* value of the semaphore read_ahead_slots
    line,       \* its waiters, first come, first served
    phase,      \* where each generator is
    result,     \* how it will end
    pool,       \* state of pool_task
    ahead,      \* state of the fetch_ahead() task of each chunk
    listed,     \* the keys of prefetched
    worker,     \* state of each _worker()
    chunk,      \* the chunk it works on
    next,       \* head of the queue work
    received,   \* chunks that wait for the consumer
    written,    \* chunks in the file
    at,         \* the chunk the consumer gets next
    cut,        \* chunks the server sent too short
    reported,   \* chunks the last progress report counted
    preHeld,    \* _held of prefetch_budget
    bufHeld,    \* _held of buffer_slots
    faults

semaphore == <<free, line>>
budgets == <<preHeld, bufHeld>>
generator == <<phase, result, at, reported>>
prefetching == <<pool, ahead, listed>>
working == <<worker, chunk, next>>
data == <<received, written, cut>>
vars == <<semaphore, budgets, generator, prefetching, working, data, faults>>

None == "none"
Files == 0 .. Chunks
Parts == 1 .. Chunks

FetchStates == {"fetch", "restart"}         \* inside fetch_part()
WorkerEnded == {"done", "failed", "cancelled"}
AheadEnded == {None, "ok", "oserror", "failed", "cancelled"}

TypeOK ==
    /\ free \in 0 .. Slots
    /\ phase \in [Downloads -> {"first", "out0", "run", "out",
                                "stopWorkers", "dropPrefetch", "over"}]
    /\ result \in [Downloads -> {None, "done", "failed", "closed"}]
    /\ pool \in [Downloads -> {"wait", "ready", "failed"}]
    /\ ahead \in [Downloads -> [Parts -> AheadEnded \cup FetchStates \cup {"line"}]]
    /\ listed \in [Downloads -> SUBSET Parts]
    /\ worker \in [Downloads -> [Workers -> WorkerEnded \cup FetchStates
                                    \cup {None, "new", "slot", "ahead", "alt"}]]
    /\ chunk \in [Downloads -> [Workers -> Files]]
    /\ next \in [Downloads -> 1 .. Chunks + 1]
    /\ at \in [Downloads -> 0 .. Chunks + 1]
    /\ received \in [Downloads -> SUBSET Parts]
    /\ written \in [Downloads -> SUBSET Files]
    /\ cut \in [Downloads -> SUBSET Files]
    /\ preHeld \in [Downloads -> 0 .. Slots]
    /\ bufHeld \in [Downloads -> 0 .. Slots]

Init ==
    /\ free = Slots
    /\ line = <<>>
    /\ phase = [d \in Downloads |-> "first"]
    /\ result = [d \in Downloads |-> None]
    /\ pool = [d \in Downloads |-> "wait"]
    /\ ahead = [d \in Downloads |-> [k \in Parts |-> None]]
    /\ listed = [d \in Downloads |-> {}]
    /\ worker = [d \in Downloads |-> [w \in Workers |-> None]]
    /\ chunk = [d \in Downloads |-> [w \in Workers |-> 0]]
    /\ next = [d \in Downloads |-> 1]
    /\ received = [d \in Downloads |-> {}]
    /\ written = [d \in Downloads |-> {}]
    /\ at = [d \in Downloads |-> 0]
    /\ cut = [d \in Downloads |-> {}]
    /\ reported = [d \in Downloads |-> 0]
    /\ preHeld = [d \in Downloads |-> 0]
    /\ bufHeld = [d \in Downloads |-> 0]
    /\ faults = 0

-----------------------------------------------------------------------------
(* Helpers *)

Fault ==
    /\ faults < MaxFaults
    /\ faults' = faults + 1

\* An acquire() that need not wait.
Uncontended(n) == n > 0 /\ line = <<>>

\* The generator moves on.
Goto(d, p) == phase' = [phase EXCEPT ![d] = p]
BecomeWorker(d, w, s) == worker' = [worker EXCEPT ![d][w] = s]
BecomeAhead(d, k, s) == ahead' = [ahead EXCEPT ![d][k] = s]

\* What is left of the line when the tasks in gone are cancelled.
Without(gone) ==
    LET left == {i \in DOMAIN line : line[i] \notin gone}
        Place(i) == Cardinality({j \in left : j <= i})
    IN  [n \in 1 .. Cardinality(left) |-> line[CHOOSE i \in left : Place(i) = n]]

\* ReadAhead.release() when nothing is held gives nothing back.
Given(held) == IF held > 0 THEN 1 ELSE 0

\* The top of _worker()'s loop, with n slots free and h of them held by d: the
\* next chunk leaves the queue and prefetched, and a slot is taken or waited for.
TakeChunk(d, w, n, h) ==
    IF next[d] > Chunks
    THEN /\ BecomeWorker(d, w, "done")
         /\ free' = n
         /\ bufHeld' = [bufHeld EXCEPT ![d] = h]
         /\ UNCHANGED <<line, listed, chunk, next>>
    ELSE /\ next' = [next EXCEPT ![d] = @ + 1]
         /\ chunk' = [chunk EXCEPT ![d][w] = next[d]]
         /\ listed' = [listed EXCEPT ![d] = @ \ {next[d]}]
         /\ IF Uncontended(n)
            THEN /\ BecomeWorker(d, w, IF next[d] \in listed[d] THEN "ahead" ELSE "fetch")
                 /\ free' = n - 1
                 /\ bufHeld' = [bufHeld EXCEPT ![d] = h + 1]
                 /\ UNCHANGED line
            ELSE /\ BecomeWorker(d, w, "slot")
                 /\ free' = n
                 /\ bufHeld' = [bufHeld EXCEPT ![d] = h]
                 /\ line' = Append(line, <<d, "worker", w>>)

-----------------------------------------------------------------------------
(* The semaphore *)

\* The first waiter gets the slot.
Grant ==
    /\ free > 0
    /\ line # <<>>
    /\ free' = free - 1
    /\ line' = Tail(line)
    /\ LET d == Head(line)[1]
           i == Head(line)[3]
       IN  IF Head(line)[2] = "ahead"
           THEN /\ BecomeAhead(d, i, "fetch")
                /\ preHeld' = [preHeld EXCEPT ![d] = @ + 1]
                /\ UNCHANGED <<worker, bufHeld>>
           ELSE /\ BecomeWorker(d, i, IF ahead[d][chunk[d][i]] = None
                                      THEN "fetch" ELSE "ahead")
                /\ bufHeld' = [bufHeld EXCEPT ![d] = @ + 1]
                /\ UNCHANGED <<ahead, preHeld>>
    /\ UNCHANGED <<generator, pool, listed, chunk, next, data, faults>>

-----------------------------------------------------------------------------
(* The pool and the prefetch *)

PoolDone(d) ==
    /\ pool[d] = "wait"
    /\ \/ pool' = [pool EXCEPT ![d] = "ready"] /\ UNCHANGED faults
       \/ Fault /\ pool' = [pool EXCEPT ![d] = "failed"]
    /\ UNCHANGED <<semaphore, budgets, generator, ahead, listed, working, data>>

\* Mutant: the tasks are started and not entered into prefetched.
PrefetchForgets(d) ==
    /\ pool[d] = "ready"
    /\ ahead[d][1] = None
    /\ phase[d] \in {"first", "out0"}
    /\ ahead' = [ahead EXCEPT ![d] = [k \in Parts |-> IF k <= Prefetch THEN "line" ELSE None]]
    /\ line' = line \o [i \in 1 .. Prefetch |-> <<d, "ahead", i>>]
    /\ UNCHANGED <<free, listed, generator, pool, budgets, working, data, faults>>

\* prefetch(): a fetch_ahead() for each of the next chunks, which queue for
\* their slots in this order.
PrefetchStarts(d) ==
    /\ pool[d] = "ready"
    /\ ahead[d][1] = None
    /\ phase[d] \in {"first", "out0"}
    /\ LET n == IF line # <<>> THEN 0 ELSE IF free < Prefetch THEN free ELSE Prefetch
       IN  /\ ahead' = [ahead EXCEPT ![d] =
                           [k \in Parts |-> IF k <= n THEN "fetch"
                                            ELSE IF k <= Prefetch THEN "line" ELSE None]]
           /\ free' = free - n
           /\ preHeld' = [preHeld EXCEPT ![d] = n]
           /\ line' = line \o [i \in 1 .. Prefetch - n |-> <<d, "ahead", n + i>>]
    /\ listed' = [listed EXCEPT ![d] = 1 .. Prefetch]
    /\ UNCHANGED <<generator, pool, bufHeld, working, data, faults>>

\* A fetch_ahead() task: its chunk is kept until a worker awaits it.
AheadArrives(d, k) ==
    /\ ahead[d][k] = "fetch"
    /\ BecomeAhead(d, k, "ok")
    /\ \/ UNCHANGED <<cut, faults>>
       \/ Fault /\ cut' = [cut EXCEPT ![d] = @ \cup {k}]
    /\ UNCHANGED <<semaphore, budgets, generator, pool, listed, working,
                   received, written>>

\* fetch_part() meets a broken transport and restarts the session, or raises
\* when its attempts are used up; any other error is raised at once.
AheadFails(d, k) ==
    /\ ahead[d][k] = "fetch"
    /\ Fault
    /\ \E s \in {"restart", "oserror", "failed"} : BecomeAhead(d, k, s)
    /\ UNCHANGED <<semaphore, budgets, generator, pool, listed, working, data>>

AheadRestarted(d, k) ==
    /\ ahead[d][k] = "restart"
    /\ BecomeAhead(d, k, "fetch")
    /\ UNCHANGED <<semaphore, budgets, generator, pool, listed, working, data, faults>>

PrefetchStep(d) ==
    \/ PrefetchStarts(d)
    \/ \E k \in Parts : AheadArrives(d, k) \/ AheadFails(d, k) \/ AheadRestarted(d, k)

-----------------------------------------------------------------------------
(* The workers *)

WorkerStarts(d, w) ==
    /\ worker[d][w] = "new"
    /\ TakeChunk(d, w, free, bufHeld[d])
    /\ UNCHANGED <<generator, pool, ahead, preHeld, data, faults>>

\* Mutant: a chunk kept for the consumer gives its slot back, as a written one.
ChunkArrivesUnpaid(d, w, n, short) ==
    LET k == chunk[d][w]
        m == n + Given(bufHeld[d])
        h == bufHeld[d] - Given(bufHeld[d])
    IN  /\ IF d \in ToFile
           THEN written' = [written EXCEPT ![d] = @ \cup {k}] /\ UNCHANGED received
           ELSE received' = [received EXCEPT ![d] = @ \cup {k}] /\ UNCHANGED written
        /\ IF short
           THEN /\ BecomeWorker(d, w, "done")
                /\ free' = m
                /\ bufHeld' = [bufHeld EXCEPT ![d] = h]
                /\ UNCHANGED <<line, listed, chunk, next>>
           ELSE TakeChunk(d, w, m, h)

\* The chunk is there: it is written, or kept with its slot for the consumer.
\* A short one ends the worker.  n slots are free.
ChunkArrives(d, w, n, short) ==
    LET k == chunk[d][w]
        m == IF d \in ToFile THEN n + Given(bufHeld[d]) ELSE n
        h == IF d \in ToFile THEN bufHeld[d] - Given(bufHeld[d]) ELSE bufHeld[d]
    IN  /\ IF d \in ToFile
           THEN written' = [written EXCEPT ![d] = @ \cup {k}] /\ UNCHANGED received
           ELSE received' = [received EXCEPT ![d] = @ \cup {k}] /\ UNCHANGED written
        /\ IF short
           THEN /\ BecomeWorker(d, w, "done")
                /\ free' = m
                /\ bufHeld' = [bufHeld EXCEPT ![d] = h]
                /\ UNCHANGED <<line, listed, chunk, next>>
           ELSE TakeChunk(d, w, m, h)

\* A worker raises, after it has given its slot back; n slots are free.
WorkerRaises(d, w, n) ==
    /\ BecomeWorker(d, w, "failed")
    /\ free' = n + Given(bufHeld[d])
    /\ bufHeld' = [bufHeld EXCEPT ![d] = @ - Given(@)]
    /\ UNCHANGED <<line, listed, chunk, next, received, written>>

\* The prefetched chunk's task is over: its slot goes back, whatever it held.
TakesAhead(d, w) ==
    LET k == chunk[d][w]
        n == free + Given(preHeld[d])
    IN  /\ worker[d][w] = "ahead"
        /\ ahead[d][k] \in AheadEnded
        /\ preHeld' = [preHeld EXCEPT ![d] = @ - Given(@)]
        /\ CASE ahead[d][k] = "ok" -> ChunkArrives(d, w, n, k \in cut[d])
             [] ahead[d][k] = "oserror" /\ OtherSessions ->
                  /\ BecomeWorker(d, w, "alt")
                  /\ free' = n
                  /\ UNCHANGED <<line, bufHeld, listed, chunk, next, received, written>>
             [] OTHER -> WorkerRaises(d, w, n)
        /\ UNCHANGED <<generator, pool, ahead, cut, faults>>

Fetched(d, w) ==
    /\ worker[d][w] \in {"fetch", "alt"}
    /\ \/ ChunkArrives(d, w, free, FALSE) /\ UNCHANGED <<cut, faults>>
       \/ /\ Fault
          /\ cut' = [cut EXCEPT ![d] = @ \cup {chunk[d][w]}]
          /\ ChunkArrives(d, w, free, TRUE)
    /\ UNCHANGED <<generator, pool, ahead, preHeld>>

FetchFails(d, w) ==
    /\ worker[d][w] = "fetch"
    /\ Fault
    /\ \/ WorkerRaises(d, w, free)
       \/ /\ \E s \in {"restart"} \cup (IF OtherSessions THEN {"alt"} ELSE {}) :
                BecomeWorker(d, w, s)
          /\ UNCHANGED <<semaphore, bufHeld, listed, chunk, next, received, written>>
    /\ UNCHANGED <<generator, pool, ahead, preHeld, cut>>

FetchRestarted(d, w) ==
    /\ worker[d][w] = "restart"
    /\ BecomeWorker(d, w, "fetch")
    /\ UNCHANGED <<semaphore, budgets, generator, prefetching, chunk, next, data, faults>>

\* No other session delivers the chunk either; an error that is not one of the
\* transport leaves the slot to release_all().
AltFails(d, w) ==
    /\ worker[d][w] = "alt"
    /\ \/ WorkerRaises(d, w, free)
       \/ /\ BecomeWorker(d, w, "failed")
          /\ UNCHANGED <<semaphore, bufHeld, listed, chunk, next, received, written>>
    /\ UNCHANGED <<generator, pool, ahead, preHeld, cut, faults>>

Work(d) == \E w \in Workers :
    \/ WorkerStarts(d, w) \/ TakesAhead(d, w) \/ Fetched(d, w)
    \/ FetchFails(d, w) \/ FetchRestarted(d, w) \/ AltFails(d, w)

-----------------------------------------------------------------------------
(* The generator and its consumer *)

OnlyGenerator == UNCHANGED <<semaphore, budgets, prefetching, working, data>>

FirstArrives(d) ==
    /\ phase[d] = "first"
    /\ Goto(d, "out0")
    /\ \/ UNCHANGED <<cut, faults>>
       \/ Fault /\ cut' = [cut EXCEPT ![d] = {0}]
    /\ at' = [at EXCEPT ![d] = 1]
    /\ reported' = [reported EXCEPT ![d] = Cardinality({0} \ cut'[d])]
    /\ written' = [written EXCEPT ![d] = IF d \in ToFile THEN {0} ELSE {}]
    /\ UNCHANGED <<semaphore, budgets, prefetching, working, received, result>>

\* The generator is left before it has workers: drop_prefetch().
LeaveEarly(d, r) ==
    /\ Goto(d, "dropPrefetch")
    /\ result' = [result EXCEPT ![d] = r]
    /\ UNCHANGED <<at, reported>>

FirstFails(d) ==
    /\ phase[d] = "first"
    /\ Fault
    /\ LeaveEarly(d, "failed")
    /\ OnlyGenerator

\* A short first chunk is the whole file.
FirstWasShort(d) ==
    /\ phase[d] = "out0"
    /\ 0 \in cut[d]
    /\ LeaveEarly(d, "done")
    /\ OnlyGenerator /\ UNCHANGED faults

\* The pool is awaited, then the prefetch that needs it; the workers start.
PoolAwaited(d) ==
    /\ phase[d] = "out0"
    /\ 0 \notin cut[d]
    /\ \/ /\ pool[d] = "ready"
          /\ ahead[d][1] # None
          /\ Goto(d, "run")
          /\ worker' = [worker EXCEPT ![d] = [w \in Workers |-> "new"]]
          /\ UNCHANGED <<result, at, reported>>
       \/ /\ pool[d] = "failed"
          /\ LeaveEarly(d, "failed")
          /\ UNCHANGED worker
    /\ UNCHANGED <<semaphore, budgets, prefetching, chunk, next, data, faults>>

\* The finally of the worker loop: the workers and what they wait for are
\* cancelled, except that a restart() inside fetch_part() swallows it.
\* A worker in "alt" does not give its slot back; release_all() will.
Stops(d, r) ==
    LET Waits(w) == worker[d][w] = "ahead"
        Deaf(w) == \/ worker[d][w] = "restart"
                   \/ Waits(w) /\ ahead[d][chunk[d][w]] = "restart"
        Ends(w) == worker[d][w] \notin WorkerEnded /\ ~Deaf(w)
        Killed == {chunk[d][w] : w \in {v \in Workers : Waits(v) /\ Ends(v)
                                       /\ ahead[d][chunk[d][v]] \in {"line", "fetch"}}}
        pre == Cardinality({w \in Workers : Waits(w) /\ Ends(w)})
        preBack == IF pre < preHeld[d] THEN pre ELSE preHeld[d]
        buf == Cardinality({w \in Workers : worker[d][w] \in {"ahead", "fetch"} /\ Ends(w)})
        bufBack == IF buf < bufHeld[d] THEN buf ELSE bufHeld[d]
    IN  /\ Goto(d, "stopWorkers")
        /\ result' = [result EXCEPT ![d] = r]
        /\ worker' = [worker EXCEPT ![d] = [w \in Workers |->
                         IF Ends(w) THEN "cancelled"
                         ELSE IF @[w] = "restart" THEN "fetch" ELSE @[w]]]
        /\ ahead' = [ahead EXCEPT ![d] = [k \in Parts |->
                        IF k \in Killed THEN "cancelled"
                        ELSE IF \E w \in Workers : Waits(w) /\ Deaf(w) /\ chunk[d][w] = k
                        THEN "fetch" ELSE @[k]]]
        /\ line' = Without(({d} \X {"worker"} \X Workers) \cup ({d} \X {"ahead"} \X Killed))
        /\ preHeld' = [preHeld EXCEPT ![d] = @ - preBack]
        /\ bufHeld' = [bufHeld EXCEPT ![d] = @ - bufBack]
        /\ free' = free + preBack + bufBack
        /\ UNCHANGED <<pool, listed, chunk, next, data, faults>>

Raised(d) == \E w \in Workers : worker[d][w] = "failed"
AllEnded(d) == \A w \in Workers : worker[d][w] \in WorkerEnded

\* Mutant: the consumer's chunk keeps its slot.
DeliversKeeping(d) ==
    /\ phase[d] = "run"
    /\ at[d] \in received[d]
    /\ received' = [received EXCEPT ![d] = @ \ {at[d]}]
    /\ Goto(d, "out")
    /\ UNCHANGED <<semaphore, budgets, result, at, reported, prefetching, working,
                   written, cut, faults>>

\* The consumer gets its next chunk, and its slot is free again.
Delivers(d) ==
    /\ phase[d] = "run"
    /\ at[d] \in received[d]
    /\ received' = [received EXCEPT ![d] = @ \ {at[d]}]
    /\ bufHeld' = [bufHeld EXCEPT ![d] = @ - Given(@)]
    /\ free' = free + Given(bufHeld[d])
    /\ Goto(d, "out")
    /\ UNCHANGED <<line, preHeld, result, at, reported, prefetching, working,
                   written, cut, faults>>

\* It comes back for more; the last chunk, or a short one, ends the generator.
Consumed(d) ==
    /\ phase[d] = "out"
    /\ at' = [at EXCEPT ![d] = @ + 1]
    /\ UNCHANGED reported
    /\ IF at[d] \in cut[d] \/ at[d] = Chunks
       THEN Stops(d, "done")
       ELSE /\ Goto(d, "run")
            /\ OnlyGenerator /\ UNCHANGED <<result, faults>>

\* The turns of the loop that waits for data_ready.
LoopEnds(d) ==
    /\ phase[d] = "run"
    /\ IF d \in ToFile
       THEN \/ /\ written[d] = Files
               /\ reported' = [reported EXCEPT ![d] = Cardinality(written[d] \ cut[d])]
               /\ Stops(d, "done")
            \/ /\ written[d] # Files
               /\ UNCHANGED reported
               /\ \/ Raised(d) /\ Stops(d, "failed")
                  \/ ~Raised(d) /\ AllEnded(d) /\ Stops(d, "done")
       ELSE /\ at[d] \notin received[d]
            /\ UNCHANGED reported
            /\ \/ Raised(d) /\ Stops(d, "failed")
               \/ ~Raised(d) /\ AllEnded(d) /\ Stops(d, "done")
    /\ UNCHANGED at

\* The consumer closes the generator, or its task is cancelled.
Close(d) ==
    /\ d \in Closable
    /\ \/ /\ phase[d] \in {"first", "out0"}
          /\ LeaveEarly(d, "closed")
          /\ OnlyGenerator /\ UNCHANGED faults
       \/ /\ phase[d] \in {"run", "out"}
          /\ Stops(d, "closed")
          /\ UNCHANGED <<at, reported>>

\* Mutant: release_all() gives the slots back and forgets to count them off.
WorkersStoppedUncounted(d) ==
    /\ phase[d] = "stopWorkers"
    /\ AllEnded(d)
    /\ free' = free + bufHeld[d]
    /\ Goto(d, "dropPrefetch")
    /\ UNCHANGED <<line, budgets, result, at, reported, prefetching, working,
                   data, faults>>

\* All workers have ended: buffer_slots.release_all().
WorkersStopped(d) ==
    /\ phase[d] = "stopWorkers"
    /\ AllEnded(d)
    /\ free' = free + bufHeld[d]
    /\ bufHeld' = [bufHeld EXCEPT ![d] = 0]
    /\ Goto(d, "dropPrefetch")
    /\ UNCHANGED <<line, preHeld, result, at, reported, prefetching, working,
                   data, faults>>

\* drop_prefetch() cancels the tasks in prefetched.
PrefetchCancelled(d) ==
    /\ phase[d] = "dropPrefetch"
    /\ \E k \in listed[d] : ahead[d][k] \notin AheadEnded
    /\ ahead' = [ahead EXCEPT ![d] = [k \in Parts |->
                    IF k \in listed[d] /\ @[k] \in {"line", "fetch"} THEN "cancelled"
                    ELSE IF k \in listed[d] /\ @[k] = "restart" THEN "fetch" ELSE @[k]]]
    /\ line' = Without({d} \X {"ahead"} \X listed[d])
    /\ UNCHANGED <<free, budgets, generator, pool, listed, working, data, faults>>

\* Mutant: the file is moved into place without the check of its size.
MovesUnchecked(d) == result[d]

\* handle_download() moves the file into place when the last report says that
\* it is complete.
Moves(d) ==
    IF d \in ToFile /\ result[d] = "done" /\ reported[d] # Chunks + 1
    THEN "failed" ELSE result[d]

\* They have ended: prefetch_budget.release_all(), and the generator is over.
PrefetchDropped(d) ==
    /\ phase[d] = "dropPrefetch"
    /\ \A k \in listed[d] : ahead[d][k] \in AheadEnded
    /\ listed' = [listed EXCEPT ![d] = {}]
    /\ free' = free + preHeld[d]
    /\ preHeld' = [preHeld EXCEPT ![d] = 0]
    /\ result' = [result EXCEPT ![d] = Moves(d)]
    /\ Goto(d, "over")
    /\ UNCHANGED <<line, bufHeld, at, reported, pool, ahead, working, data, faults>>

Generate(d) ==
    \/ FirstArrives(d) \/ FirstWasShort(d) \/ PoolAwaited(d) \/ Delivers(d)
    \/ Consumed(d) \/ LoopEnds(d) \/ WorkersStopped(d)
    \/ PrefetchCancelled(d) \/ PrefetchDropped(d)

-----------------------------------------------------------------------------
(* The specification *)

Next ==
    \/ Grant
    \/ \E d \in Downloads :
          PoolDone(d) \/ PrefetchStep(d) \/ Work(d) \/ Generate(d)
          \/ FirstFails(d) \/ Close(d)

Spec == Init /\ [][Next]_vars

\* Every task that can go on does, every request is answered, and a consumer
\* that does not leave comes back for more.  Failures and closing are not due.
Fairness ==
    /\ WF_vars(Grant)
    /\ \A d \in Downloads :
          /\ WF_vars(PoolDone(d))
          /\ WF_vars(PrefetchStarts(d))
          /\ WF_vars(Generate(d))
          /\ \A k \in Parts : WF_vars(AheadArrives(d, k) \/ AheadRestarted(d, k))
          /\ \A w \in Workers :
                WF_vars(\/ WorkerStarts(d, w) \/ TakesAhead(d, w) \/ Fetched(d, w)
                        \/ FetchRestarted(d, w) \/ AltFails(d, w))

FairSpec == Spec /\ Fairness

-----------------------------------------------------------------------------
(* Properties *)

Held(d) == preHeld[d] + bufHeld[d]
Over(d) == phase[d] = "over"

\* As many tokens as n counts for all the downloads together.
Counted(n) == {slot \in Downloads \X (1 .. Slots) : slot[2] <= n[slot[1]]}

\* A slot is free or counted by exactly one ReadAhead, whatever is cancelled
\* between a pop, an acquire and a release (class ReadAhead).
SlotsConserved ==
    /\ TypeOK
    /\ \A d \in Downloads : Held(d) <= Slots
    /\ free + Cardinality(Counted([d \in Downloads |-> Held(d)])) = Slots

\* A chunk in the memory of a download that is still running is paid for by
\* a slot it holds: prefetched chunks nobody has taken, and received ones.
Untaken(d, k) ==
    \/ k \in listed[d]
    \/ \E w \in Workers : worker[d][w] \in {"slot", "ahead"} /\ chunk[d][w] = k
InMemory(d) == {k \in Parts : ahead[d][k] = "ok" /\ Untaken(d, k)} \cup received[d]
MemoryIsPaid ==
    \A d \in Downloads : phase[d] \in {"run", "out"} =>
        Cardinality(InMemory(d)) <= Held(d)

\* The file of handle_download() is moved into place only when every chunk was
\* written and none of them was short; a generator that ends without an error
\* handed out every chunk up to the first short one.
WholeFileOrError ==
    \A d \in Downloads : Over(d) /\ result[d] = "done" =>
        IF d \in ToFile
        THEN written[d] = Files /\ cut[d] = {}
        ELSE \/ at[d] = Chunks + 1
             \/ (at[d] - 1) \in cut[d]

\* A download that ends with all its chunks leaves no slot behind and no task
\* that will take one.  (One that is left early may: see SlotsComeBack.)
FinishedGivesBack ==
    \A d \in Downloads : Over(d) /\ result[d] = "done" /\ cut[d] = {} =>
        /\ Held(d) = 0
        /\ \A k \in Parts : ahead[d][k] \in AheadEnded

\* A download ends, unless every slot is held for good: by prefetched chunks,
\* whose workers wait for a second slot, or by chunks received for a consumer
\* that has left, while a worker whose restart() swallowed its cancellation
\* waits for one more.  Nothing times out there.
HeldForGood(d) == preHeld[d] + (IF phase[d] = "stopWorkers" THEN bufHeld[d] ELSE 0)
Starved == Cardinality(Counted([d \in Downloads |-> HeldForGood(d)])) = Slots
DownloadsEnd == (\A d \in Downloads : <>Over(d)) \/ <>[]Starved

\* "Borrows read-ahead slots [...] and always gives them back": a download that
\* is over holds no slot (class ReadAhead, its docstring).
SlotsComeBack == \A d \in Downloads : Over(d) => Held(d) = 0
=============================================================================
