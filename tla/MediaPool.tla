------------------------------ MODULE MediaPool ------------------------------
(***************************************************************************)
(* The pooled media sessions of a data centre: the tasks that build the    *)
(* pool, the reaper that closes idle sessions, the transfers that use      *)
(* them, and terminate().  kind says which pool it is: the one of          *)
(* Client._get_media_session_pool() or that of get_upload_sessions().      *)
(*                                                                         *)
(* A session is what Session.tla shows of it from outside: its owner stops *)
(* it, and whoever invokes a request on one that is not connected restarts *)
(* it.  An action is the code between two awaits.  A list of sessions is a *)
(* set, in the order of the sessions' numbers.  Left out is a builder that *)
(* is cancelled once more while it waits for the creations it has          *)
(* cancelled: that would cut the stop() of their sessions short.           *)
(***************************************************************************)
EXTENDS Naturals, Sequences, FiniteSets

CONSTANTS
    Builders,    \* calls that build or fill the pool
    Registered,  \* those started by get_file(), which keeps them in _media_pool_tasks
    Transfers,   \* tasks that use a session of the pool
    Size,        \* the sessions every builder asks for
    NSessions,   \* bound: the sessions that can be created
    MaxFaults    \* bound: connections lost, attempts that fail

Reaper == "reaper"
Owner == "terminate"
None == 0

ASSUME MediaPoolParameters ==
    /\ Registered \subseteq Builders
    /\ {Reaper, Owner} \cap Builders = {}
    /\ Size \in Nat \ {0}
    /\ NSessions \in Nat
    /\ MaxFaults \in Nat

VARIABLES
    kind,     \* "media" or "upload"
    life,     \* of each session
    idle,     \* last_used is further back than MEDIA_SESSION_IDLE_TIMEOUT
    pool,     \* media_session_pools[dc_id], or upload_sessions[dc_id]
    line,     \* who holds the pool's lock, then who waits for it
    builder,  \* the place of each builder
    mine,     \* its list pool, or sessions
    left,     \* the sessions it, the reaper or terminate() has yet to look at
    making,   \* the sessions its create() tasks start
    reaper,   \* the place of media_pool_reaper()
    keep,     \* its list keep
    event,    \* media_pool_reaper_event is set
    transfer, \* the place of each transfer
    uses,     \* its session, 0 for none
    term,     \* the place of terminate()
    detached, \* builders whose upload list is no longer the one of the client
    outlived, \* ghost: sessions stopped while a transfer or a restart had them
    faults

building == <<builder, mine, making>>
reaping == <<reaper, keep, event>>
using == <<transfer, uses>>
closing == <<term, detached>>
vars == <<kind, life, idle, pool, line, building, left, reaping, using, closing, outlived, faults>>

Sessions == 1 .. NSessions
Live == {"starting", "up", "restarting"}
Asked == {uses[x] : x \in {y \in Transfers : transfer[y] = "asks"}}
Taken == {uses[x] : x \in Transfers}

\* a has the pool's lock.
Holds(a) == Len(line) > 0 /\ line[1] = a

TypeOK ==
    /\ kind \in {"media", "upload"}
    /\ life \in [Sessions -> Live \cup {"new", "down", "stopped"}]
    /\ idle \in [Sessions -> BOOLEAN]
    /\ pool \subseteq Sessions
    /\ builder \in [Builders -> {"none", "line", "sort", "grow", "ends", "over"}]
    /\ \A b \in Builders :
          /\ mine[b] \cup making[b] \subseteq Sessions
          /\ builder[b] \in {"sort", "grow", "ends"} => Holds(b)
    /\ reaper \in {"off", "wait", "line", "reap"}
    /\ reaper = "reap" => Holds(Reaper)
    /\ transfer \in [Transfers -> {"none", "has", "asks"}]
    /\ uses \in [Transfers -> Sessions \cup {None}]
    /\ term \in {"no", "begun", "reaper", "told", "stop", "over"}
    /\ detached \subseteq Builders

Init ==
    /\ kind \in {"media", "upload"}
    /\ life = [s \in Sessions |-> "new"]
    /\ idle = [s \in Sessions |-> FALSE]
    /\ pool = {} /\ line = <<>>
    /\ builder = [b \in Builders |-> "none"]
    /\ mine = [b \in Builders |-> {}] /\ making = [b \in Builders |-> {}]
    /\ left = [a \in Builders \cup {Reaper, Owner} |-> {}]
    /\ reaper = "off" /\ keep = {} /\ event = FALSE
    /\ transfer = [x \in Transfers |-> "none"] /\ uses = [x \in Transfers |-> None]
    /\ term = "no" /\ detached = {} /\ outlived = {} /\ faults = 0

Fault ==
    /\ faults < MaxFaults
    /\ faults' = faults + 1

\* session.stop(): a restart in progress goes on and connects it again.
Stop(s) ==
    /\ life' = [life EXCEPT ![s] = IF @ = "restarting" THEN @ ELSE "stopped"]
    /\ outlived' = IF s \in Taken \/ life[s] = "restarting"
                   THEN outlived \cup {s} ELSE outlived

\* The line, in order, when those of gone have left it.
Without(gone) ==
    LET stay == {i \in DOMAIN line : line[i] \notin gone}
        Place(i) == Cardinality({j \in stay : j <= i})
    IN  [n \in 1 .. Cardinality(stay) |-> line[CHOOSE i \in stay : Place(i) = n]]

\* Mutant: the event is cleared although the reaper has not seen it yet.
EnsureReaperAnew ==
    /\ reaper' = IF reaper = "off" THEN "wait" ELSE reaper
    /\ event' = FALSE
    /\ UNCHANGED keep

\* ensure_media_reaper()
EnsureReaper ==
    /\ reaper' = IF reaper = "off" THEN "wait" ELSE reaper
    /\ event' = (event /\ reaper # "off")
    /\ UNCHANGED keep

-----------------------------------------------------------------------------
(* The builders *)

\* Called while the client runs, it waits for the lock.
Calls(b) ==
    /\ term = "no"
    /\ builder[b] = "none"
    /\ b \in Registered => kind = "media"
    /\ builder' = [builder EXCEPT ![b] = "line"]
    /\ line' = Append(line, b)
    /\ IF kind = "upload" THEN EnsureReaper ELSE UNCHANGED reaping
    /\ UNCHANGED <<kind, life, idle, pool, mine, making, left, using, closing, outlived, faults>>

Locked(b) ==
    /\ builder[b] = "line"
    /\ Holds(b)
    /\ builder' = [builder EXCEPT ![b] = "sort"]
    /\ left' = [left EXCEPT ![b] = pool]
    /\ UNCHANGED <<kind, life, idle, pool, line, mine, making, reaping, using,
                   closing, outlived, faults>>

Ready(s) == life[s] \in {"up", "restarting"}

\* last_used of the sessions that are kept, by _get_media_session_pool() only.
Touched(ready) == [s \in Sessions |-> idle[s] /\ ~(kind = "media" /\ s \in ready)]

\* The sessions up to the next dead one are kept, that one is stopped.
DropsDead(b) ==
    /\ builder[b] = "sort"
    /\ \E s \in left[b] :
          LET ready == {t \in left[b] : t < s} IN
          /\ ~Ready(s) /\ \A t \in ready : Ready(t)
          /\ mine' = [mine EXCEPT ![b] = @ \cup ready]
          /\ idle' = Touched(ready)
          /\ left' = [left EXCEPT ![b] = @ \ (ready \cup {s})]
          /\ Stop(s)
    /\ UNCHANGED <<kind, pool, line, builder, making, reaping, using, closing, faults>>

\* The builder leaves the lock, and its local variables are gone.
Leaves(b) ==
    /\ builder' = [builder EXCEPT ![b] = "over"]
    /\ line' = Tail(line)

Made(b) == mine[b] \cup making[b]
Referenced ==
    pool \cup keep \cup Taken \cup UNION {Made(b) : b \in Builders}
         \cup UNION {left[a] : a \in DOMAIN left}

\* n numbers for new sessions: those of forgotten ones are used again.
Unused(n) ==
    LET free == {s \in Sessions : life[s] \in {"new", "stopped"} /\ s \notin Referenced}
        least == {s \in free : Cardinality({t \in free : t < s}) < n}
    IN  IF Cardinality(least) = n THEN least ELSE {}

\* Mutant: as many sessions are created as are wanted, not as are missing.
NeededAll(ready) == Size

Needed(ready) == IF Cardinality(ready) < Size THEN Size - Cardinality(ready) ELSE 0

\* All have been looked at, and there are enough.
Sorted(b) ==
    LET ready == mine[b] \cup left[b]
    IN  /\ builder[b] = "sort"
        /\ \A s \in left[b] : Ready(s)
        /\ Needed(ready) = 0
        /\ mine' = [mine EXCEPT ![b] = {}]
        /\ left' = [left EXCEPT ![b] = {}]
        /\ idle' = Touched(left[b])
        /\ pool' = IF b \in detached THEN pool ELSE ready
        /\ Leaves(b)
        /\ IF kind = "media" THEN EnsureReaper ELSE UNCHANGED reaping
        /\ UNCHANGED <<kind, life, making, using, closing, outlived, faults>>

\* create() tasks start for what is missing.
Grows(b) ==
    LET ready == mine[b] \cup left[b]
        news == Unused(Needed(ready))
    IN  /\ builder[b] = "sort"
        /\ \A s \in left[b] : Ready(s)
        /\ news # {}
        /\ builder' = [builder EXCEPT ![b] = "grow"]
        /\ mine' = [mine EXCEPT ![b] = ready]
        /\ left' = [left EXCEPT ![b] = {}]
        /\ idle' = [s \in Sessions |-> Touched(left[b])[s] /\ s \notin news]
        /\ pool' = IF kind = "upload" /\ b \notin detached THEN ready ELSE pool
        /\ making' = [making EXCEPT ![b] = news]
        /\ life' = [s \in Sessions |-> IF s \in news THEN "starting" ELSE life[s]]
        /\ outlived' = outlived \ news
        /\ UNCHANGED <<kind, line, reaping, using, closing, faults>>

\* get_session(), whose auth key the new ones share, fails; so does the model
\* when it has no numbers left.
GrowFails(b) ==
    LET ready == mine[b] \cup left[b]
    IN  /\ builder[b] = "sort"
        /\ \A s \in left[b] : Ready(s)
        /\ Needed(ready) > 0
        /\ IF Unused(Needed(ready)) = {} THEN UNCHANGED faults ELSE Fault
        /\ idle' = Touched(left[b])
        /\ pool' = IF kind = "upload" /\ b \notin detached THEN ready ELSE pool
        /\ mine' = [mine EXCEPT ![b] = {}]
        /\ left' = [left EXCEPT ![b] = {}]
        /\ Leaves(b)
        /\ UNCHANGED <<kind, life, making, reaping, using, closing, outlived>>

\* Mutant: new sessions are published together, when all are ready.
StartedUnpublished(b, s) ==
    /\ builder[b] = "grow"
    /\ s \in making[b]
    /\ life' = [life EXCEPT ![s] = "up"]
    /\ making' = [making EXCEPT ![b] = @ \ {s}]
    /\ mine' = [mine EXCEPT ![b] = @ \cup {s}]
    /\ UNCHANGED <<kind, idle, pool, line, builder, left, reaping, using, closing,
                   outlived, faults>>

\* A create() is done: its session is in the pool at once.
Started(b, s) ==
    /\ builder[b] = "grow"
    /\ s \in making[b]
    /\ life' = [life EXCEPT ![s] = "up"]
    /\ making' = [making EXCEPT ![b] = @ \ {s}]
    /\ mine' = [mine EXCEPT ![b] = @ \cup {s}]
    /\ pool' = CASE kind = "media" -> mine'[b]
                 [] b \in detached -> pool
                 [] OTHER -> pool \cup {s}
    /\ left' = IF kind = "upload" /\ term = "stop" /\ b \notin detached
               THEN [left EXCEPT ![Owner] = @ \cup {s}] ELSE left
    /\ UNCHANGED <<kind, idle, line, builder, reaping, using, closing,
                   outlived, faults>>

\* A start fails: the upload pool cancels the others, the media pool goes on.
StartFails(b, s) ==
    /\ builder[b] = "grow"
    /\ s \in making[b]
    /\ Fault
    /\ life' = [life EXCEPT ![s] = "stopped"]
    /\ making' = [making EXCEPT ![b] = @ \ {s}]
    /\ builder' = IF kind = "upload" THEN [builder EXCEPT ![b] = "ends"] ELSE builder
    /\ UNCHANGED <<kind, idle, pool, line, mine, left, reaping, using, closing, outlived>>

\* All create() tasks are done.  Without any session it raises.
Grown(b) ==
    /\ builder[b] = "grow"
    /\ making[b] = {}
    /\ Leaves(b)
    /\ IF kind = "media" /\ mine[b] # {}
       THEN pool' = mine[b] /\ EnsureReaper
       ELSE UNCHANGED <<pool, reaping>>
    /\ mine' = [mine EXCEPT ![b] = {}]
    /\ UNCHANGED <<kind, life, idle, making, left, using, closing, outlived, faults>>

\* The transfer that wants the sessions is over or cancelled.  A builder that
\* grows cancels its create() tasks and keeps the lock until they are done.
Cancel(b) ==
    /\ \/ /\ builder[b] \in {"line", "sort"}
          /\ builder' = [builder EXCEPT ![b] = "over"]
          /\ mine' = [mine EXCEPT ![b] = {}]
          /\ left' = [left EXCEPT ![b] = {}]
          /\ line' = Without({b})
       \/ /\ builder[b] = "grow"
          /\ builder' = [builder EXCEPT ![b] = "ends"]
          /\ UNCHANGED <<mine, left, line>>
    /\ UNCHANGED <<kind, life, idle, pool, making, reaping, using, closing, outlived, faults>>

\* A create() that was cancelled has stopped its session.
Undone(b, s) ==
    /\ builder[b] = "ends"
    /\ s \in making[b]
    /\ life' = [life EXCEPT ![s] = "stopped"]
    /\ making' = [making EXCEPT ![b] = @ \ {s}]
    /\ UNCHANGED <<kind, idle, pool, line, builder, mine, left, reaping, using,
                   closing, outlived, faults>>

\* So have all of them; what had started before stays in the pool.
Ends(b) ==
    /\ builder[b] = "ends"
    /\ making[b] = {}
    /\ Leaves(b)
    /\ mine' = [mine EXCEPT ![b] = {}]
    /\ UNCHANGED <<kind, life, idle, pool, making, left, reaping, using, closing,
                   outlived, faults>>

Build(b) == Locked(b) \/ DropsDead(b) \/ Sorted(b) \/ Grows(b) \/ Grown(b) \/ Ends(b)

-----------------------------------------------------------------------------
(* The reaper *)

\* The interval has passed.
Wakes ==
    /\ reaper = "wait" /\ ~event
    /\ reaper' = "line"
    /\ line' = Append(line, Reaper)
    /\ UNCHANGED <<kind, life, idle, pool, building, left, keep, event, using,
                   closing, outlived, faults>>

Looks ==
    /\ reaper = "line"
    /\ Holds(Reaper)
    /\ reaper' = "reap"
    /\ left' = [left EXCEPT ![Reaper] = pool]
    /\ keep' = {}
    /\ UNCHANGED <<kind, life, idle, pool, line, building, event, using, closing,
                   outlived, faults>>

Unneeded(s) == idle[s] /\ s \notin Asked

\* The sessions up to the next idle one are kept, that one is stopped.
Reaps ==
    /\ reaper = "reap"
    /\ \E s \in left[Reaper] :
          LET kept == {t \in left[Reaper] : t < s} IN
          /\ Unneeded(s) /\ \A t \in kept : ~Unneeded(t)
          /\ keep' = keep \cup kept
          /\ left' = [left EXCEPT ![Reaper] = @ \ (kept \cup {s})]
          /\ Stop(s)
    /\ UNCHANGED <<kind, idle, pool, line, building, reaper, event, using, closing, faults>>

\* Mutant: the sessions that were stopped stay in the pool.
ReapedStays ==
    /\ reaper = "reap"
    /\ \A s \in left[Reaper] : ~Unneeded(s)
    /\ keep' = {}
    /\ left' = [left EXCEPT ![Reaper] = {}]
    /\ reaper' = "wait"
    /\ line' = Tail(line)
    /\ UNCHANGED <<kind, life, idle, pool, building, event, using, closing, outlived, faults>>

Reaped ==
    /\ reaper = "reap"
    /\ \A s \in left[Reaper] : ~Unneeded(s)
    /\ pool' = keep \cup left[Reaper]
    /\ keep' = {}
    /\ left' = [left EXCEPT ![Reaper] = {}]
    /\ reaper' = "wait"
    /\ line' = Tail(line)
    /\ UNCHANGED <<kind, life, idle, building, event, using, closing, outlived, faults>>

ReaperEnds ==
    /\ reaper = "wait" /\ event
    /\ reaper' = "off"
    /\ term' = IF term = "reaper" THEN "told" ELSE term
    /\ UNCHANGED <<kind, life, idle, pool, line, building, left, keep, event,
                   using, detached, outlived, faults>>

Reap == Wakes \/ Looks \/ Reaps \/ Reaped \/ ReaperEnds

-----------------------------------------------------------------------------
(* The transfers *)

\* A ready session of the pool.
Takes(x, s) ==
    /\ transfer[x] = "none" /\ term = "no"
    /\ s \in pool /\ life[s] = "up"
    /\ transfer' = [transfer EXCEPT ![x] = "has"]
    /\ uses' = [uses EXCEPT ![x] = s]
    /\ UNCHANGED <<kind, life, idle, pool, line, building, left, reaping, closing,
                   outlived, faults>>

\* Session.invoke() sets last_used.  A session that is not connected, a stopped
\* one too, is restarted, and then asked or the error raised.
Invokes(x) ==
    LET s == uses[x]
    IN  /\ transfer[x] = "has"
        /\ life[s] # "restarting"
        /\ idle' = [idle EXCEPT ![s] = FALSE]
        /\ IF life[s] = "up"
           THEN transfer' = [transfer EXCEPT ![x] = "asks"] /\ UNCHANGED life
           ELSE life' = [life EXCEPT ![s] = "restarting"] /\ UNCHANGED transfer
        /\ UNCHANGED <<kind, pool, line, building, left, reaping, uses, closing,
                       outlived, faults>>

\* The answer, or the failure of the connection.
Answered(x) ==
    /\ transfer[x] = "asks"
    /\ transfer' = [transfer EXCEPT ![x] = "has"]
    /\ UNCHANGED <<kind, life, idle, pool, line, building, left, reaping, uses,
                   closing, outlived, faults>>

Finishes(x) ==
    /\ transfer[x] = "has"
    /\ transfer' = [transfer EXCEPT ![x] = "none"]
    /\ uses' = [uses EXCEPT ![x] = None]
    /\ UNCHANGED <<kind, life, idle, pool, line, building, left, reaping, closing,
                   outlived, faults>>

-----------------------------------------------------------------------------
(* The sessions *)

SessionOnly == UNCHANGED <<kind, pool, line, building, left, reaping, using, closing, outlived>>

\* The connection is lost and the session repairs it, or an upload has cleared
\* is_connected.
LinkLost(s) ==
    /\ life[s] = "up"
    /\ Fault
    /\ \/ life' = [life EXCEPT ![s] = "restarting"]
       \/ life' = [life EXCEPT ![s] = "down"]
    /\ UNCHANGED idle /\ SessionOnly

Restarts(s) ==
    /\ life[s] = "restarting"
    /\ life' = [life EXCEPT ![s] = "up"]
    /\ UNCHANGED <<idle, faults>> /\ SessionOnly

RestartFails(s) ==
    /\ life[s] = "restarting"
    /\ Fault
    /\ life' = [life EXCEPT ![s] = "down"]
    /\ UNCHANGED idle /\ SessionOnly

\* Nothing is asked of the session for MEDIA_SESSION_IDLE_TIMEOUT, which is more
\* than terminate() takes.
Idles(s) ==
    /\ term = "no"
    /\ s \in pool /\ s \notin Asked
    /\ ~idle[s]
    /\ idle' = [idle EXCEPT ![s] = TRUE]
    /\ UNCHANGED <<life, faults>> /\ SessionOnly

-----------------------------------------------------------------------------
(* terminate() *)

\* The tasks in _media_pool_tasks are cancelled.
TermBegins ==
    LET gone == {b \in Registered : builder[b] \in {"line", "sort"}}
        Place(b) == IF b \in gone THEN "over"
                    ELSE IF b \in Registered /\ builder[b] = "grow" THEN "ends"
                    ELSE builder[b]
    IN  /\ term = "no"
        /\ term' = "begun"
        /\ builder' = [b \in Builders |-> Place(b)]
        /\ mine' = [b \in Builders |-> IF b \in gone THEN {} ELSE mine[b]]
        /\ left' = [a \in DOMAIN left |-> IF a \in gone THEN {} ELSE left[a]]
        /\ line' = Without(gone)
        /\ UNCHANGED <<kind, life, idle, pool, making, reaping, using, detached,
                       outlived, faults>>

\* They are done.  The reaper, if there is one, is told to end.
TermTells ==
    /\ term = "begun"
    /\ \A b \in Registered : builder[b] # "ends"
    /\ term' = IF reaper = "off" THEN "told" ELSE "reaper"
    /\ event' = (event \/ reaper # "off")
    /\ UNCHANGED <<kind, life, idle, pool, line, building, left, reaper, keep,
                   using, detached, outlived, faults>>

\* It has ended, and the sessions are stopped.
TermGoesOn ==
    /\ term = "told"
    /\ term' = "stop"
    /\ left' = [left EXCEPT ![Owner] = pool]
    /\ UNCHANGED <<kind, life, idle, pool, line, building, reaping, using,
                   detached, outlived, faults>>

\* An upload pool that grows meanwhile grows under the loop.
TermStops ==
    /\ term = "stop"
    /\ \E s \in left[Owner] :
          /\ \A t \in left[Owner] : s <= t
          /\ Stop(s)
          /\ left' = [left EXCEPT ![Owner] = @ \ {s}]
    /\ UNCHANGED <<kind, idle, pool, line, building, reaping, using, closing, faults>>

\* clear(), whatever has been published meanwhile.
TermEnds ==
    /\ term = "stop" /\ left[Owner] = {}
    /\ term' = "over"
    /\ pool' = {}
    /\ event' = FALSE
    /\ detached' = IF kind = "media" THEN {}
                   ELSE {b \in Builders : builder[b] \in {"sort", "grow"}}
    /\ UNCHANGED <<kind, life, idle, line, building, left, reaper, keep, using,
                   outlived, faults>>

Terminates == TermTells \/ TermGoesOn \/ TermStops \/ TermEnds

-----------------------------------------------------------------------------
(* The specification *)

Next ==
    \/ \E b \in Builders :
          \/ Calls(b) \/ Build(b) \/ GrowFails(b) \/ Cancel(b)
          \/ \E s \in Sessions : Started(b, s) \/ StartFails(b, s) \/ Undone(b, s)
    \/ Reap
    \/ \E x \in Transfers :
          \/ Invokes(x) \/ Answered(x) \/ Finishes(x)
          \/ \E s \in Sessions : Takes(x, s)
    \/ \E s \in Sessions : LinkLost(s) \/ Restarts(s) \/ RestartFails(s) \/ Idles(s)
    \/ TermBegins \/ Terminates

Spec == Init /\ [][Next]_vars

\* Tasks that can go on do, timers fire, starts and restarts come to an end,
\* the server answers.
Fairness ==
    /\ \A b \in Builders :
          WF_vars(Build(b) \/ GrowFails(b)
                     \/ \E s \in Sessions : Started(b, s) \/ Undone(b, s))
    /\ WF_vars(Reap)
    /\ WF_vars(\E x \in Transfers : Answered(x))
    /\ WF_vars(\E s \in Sessions : Restarts(s))
    /\ WF_vars(Terminates)

FairSpec == Spec /\ Fairness

-----------------------------------------------------------------------------
(* Properties *)

\* Until terminate() closes the pool, every connection is in the pool or in the
\* hands of the task that builds it, however builders are cancelled, fail, or
\* meet the reaper; but for those that were stopped under a transfer or a
\* restart, which connect again and belong to nobody.
NothingLeaks ==
    term \notin {"stop", "over"} =>
        \A s \in Sessions : life[s] \in Live =>
            s \in pool \cup outlived \cup UNION {Made(b) : b \in Builders}

\* Builders that come one after the other share the connections: there are
\* never more than one of them wants.
ConnectionsBounded ==
    /\ TypeOK
    /\ term \notin {"stop", "over"} =>
           Cardinality({s \in Sessions : life[s] \in Live} \ outlived) <= Size

\* terminate() ends, although it waits for a reaper that may wait for the lock
\* of a builder.
TerminateEnds == term # "no" ~> term = "over"

\* While there is a reaper the pool is cleared of unused sessions again and again.
IdleIsReaped ==
    []<>(reaper = "off" \/ \A s \in pool : ~Unneeded(s))
=============================================================================
