----------------------------- MODULE Dispatcher -----------------------------
(***************************************************************************)
(* pyrogram/dispatcher.py and the conversations of methods/pyromod: the    *)
(* workers that take updates from one queue, the handler groups they go    *)
(* through, the edits of these groups, and the listeners that take a       *)
(* message away from the handlers (handlers/message_handler.py).           *)
(*                                                                         *)
(* Filters may suspend; a listener without a filter is resolved without a  *)
(* suspension.  All updates are messages of one type.                      *)
(***************************************************************************)
EXTENDS Naturals, Sequences, FiniteSets, SequencesExt

CONSTANTS
    NWorkers,       \* Client.workers
    Messages,
    Handlers,
    Groups,         \* the handler groups when the dispatcher starts
    Accepts,        \* the messages the filter of each handler accepts
    Editors,        \* the tasks of add_handler() and remove_handler()
    Edits,          \* what each of them does: add or remove, handler, group
    Listeners,
    Asks,           \* the listeners that the callback of a handler creates
    NextSteps,      \* those of register_next_step_handler(): with a callback
    Unfiltered,     \* those without a filter
    Timed,          \* those with a timeout
    Matches,        \* the messages the identifier of each listener matches
    Allows,         \* the messages the filter of each listener accepts
    Specificity     \* count_populated() of each identifier

ASSUME DispatcherParameters ==
    /\ NWorkers \in Nat \ {0}
    /\ Groups \in Seq(Seq(Handlers))
    /\ Editors \cap (1 .. NWorkers) = {}
    /\ Edits \in [Editors -> {"add", "remove"} \X Handlers \X (1 .. Len(Groups))]
    /\ Accepts \in [Handlers -> SUBSET Messages]
    /\ Asks \in [Handlers -> SUBSET Listeners]
    /\ Matches \in [Listeners -> SUBSET Messages]
    /\ Allows \in [Listeners -> SUBSET Messages]
    /\ Specificity \in [Listeners -> Nat]
    /\ NextSteps \cup Unfiltered \cup Timed \subseteq Listeners
    /\ "none" \notin Messages \cup Listeners

VARIABLES
    queue,      \* updates_queue
    groups,     \* the handlers of each group: an empty group is one that is not there
    lockLine,   \* each lock's holder, then its waiters: locks_list
    editor,     \* the locks each editor has asked for, then one more when done
    point,      \* where each handler_worker() is
    msg,        \* its update
    group,      \* its place in the groups
    place,      \* its place in the group
    captured,   \* the listener whose filter it awaits
    listeners,  \* Client.listeners
    fate,       \* how each listener ended
    answers,    \* the messages each listener was given
    asker,      \* the worker whose callback waits for it in listen()
    arrived,    \* messages put into the queue before stop()
    finished,   \* messages a worker has done with
    stopping    \* stop() of the dispatcher

dispatching == <<point, msg, group, place, captured>>
conversation == <<listeners, fate, answers, asker>>
history == <<arrived, finished>>
vars == <<queue, groups, lockLine, editor, dispatching, conversation, history, stopping>>

None == "none"
Workers == 1 .. NWorkers
Inside == {"check", "resolve", "callback", "listening", "nextStep"}

TypeOK ==
    /\ queue \in Seq(Messages \cup {None})
    /\ groups \in Seq(Seq(Handlers))
    /\ lockLine \in [Workers -> Seq(Workers \cup Editors)]
    /\ editor \in [Editors -> 0 .. NWorkers + 1]
    /\ point \in [Workers -> Inside \cup {"idle", "parse", "lock", "ended"}]
    /\ msg \in [Workers -> Messages \cup {None}]
    /\ captured \in [Workers -> Listeners \cup {None}]
    /\ listeners \in Seq(Listeners)
    /\ fate \in [Listeners -> {"unused", "pending", "done", "timeout", "stopped"}]
    /\ answers \in [Listeners -> SUBSET Messages]
    /\ asker \in [Listeners -> Workers \cup {0}]
    /\ arrived \subseteq Messages /\ finished \subseteq Messages
    /\ stopping \in {"no", "waiting", "stopped"}

Init ==
    /\ queue = <<>>
    /\ groups = Groups
    /\ lockLine = [w \in Workers |-> <<>>]
    /\ editor = [e \in Editors |-> 0]
    /\ point = [w \in Workers |-> "idle"]
    /\ msg = [w \in Workers |-> None]
    /\ group = [w \in Workers |-> 1]
    /\ place = [w \in Workers |-> 1]
    /\ captured = [w \in Workers |-> None]
    /\ listeners = <<>>
    /\ fate = [l \in Listeners |-> "unused"]
    /\ answers = [l \in Listeners |-> {}]
    /\ asker = [l \in Listeners |-> 0]
    /\ arrived = {} /\ finished = {}
    /\ stopping = "no"

-----------------------------------------------------------------------------
(* Helpers *)

Holds(t, w) == lockLine[w] # <<>> /\ Head(lockLine[w]) = t

Without(l) == RemoveFirst(listeners, l)

\* get_listener_matching_with_data(): the most specific one, the first of them.
Matching(m) ==
    LET is == {i \in DOMAIN listeners : m \in Matches[listeners[i]]}
        best == {i \in is : \A j \in is :
                    \/ Specificity[listeners[i]] > Specificity[listeners[j]]
                    \/ Specificity[listeners[i]] = Specificity[listeners[j]] /\ i <= j}
    IN  IF is = {} THEN None ELSE listeners[CHOOSE i \in best : TRUE]

\* The next handler at or after place i of group g, with its listener captured;
\* after the last one the worker gives its lock back.
Visit(w, g, i) ==
    LET later == {h \in DOMAIN groups : h > g /\ groups[h] # <<>>}
        first == CHOOSE h \in later : \A k \in later : h <= k
        Enter(h, j) == /\ point' = [point EXCEPT ![w] = "check"]
                       /\ group' = [group EXCEPT ![w] = h]
                       /\ place' = [place EXCEPT ![w] = j]
                       /\ captured' = [captured EXCEPT ![w] = Matching(msg[w])]
                       /\ UNCHANGED <<msg, lockLine, finished>>
        Leave == /\ point' = [point EXCEPT ![w] = "idle"]
                 /\ captured' = [captured EXCEPT ![w] = None]
                 /\ lockLine' = [lockLine EXCEPT ![w] = Tail(@)]
                 /\ finished' = finished \cup {msg[w]}
                 /\ UNCHANGED <<msg, group, place>>
        here == IF g \in DOMAIN groups THEN i \in DOMAIN groups[g] ELSE FALSE
    IN  IF here THEN Enter(g, i) ELSE IF later # {} THEN Enter(first, 1) ELSE Leave

NextInGroup(w) == Visit(w, group[w], place[w] + 1)
NextGroup(w) == Visit(w, group[w] + 1, 1)

\* StopPropagation ends the message.
NoMore(w) == Visit(w, Len(groups) + 1, 1)

\* The handler whose turn it is.
Current(w) == groups[group[w]][place[w]]

-----------------------------------------------------------------------------
(* The queue and the workers *)

\* The session goes on receiving while the dispatcher stops.
Arrive(m) ==
    /\ m \notin arrived \cup ToSet(queue)
    /\ queue' = Append(queue, m)
    /\ arrived' = IF stopping = "no" THEN arrived \cup {m} ELSE arrived
    /\ UNCHANGED <<groups, lockLine, editor, dispatching, conversation,
                   finished, stopping>>

Take(w) ==
    /\ point[w] = "idle"
    /\ queue # <<>>
    /\ queue' = Tail(queue)
    /\ point' = [point EXCEPT ![w] = IF Head(queue) = None THEN "ended" ELSE "parse"]
    /\ msg' = [msg EXCEPT ![w] = Head(queue)]
    /\ UNCHANGED <<groups, lockLine, editor, group, place, captured,
                   conversation, history, stopping>>

\* The parser's await is over and the worker asks for its lock.
Parsed(w) ==
    /\ point[w] = "parse"
    /\ point' = [point EXCEPT ![w] = "lock"]
    /\ lockLine' = [lockLine EXCEPT ![w] = Append(@, w)]
    /\ UNCHANGED <<queue, groups, editor, msg, group, place, captured,
                   conversation, history, stopping>>

EntersGroups(w) ==
    /\ point[w] = "lock"
    /\ Holds(w, w)
    /\ Visit(w, 1, 1)
    /\ UNCHANGED <<queue, groups, editor, conversation, arrived, stopping>>

-----------------------------------------------------------------------------
(* A handler: check(), resolve_future_or_callback() and the callback *)

CallsBack(w) ==
    /\ point' = [point EXCEPT ![w] = "callback"]
    /\ captured' = [captured EXCEPT ![w] = None]
    /\ UNCHANGED <<msg, group, place, lockLine, finished, conversation>>

\* Mutant: the listener stays in the list until its future is done.
ResolveLate(w, l) ==
    /\ answers' = [answers EXCEPT ![l] = @ \cup {msg[w]}]
    /\ UNCHANGED <<asker, listeners>>
    /\ \/ /\ l \notin NextSteps /\ fate[l] = "pending"
          /\ fate' = [fate EXCEPT ![l] = "done"]
          /\ NoMore(w)
       \/ /\ l \in NextSteps
          /\ point' = [point EXCEPT ![w] = "nextStep"]
          /\ captured' = [captured EXCEPT ![w] = l]
          /\ UNCHANGED <<msg, group, place, lockLine, finished, fate>>

\* The listener matched and goes; its future gets the message, or its callback
\* is called.  A future that is done already raises ValueError, which is logged.
Resolve(w, l) ==
    /\ listeners' = Without(l)
    /\ UNCHANGED asker
    /\ \/ /\ l \notin NextSteps /\ fate[l] = "pending"
          /\ fate' = [fate EXCEPT ![l] = "done"]
          /\ answers' = [answers EXCEPT ![l] = @ \cup {msg[w]}]
          /\ NoMore(w)
       \/ /\ l \in NextSteps
          /\ answers' = [answers EXCEPT ![l] = @ \cup {msg[w]}]
          /\ point' = [point EXCEPT ![w] = "nextStep"]
          /\ captured' = [captured EXCEPT ![w] = l]
          /\ UNCHANGED <<msg, group, place, lockLine, finished, fate>>
       \/ /\ l \notin NextSteps /\ fate[l] # "pending"
          /\ UNCHANGED <<fate, answers>>
          /\ NextGroup(w)

\* The filters of check() have been awaited.  When it returns true the listener
\* is looked up again, and awaited again if it has a filter.
CheckEnds(w) ==
    LET m == msg[w]
        l == captured[w]
        passes == m \in Accepts[Current(w)] \/ (l # None /\ m \in Allows[l])
        now == Matching(m)
    IN  /\ point[w] = "check"
        /\ \/ /\ ~passes
              /\ NextInGroup(w)
              /\ UNCHANGED conversation
           \/ passes /\ now = None /\ CallsBack(w)
           \/ passes /\ now \in Unfiltered /\ Resolve(w, now)
           \/ /\ passes /\ now \in Listeners \ Unfiltered
              /\ point' = [point EXCEPT ![w] = "resolve"]
              /\ captured' = [captured EXCEPT ![w] = now]
              /\ UNCHANGED <<msg, group, place, lockLine, finished,
                             conversation>>
        /\ UNCHANGED <<queue, groups, editor, arrived, stopping>>

ResolveEnds(w) ==
    /\ point[w] = "resolve"
    /\ IF msg[w] \in Allows[captured[w]] THEN Resolve(w, captured[w]) ELSE CallsBack(w)
    /\ UNCHANGED <<queue, groups, editor, arrived, stopping>>

\* The callback is over: its return and an exception end the group,
\* ContinuePropagation and StopPropagation do as their names say.
CallbackEnds(w) ==
    /\ point[w] = "callback"
    /\ NextGroup(w) \/ NextInGroup(w) \/ NoMore(w)
    /\ UNCHANGED <<queue, groups, editor, conversation, arrived, stopping>>

\* The callback of a next step raises StopPropagation after it, or an exception.
NextStepEnds(w) ==
    /\ point[w] = "nextStep"
    /\ NoMore(w) \/ NextGroup(w)
    /\ UNCHANGED <<queue, groups, editor, conversation, arrived, stopping>>

HandlerStep(w) == CheckEnds(w) \/ ResolveEnds(w) \/ CallbackEnds(w) \/ NextStepEnds(w)

-----------------------------------------------------------------------------
(* Conversations *)

\* A new listener, asked for by the callback that runs.
Asked(w, l) ==
    /\ point[w] = "callback"
    /\ l \in Asks[Current(w)]
    /\ fate[l] = "unused"
    /\ fate' = [fate EXCEPT ![l] = "pending"]
    /\ listeners' = Append(listeners, l)
    /\ UNCHANGED <<queue, groups, lockLine, editor, msg, group, place, captured,
                   answers, history, stopping>>

\* listen() inside a callback, which waits.
Listens(w, l) ==
    /\ l \notin NextSteps
    /\ Asked(w, l)
    /\ point' = [point EXCEPT ![w] = "listening"]
    /\ asker' = [asker EXCEPT ![l] = w]

\* register_next_step_handler() does not wait.
Registers(w, l) ==
    /\ l \in NextSteps
    /\ Asked(w, l)
    /\ UNCHANGED <<point, asker>>

Resumes(l) ==
    /\ fate[l] \in {"done", "timeout", "stopped"}
    /\ asker[l] # 0
    /\ point' = [point EXCEPT ![asker[l]] = "callback"]
    /\ asker' = [asker EXCEPT ![l] = 0]
    /\ UNCHANGED <<queue, groups, lockLine, editor, msg, group, place, captured,
                   listeners, fate, answers, history, stopping>>

\* wait_for() cancels the future, whose done callback is due later.
TimesOut(l) ==
    /\ l \in Timed \ NextSteps
    /\ fate[l] = "pending"
    /\ fate' = [fate EXCEPT ![l] = "timeout"]
    /\ UNCHANGED <<queue, groups, lockLine, editor, dispatching, listeners,
                   answers, asker, history, stopping>>

\* The done callback of the future: remove_listener().
Forget(l) ==
    /\ fate[l] \in {"done", "timeout", "stopped"}
    /\ l \in ToSet(listeners)
    /\ listeners' = Without(l)
    /\ UNCHANGED <<queue, groups, lockLine, editor, dispatching, fate, answers,
                   asker, history, stopping>>

\* stop_listener(): the listener goes first.  The future of a listen() fails, or,
\* with a stopped_handler, stays as it is; a next step has none to ask for done().
StopListener(l) ==
    /\ l \in ToSet(listeners)
    /\ listeners' = Without(l)
    /\ \/ UNCHANGED fate
       \/ l \notin NextSteps /\ fate[l] = "pending" /\ fate' = [fate EXCEPT ![l] = "stopped"]
    /\ UNCHANGED <<queue, groups, lockLine, editor, dispatching, answers,
                   asker, history, stopping>>

-----------------------------------------------------------------------------
(* Edits of the groups, and stop() *)

\* add_handler() and remove_handler() ask for the locks one after another.
AsksForLock(e) ==
    /\ editor[e] \in 0 .. NWorkers - 1
    /\ \A w \in 1 .. editor[e] : Holds(e, w)
    /\ editor' = [editor EXCEPT ![e] = @ + 1]
    /\ lockLine' = [lockLine EXCEPT ![editor[e] + 1] = Append(@, e)]
    /\ UNCHANGED <<queue, groups, dispatching, conversation, history, stopping>>

\* Mutant: the edit is made as soon as the last lock is asked for.
EditsEarly(e) ==
    /\ editor[e] = NWorkers
    /\ groups' = [groups EXCEPT ![Edits[e][3]] = Append(@, Edits[e][2])]
    /\ editor' = [editor EXCEPT ![e] = NWorkers + 1]
    /\ lockLine' = [w \in Workers |-> SelectSeq(lockLine[w], LAMBDA x : x # e)]
    /\ UNCHANGED <<queue, dispatching, conversation, history, stopping>>

\* Mutant: the locks are not given back after a failed removal.
EditsKeeping(e) ==
    /\ editor[e] = NWorkers
    /\ Holds(e, NWorkers)
    /\ editor' = [editor EXCEPT ![e] = NWorkers + 1]
    /\ UNCHANGED <<queue, groups, lockLine, dispatching, conversation, history, stopping>>

\* With all of them it changes the group (unless the handler to remove is not
\* there) and gives them back.
EditsGroup(e) ==
    LET h == Edits[e][2]
        g == Edits[e][3]
    IN  /\ editor[e] = NWorkers
        /\ Holds(e, NWorkers)
        /\ groups' = [groups EXCEPT ![g] = IF Edits[e][1] = "add"
                                           THEN Append(@, h) ELSE RemoveFirst(@, h)]
        /\ editor' = [editor EXCEPT ![e] = NWorkers + 1]
        /\ lockLine' = [w \in Workers |-> Tail(lockLine[w])]
        /\ UNCHANGED <<queue, dispatching, conversation, history, stopping>>

\* Mutant: the workers are told to end before the updates that wait.
StopBeginsInFront ==
    /\ stopping = "no"
    /\ stopping' = "waiting"
    /\ queue' = [w \in Workers |-> None] \o queue
    /\ UNCHANGED <<groups, lockLine, editor, dispatching, conversation, history>>

\* stop(): one None for each worker, behind the updates that wait.
StopBegins ==
    /\ stopping = "no"
    /\ stopping' = "waiting"
    /\ queue' = queue \o [w \in Workers |-> None]
    /\ UNCHANGED <<groups, lockLine, editor, dispatching, conversation, history>>

StopEnds ==
    /\ stopping = "waiting"
    /\ \A w \in Workers : point[w] = "ended"
    /\ stopping' = "stopped"
    /\ groups' = [g \in DOMAIN groups |-> <<>>]
    /\ UNCHANGED <<queue, lockLine, editor, dispatching, conversation, history>>

-----------------------------------------------------------------------------
(* The specification *)

Next ==
    \/ \E m \in Messages : Arrive(m)
    \/ \E w \in Workers :
          \/ Take(w) \/ Parsed(w) \/ EntersGroups(w) \/ HandlerStep(w)
          \/ \E l \in Listeners : Listens(w, l) \/ Registers(w, l)
    \/ \E l \in Listeners : Resumes(l) \/ TimesOut(l) \/ Forget(l) \/ StopListener(l)
    \/ \E e \in Editors : AsksForLock(e) \/ EditsGroup(e)
    \/ StopBegins \/ StopEnds

Spec == Init /\ [][Next]_vars

\* Every task runs on when it can, callbacks and filters end, and timers fire.
\* Arrivals, stop() and stop_listener() are the outside's.
Fairness ==
    /\ \A w \in Workers :
          WF_vars(Take(w) \/ Parsed(w) \/ EntersGroups(w) \/ HandlerStep(w))
    /\ \A l \in Listeners : WF_vars(Resumes(l)) /\ WF_vars(TimesOut(l)) /\ WF_vars(Forget(l))
    /\ \A e \in Editors : WF_vars(AsksForLock(e) \/ EditsGroup(e))
    /\ WF_vars(StopEnds)

FairSpec == Spec /\ Fairness

-----------------------------------------------------------------------------
(* Properties *)

\* The groups do not change under a worker that goes through them, whatever
\* edits are under way (locks_list, add_handler(), remove_handler()).
EditsExclude ==
    [][\A w \in Workers : point[w] \in Inside => groups' = groups]_vars

\* A listener takes one message: listen() always, and a next step without a
\* filter, between whose lookup and removal nothing can happen.  One with a filter
\* is left out: two workers may find it before it is removed, and both call it.
TakesOneMessage ==
    \A l \in Listeners : l \in Unfiltered \/ l \notin NextSteps =>
        Cardinality(answers[l]) <= 1

\* stop() returns after every message that was queued before it was handled.
StopDrains ==
    /\ TypeOK
    /\ stopping = "stopped" => arrived \subseteq finished

\* Every message is handled, and stop() returns, unless a callback that waits
\* in a listen() without timeout is never answered.
ListensForEver == \E w \in Workers : <>[](point[w] = "listening")
AllHandled ==
    \/ /\ \A m \in Messages : m \in arrived ~> m \in finished
       /\ stopping = "waiting" ~> stopping = "stopped"
    \/ ListensForEver
=============================================================================
