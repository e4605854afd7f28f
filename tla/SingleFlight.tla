---------------------------- MODULE SingleFlight ----------------------------
(***************************************************************************)
(* What restart() promises to its callers (pyrogram/session/session.py,    *)
(* 460-498, and its README): of the tasks that want a reconnect at most    *)
(* one leads it, the others wait for it, and its end releases all of them  *)
(* at once.  A waiter may also be cancelled.                               *)
(***************************************************************************)
CONSTANTS Tasks, None

VARIABLES leader, waiting

Init == leader = None /\ waiting = {}

Lead(t) ==
    /\ leader = None
    /\ t \notin waiting
    /\ leader' = t
    /\ UNCHANGED waiting

Join(t) ==
    /\ leader \notin {None, t}
    /\ waiting' = waiting \cup {t}
    /\ UNCHANGED leader

Leave(t) ==
    /\ waiting' = waiting \ {t}
    /\ UNCHANGED leader

\* The outcome is the same for everybody who waited.
Finish ==
    /\ leader # None
    /\ leader' = None
    /\ waiting' = {}

Next == Finish \/ \E t \in Tasks : Lead(t) \/ Join(t) \/ Leave(t)

Spec == Init /\ [][Next]_<<leader, waiting>>
FairSpec == Spec /\ WF_<<leader, waiting>>(Finish)
=============================================================================
