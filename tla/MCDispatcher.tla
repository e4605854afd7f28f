---------------------------- MODULE MCDispatcher ----------------------------
(* Two groups of one handler each; one waits for a reply, which has no       *)
(* timeout, or for a choice, which has; the other asks for a next step.      *)
EXTENDS Dispatcher, TLC
CONSTANTS ask, take, m1, m2, reply, choice, step, remove, add

MCMessages == {m1, m2}
MCHandlers == {ask, take}
MCGroups == <<<<ask>>, <<take>>>>
MCAccepts == (ask :> {m1}) @@ (take :> {m1})
MCEditors == {remove, add}
MCEdits == (remove :> <<"remove", ask, 1>>) @@ (add :> <<"add", take, 1>>)
MCListeners == {reply, choice, step}
MCAsks == (ask :> {reply, choice}) @@ (take :> {step})
MCMatches == [l \in MCListeners |-> MCMessages]
MCAllows == (reply :> {m2}) @@ (choice :> {m2}) @@ (step :> MCMessages)
MCSpecificity == (reply :> 1) @@ (choice :> 2) @@ (step :> 1)
=============================================================================
