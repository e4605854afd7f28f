---------------------------- MODULE UpdatesProofs ----------------------------
(***************************************************************************)
(* recover_gaps() beside the live updates, for every number of channels,   *)
(* tasks, events, faults and lives.                                        *)
(***************************************************************************)
EXTENDS Updates, SequenceTheorems, FiniteSetTheorems,
        WellFoundedInduction, TLAPS

-----------------------------------------------------------------------------
(* The least and the greatest of a set of numbers.                         *)

\* A set of numbers has a least one: of the intervals 0 .. n one is in no other.
LEMMA LeastNumber ==
    ASSUME NEW T \in SUBSET Nat, T # {}
    PROVE  \E x \in T : \A y \in T : x <= y
<1> DEFINE R == StrictSubsetOrdering(Nat)
           F == {0 .. n : n \in T}
<1>1. IsWellFoundedOn(R, FiniteSubsetsOf(Nat))
  BY FS_StrictSubsetOrderingWellFounded
<1>2. F \subseteq FiniteSubsetsOf(Nat)
  <2>1. ASSUME NEW n \in T PROVE 0 .. n \in FiniteSubsetsOf(Nat)
    <3>1. IsFiniteSet(0 .. n)
      BY FS_Interval
    <3> QED
      BY <3>1 DEF FiniteSubsetsOf
  <2> QED
    BY <2>1
<1>3. PICK I \in F : \A J \in F : <<J, I>> \notin R
  <2>1. F # {}
    OBVIOUS
  <2> HIDE DEF F, R
  <2> QED
    BY <1>1, <1>2, <2>1, WFMin
<1>4. PICK x \in T : I = 0 .. x
  OBVIOUS
<1>5. ASSUME NEW y \in T PROVE x <= y
  <2>1. SUFFICES ASSUME y < x PROVE FALSE
    OBVIOUS
  <2>2. /\ 0 .. y \subseteq 0 .. x /\ x \in 0 .. x /\ x \notin 0 .. y
    BY <2>1
  <2>3. <<0 .. y, 0 .. x>> \in R
    BY <2>2 DEF StrictSubsetOrdering
  <2> QED
    BY <1>3, <1>4, <2>3
<1> QED
  BY <1>5

LEMMA GreatestNumber ==
    ASSUME NEW n \in Nat, NEW T \in SUBSET (0 .. n), T # {}
    PROVE  \E x \in T : \A y \in T : x >= y
<1> DEFINE D == {n - x : x \in T}
<1>1. D \in SUBSET Nat /\ D # {}
  <2>1. \A x \in T : n - x \in Nat
    OBVIOUS
  <2>2. PICK x \in T : TRUE
    OBVIOUS
  <2>3. n - x \in D
    BY <2>2
  <2> QED
    BY <2>1, <2>3
<1>2. PICK d \in D : \A e \in D : d <= e
  <2> HIDE DEF D
  <2> QED
    BY <1>1, LeastNumber
<1>3. PICK x \in T : d = n - x
  OBVIOUS
<1>4. ASSUME NEW y \in T PROVE x >= y
  <2>1. n - x <= n - y
    BY <1>2, <1>3
  <2>2. x \in 0 .. n /\ y \in 0 .. n
    OBVIOUS
  <2> QED
    BY <2>1, <2>2
<1> QED
  BY <1>4

\* Min and Max of the community modules.
LEMMA MinIsLeast ==
    ASSUME NEW T \in SUBSET Nat, T # {}
    PROVE  Min(T) \in T /\ \A y \in T : Min(T) <= y
BY LeastNumber DEF Min

LEMMA MaxIsGreatest ==
    ASSUME NEW n \in Nat, NEW T \in SUBSET (0 .. n), T # {}
    PROVE  Max(T) \in T /\ \A y \in T : Max(T) >= y
BY GreatestNumber DEF Max

-----------------------------------------------------------------------------
(* The inductive invariant.                                                *)

\* The events that have happened.
Happened == UNION {{b} \X (1 .. pts[b]) : b \in Boxes}

ServerOK ==
    /\ pts \in [Boxes -> Nat] /\ \A b \in Boxes : pts[b] <= MaxPts(b)
    /\ stored \in [Boxes -> Nat] /\ \A b \in Boxes : stored[b] <= pts[b]
    /\ states \in [Boxes -> Nat] /\ \A b \in Boxes : states[b] <= pts[b]
    /\ pipe \subseteq Happened /\ queue \subseteq Happened
    /\ phase \in Phases

\* A task has events that have happened; while it has boxes left to store, its
\* batch has an event of each.
GoodTasks ==
    {r \in [at : {"idle", "peers", "fetch", "store", "state", "ask"},
            batch : Seq(Happened), done : Nat, left : SUBSET Boxes] :
        /\ r.done <= Len(r.batch)
        /\ r.at \in {"peers", "fetch", "store"} => r.left # {}
        /\ r.at \in {"state", "ask"} => r.batch # <<>> /\ r.batch[1][1] = Common
        /\ \A b \in r.left : \E i \in DOMAIN r.batch : r.batch[i][1] = b}

TasksOK == task \in [Tasks -> GoodTasks]

\* What the client had missed, and recover_gaps() has neither queued nor left.
Behind == {e \in pending : e \notin queue /\ e[1] \notin gaveUp /\ e[2] > states[e[1]]}

\* The box that recover_gaps() is at has been queued from its state to local_pts,
\* and what is behind is of this box or of one to come.
BoxOK ==
    /\ states[recovery.box] <= recovery.pts
    /\ Between(recovery.box, states[recovery.box], recovery.pts) \subseteq queue
    /\ \A e \in Behind : e[1] \in rest \cup {recovery.box}

RecoveryOK ==
    /\ recovery \in [at : {"off", "top", "asked", "final", "over"},
                     box : Boxes, pts : Nat, prev : Nat]
    /\ recovery.pts <= pts[recovery.box]
    /\ rest \subseteq Boxes
    /\ pending \subseteq Happened
    /\ phase = "down" => pending = {}
    /\ phase # "running" => recovery = NotRecovering
    /\ phase = "running" => recovery.at # "off"
    /\ phase = "connected" => \A e \in pending : stored[e[1]] > 0
    /\ recovery.at \in {"top", "asked", "final"} => BoxOK
    /\ recovery.at = "final" => \A e \in Behind : e[1] # recovery.box
    /\ recovery.at = "over" => Behind = {}

IInv == ServerOK /\ TasksOK /\ RecoveryOK

-----------------------------------------------------------------------------
(* Events.                                                                 *)

LEMMA MaxPtsIsNat == \A b \in Boxes : MaxPts(b) \in Nat
BY UpdatesParameters DEF MaxPts, Boxes

LEMMA EventHappened ==
    ASSUME ServerOK
    PROVE  /\ \A b \in Boxes : \A n \in 1 .. pts[b] : <<b, n>> \in Happened
           /\ \A e \in Happened : /\ e[1] \in Boxes
                                  /\ e[2] \in 1 .. pts[e[1]]
                                  /\ e = <<e[1], e[2]>>
BY DEF Happened, ServerOK

LEMMA BetweenHappened ==
    ASSUME ServerOK, NEW b \in Boxes, NEW from \in Nat, NEW to \in Nat, to <= pts[b]
    PROVE  Between(b, from, to) \subseteq Happened
<1>1. ASSUME NEW e \in Between(b, from, to) PROVE e \in Happened
  <2>1. PICK n \in from + 1 .. to : e = <<b, n>>
    BY DEF Between
  <2>2. n \in 1 .. pts[b]
    BY <2>1 DEF ServerOK
  <2> QED
    BY <2>1, <2>2, EventHappened
<1> QED
  BY <1>1

LEMMA HappenedGrows ==
    ASSUME ServerOK, ServerOK', \A b \in Boxes : pts[b] <= pts'[b]
    PROVE  Happened \subseteq Happened'
<1>1. ASSUME NEW e \in Happened PROVE e \in Happened'
  <2>1. /\ e[1] \in Boxes
        /\ e[2] \in 1 .. pts[e[1]]
        /\ e = <<e[1], e[2]>>
    BY EventHappened
  <2>2. e[2] \in 1 .. pts'[e[1]]
    BY <2>1 DEF ServerOK
  <2> QED
    BY <2>1, <2>2 DEF Happened
<1> QED
  BY <1>1

\* The batches stay good when more happens.
LEMMA GoodTasksGrow ==
    ASSUME Happened \subseteq Happened'
    PROVE  GoodTasks \subseteq GoodTasks'
<1>1. Seq(Happened) \subseteq Seq(Happened')
  BY SeqMonotonic
<1> QED
  BY <1>1 DEF GoodTasks

LEMMA IdleIsGood == Idle \in GoodTasks
<1>1. <<>> \in Seq(Happened) /\ Len(<<>>) = 0
  BY EmptySeq
<1> QED
  BY <1>1 DEF Idle, GoodTasks

LEMMA IInvAtInit == Init => IInv
<1> SUFFICES ASSUME Init PROVE IInv
  OBVIOUS
<1>1. \A b \in Boxes : MaxPts(b) - More \in Nat \ {0} /\ MaxPts(b) - More <= MaxPts(b)
  BY UpdatesParameters DEF MaxPts
<1>2. \A b \in Boxes : pts[b] = MaxPts(b) - More
  BY DEF Init
<1>3. ServerOK
  <2>1. pts \in [Boxes -> Nat] /\ \A b \in Boxes : pts[b] <= MaxPts(b) /\ pts[b] >= 1
    BY <1>1, <1>2 DEF Init
  <2>2. stored \in [Boxes -> Nat] /\ \A b \in Boxes : stored[b] <= pts[b]
    BY <2>1 DEF Init
  <2>3. states \in [Boxes -> Nat] /\ \A b \in Boxes : states[b] <= pts[b]
    BY <2>1 DEF Init
  <2> QED
    BY <2>1, <2>2, <2>3 DEF Init, ServerOK, Phases
<1>4. TasksOK
  BY IdleIsGood DEF Init, TasksOK
<1>5. RecoveryOK
  <2>1. Common \in Boxes /\ pts[Common] \in Nat
    BY <1>3 DEF ServerOK, Boxes
  <2> QED
    BY <2>1 DEF Init, RecoveryOK, NotRecovering
<1> QED
  BY <1>3, <1>4, <1>5 DEF IInv

-----------------------------------------------------------------------------
(* Steps that leave recover_gaps() alone.                                  *)

\* Behind has only what was behind before.
LEMMA BehindShrinks ==
    ASSUME UNCHANGED <<pending, states>>, queue \subseteq queue', gaveUp \subseteq gaveUp'
    PROVE  Behind' \subseteq Behind
BY DEF Behind

LEMMA ElsewhereKeepsRecovery ==
    ASSUME IInv, ServerOK', \A b \in Boxes : pts[b] <= pts'[b],
           UNCHANGED <<phase, recovering, pending>>, queue \subseteq queue',
           \A b \in Boxes : stored[b] > 0 => stored'[b] > 0
    PROVE  RecoveryOK'
<1>1. UNCHANGED <<phase, recovery, states, rest, gaveUp, pending>>
  BY DEF recovering
<1>2. Behind' \subseteq Behind
  BY <1>1, BehindShrinks
<1>3. pending' \subseteq Happened'
  BY <1>1, HappenedGrows DEF IInv, RecoveryOK
<1>4. recovery'.pts <= pts'[recovery'.box]
  BY <1>1 DEF IInv, RecoveryOK, ServerOK
<1>5. phase' = "connected" => \A e \in pending' : stored'[e[1]] > 0
  BY <1>1, EventHappened DEF IInv, RecoveryOK
<1>6. BoxOK => BoxOK'
  BY <1>1, <1>2 DEF BoxOK, Between
<1> QED
  BY <1>1, <1>2, <1>3, <1>4, <1>5, <1>6 DEF IInv, RecoveryOK

LEMMA OccursKeeps ==
    ASSUME IInv, NEW b \in Boxes, Occurs(b)
    PROVE  IInv'
<1> USE DEF IInv
<1>1. /\ pts' \in [Boxes -> Nat]
      /\ \A c \in Boxes : pts[c] <= pts'[c] /\ pts'[c] <= MaxPts(c)
      /\ pts'[b] = pts[b] + 1
  BY MaxPtsIsNat DEF Occurs, ServerOK
<1>2. UNCHANGED <<stored, queue, phase, task, recovery, states, rest, gaveUp, pending>>
  BY DEF Occurs, recovering, ghosts
<1>3. \A e \in Happened : e \in Happened'
  <2>1. ASSUME NEW e \in Happened PROVE e \in Happened'
    <3>1. e[1] \in Boxes /\ e[2] \in 1 .. pts[e[1]] /\ e = <<e[1], e[2]>>
      BY EventHappened
    <3>2. e[2] \in 1 .. pts'[e[1]]
      BY <1>1, <3>1 DEF ServerOK
    <3> QED
      BY <3>1, <3>2 DEF Happened
  <2> QED
    BY <2>1
<1>4. <<b, pts'[b]>> \in Happened'
  BY <1>1 DEF Happened, ServerOK
<1>5. pipe' \subseteq Happened'
  BY <1>3, <1>4 DEF Occurs, ServerOK
<1>6. /\ \A c \in Boxes : stored'[c] <= pts'[c] /\ states'[c] <= pts'[c]
      /\ stored' \in [Boxes -> Nat] /\ states' \in [Boxes -> Nat]
      /\ queue' \subseteq Happened' /\ phase' \in Phases
  BY <1>1, <1>2, <1>3 DEF ServerOK
<1>7. ServerOK'
  BY <1>1, <1>5, <1>6 DEF ServerOK
<1>8. TasksOK'
  BY <1>2, <1>3, GoodTasksGrow DEF TasksOK
<1>9. RecoveryOK'
  BY <1>1, <1>2, <1>7, ElsewhereKeepsRecovery DEF recovering
<1> QED
  BY <1>7, <1>8, <1>9

\* A step of the pipe or of a task: it puts only what has happened into the queue,
\* and stores only what the server has.
LEMMA ClientStepKeeps ==
    ASSUME IInv, UNCHANGED <<pts, phase, recovering, pending>>,
           queue \subseteq queue', queue' \subseteq Happened, pipe' \subseteq Happened,
           stored' \in [Boxes -> Nat], \A b \in Boxes : stored'[b] <= pts[b],
           \A b \in Boxes : stored[b] > 0 => stored'[b] > 0,
           TasksOK'
    PROVE  IInv'
<1> USE DEF IInv
<1>1. Happened' = Happened
  BY DEF Happened
<1>2. ServerOK'
  BY <1>1 DEF ServerOK, recovering
<1>3. \A b \in Boxes : pts[b] <= pts'[b]
  BY DEF ServerOK
<1>4. RecoveryOK'
  BY <1>2, <1>3, ElsewhereKeepsRecovery
<1> QED
  BY <1>2, <1>4

-----------------------------------------------------------------------------
(* Steps of the pipe and of the tasks.                                     *)

LEMMA TaskTurns ==
    ASSUME TasksOK, UNCHANGED pts, NEW t \in Tasks, NEW r \in GoodTasks,
           task' = [task EXCEPT ![t] = r]
    PROVE  TasksOK'
<1>1. GoodTasks' = GoodTasks
  BY DEF GoodTasks, Happened
<1> QED
  BY <1>1 DEF TasksOK

LEMMA TaskIsGood ==
    ASSUME TasksOK, NEW t \in Tasks
    PROVE  /\ task[t] \in GoodTasks
           /\ task[t].batch \in Seq(Happened)
           /\ task[t].done \in 0 .. Len(task[t].batch)
           /\ DOMAIN task[t].batch = 1 .. Len(task[t].batch)
           /\ Len(task[t].batch) \in Nat
           /\ \A i \in 1 .. Len(task[t].batch) : task[t].batch[i] \in Happened
<1>1. task[t] \in GoodTasks
  BY DEF TasksOK
<1>2. task[t].batch \in Seq(Happened)
  BY <1>1 DEF GoodTasks
<1>3. /\ DOMAIN task[t].batch = 1 .. Len(task[t].batch)
      /\ Len(task[t].batch) \in Nat
      /\ \A i \in 1 .. Len(task[t].batch) : task[t].batch[i] \in Happened
  BY <1>2, LenProperties, ElementOfSeq
<1> QED
  BY <1>1, <1>2, <1>3 DEF GoodTasks

LEMMA LostKeeps ==
    ASSUME IInv, NEW e, Lost(e)
    PROVE  IInv'
<1>1. UNCHANGED <<pts, stored, queue, phase, task, recovering, pending>>
  BY DEF Lost, ghosts
<1>2. pipe' \subseteq Happened /\ stored' \in [Boxes -> Nat]
  BY <1>1 DEF Lost, IInv, ServerOK
<1>3. TasksOK'
  <2>1. GoodTasks' = GoodTasks
    BY <1>1 DEF GoodTasks, Happened
  <2> QED
    BY <1>1, <2>1 DEF IInv, TasksOK
<1> QED
  BY <1>1, <1>2, <1>3, ClientStepKeeps DEF IInv, ServerOK

LEMMA ReceivedKeeps ==
    ASSUME IInv, NEW t \in Tasks, Received(t)
    PROVE  IInv'
<1> USE DEF IInv
<1>1. UNCHANGED <<pts, stored, phase, recovering, pending>>
  BY DEF Received, ghosts
<1>0. PICK n \in 1 .. BatchSize :
         \E batch \in [1 .. n -> pipe] :
            /\ pipe' = pipe \ {batch[i] : i \in 1 .. n}
            /\ \/ /\ task' = [task EXCEPT ![t] =
                                [at |-> "peers", batch |-> batch, done |-> 0,
                                 left |-> {batch[i][1] : i \in 1 .. n}]]
                  /\ queue' = queue
               \/ /\ n = 1 /\ batch[1][1] = Common
                  /\ task' = [task EXCEPT ![t] =
                                [at |-> "state", batch |-> batch, done |-> 0, left |-> {}]]
                  /\ queue' = queue
               \/ /\ queue' = queue \cup {batch[1]} /\ task' = task
  BY DEF Received
<1>2. PICK batch \in [1 .. n -> pipe] :
         /\ pipe' = pipe \ {batch[i] : i \in 1 .. n}
         /\ \/ /\ task' = [task EXCEPT ![t] =
                             [at |-> "peers", batch |-> batch, done |-> 0,
                              left |-> {batch[i][1] : i \in 1 .. n}]]
               /\ queue' = queue
            \/ /\ n = 1 /\ batch[1][1] = Common
               /\ task' = [task EXCEPT ![t] =
                             [at |-> "state", batch |-> batch, done |-> 0, left |-> {}]]
               /\ queue' = queue
            \/ /\ queue' = queue \cup {batch[1]} /\ task' = task
  BY <1>0
<1>3. n \in Nat /\ n >= 1
  BY UpdatesParameters
<1>4. batch \in [1 .. n -> Happened] /\ batch \in Seq(Happened) /\ Len(batch) = n
  BY <1>3, SeqDef, LenProperties DEF ServerOK
<1>5. {batch[i][1] : i \in 1 .. n} \in SUBSET Boxes
  BY <1>4, EventHappened
<1> DEFINE L == {batch[i][1] : i \in 1 .. n}
<1>6. [at |-> "peers", batch |-> batch, done |-> 0, left |-> L] \in GoodTasks
  <2>1. batch[1][1] \in L
    BY <1>3
  <2>2. \A b \in L : \E i \in DOMAIN batch : batch[i][1] = b
    BY <1>4
  <2>3. L \in SUBSET Boxes
    BY <1>5
  <2> HIDE DEF L
  <2> QED
    BY <1>3, <1>4, <2>1, <2>2, <2>3 DEF GoodTasks
<1>7. n = 1 /\ batch[1][1] = Common =>
         [at |-> "state", batch |-> batch, done |-> 0, left |-> {}] \in GoodTasks
  BY <1>3, <1>4 DEF GoodTasks
<1>8. TasksOK'
  <2>1. GoodTasks' = GoodTasks
    BY <1>1 DEF GoodTasks, Happened
  <2>2. task' = task => TasksOK'
    BY <2>1 DEF TasksOK
  <2> QED
    BY <1>1, <1>2, <1>6, <1>7, <2>2, TaskTurns
<1>9. queue \subseteq queue' /\ queue' \subseteq Happened
  BY <1>2, <1>3, <1>4 DEF ServerOK
<1> QED
  BY <1>1, <1>2, <1>8, <1>9, ClientStepKeeps DEF ServerOK

LEMMA RecordTurns ==
    ASSUME NEW A, NEW B, NEW L, NEW r \in [at : A, batch : B, done : Nat, left : L],
           NEW n \in Nat, NEW a \in A
    PROVE  /\ [r EXCEPT !.done = n, !.at = a] \in [at : A, batch : B, done : Nat, left : L]
           /\ [r EXCEPT !.done = n, !.at = a].at = a
           /\ [r EXCEPT !.done = n, !.at = a].done = n
           /\ [r EXCEPT !.done = n, !.at = a].batch = r.batch
           /\ [r EXCEPT !.done = n, !.at = a].left = r.left
OBVIOUS

LEMMA RunsKeeps ==
    ASSUME IInv, NEW t \in Tasks, NEW from \in Nat, Runs(t, from),
           task[t].at \in {"peers", "fetch"}, UNCHANGED pts
    PROVE  TasksOK' /\ queue \subseteq queue' /\ queue' \subseteq Happened
<1> USE DEF IInv
<1> DEFINE b == task[t].batch
<1>1. PICK n \in from .. Len(b) :
          /\ queue' = queue \cup {b[i] : i \in (task[t].done + 1) .. n}
          /\ task' = [task EXCEPT ![t].done = n,
                                  ![t].at = IF n < Len(b) THEN "fetch" ELSE "store"]
  BY DEF Runs
<1>2. task[t] \in GoodTasks /\ task[t].done \in Nat /\ Len(b) \in Nat
      /\ \A i \in 1 .. Len(b) : b[i] \in Happened
  BY TaskIsGood
<1>3. n \in 0 .. Len(b)
  BY <1>2
<1>4. {b[i] : i \in (task[t].done + 1) .. n} \subseteq Happened
  BY <1>2, <1>3
<1> DEFINE next == IF n < Len(b) THEN "fetch" ELSE "store"
           r == [task[t] EXCEPT !.done = n, !.at = next]
<1>6. r \in GoodTasks
  <2>1. /\ task[t].left # {}
        /\ task[t] \in [at : {"idle", "peers", "fetch", "store", "state", "ask"},
                        batch : Seq(Happened), done : Nat, left : SUBSET Boxes]
        /\ \A c \in task[t].left : \E i \in DOMAIN b : b[i][1] = c
    BY <1>2 DEF GoodTasks
  <2>2. next \in {"fetch", "store"}
    OBVIOUS
  <2> HIDE DEF next
  <2>3. /\ r \in [at : {"idle", "peers", "fetch", "store", "state", "ask"},
                  batch : Seq(Happened), done : Nat, left : SUBSET Boxes]
        /\ r.at \in {"fetch", "store"} /\ r.batch = b /\ r.done = n
        /\ r.left = task[t].left
    <3> DEFINE A == {"idle", "peers", "fetch", "store", "state", "ask"}
               B == Seq(Happened)
               L == SUBSET Boxes
    <3>1. next \in A /\ n \in Nat
      BY <1>3, <2>2
    <3>2. task[t] \in [at : A, batch : B, done : Nat, left : L]
      BY <2>1
    <3> HIDE DEF A, B, L
    <3>3. /\ r \in [at : A, batch : B, done : Nat, left : L]
          /\ r.at = next /\ r.done = n
          /\ r.batch = b /\ r.left = task[t].left
      BY <3>1, <3>2, RecordTurns
    <3> QED
      BY <2>2, <3>3 DEF A, B, L
  <2> HIDE DEF r
  <2> QED
    BY <1>3, <2>1, <2>3 DEF GoodTasks
<1>7. task' = [task EXCEPT ![t] = r]
  BY <1>1 DEF TasksOK
<1>8. TasksOK'
  <2> HIDE DEF r
  <2> QED
    BY <1>6, <1>7, TaskTurns
<1> QED
  BY <1>1, <1>4, <1>8 DEF ServerOK

LEMMA PeersKeeps ==
    ASSUME IInv, NEW t \in Tasks, Peers(t) \/ Fetched(t)
    PROVE  IInv'
<1>1. /\ UNCHANGED <<pts, pipe, stored, phase, recovering, pending>>
      /\ task[t].at \in {"peers", "fetch"}
  BY DEF Peers, Fetched, server, ghosts
<1>2. \E from \in Nat : Runs(t, from)
  <2>1. task[t].done + 1 \in Nat
    BY TaskIsGood DEF IInv
  <2> QED
    BY <2>1 DEF Peers, Fetched
<1>3. TasksOK' /\ queue \subseteq queue' /\ queue' \subseteq Happened
  BY <1>1, <1>2, RunsKeeps
<1> QED
  BY <1>1, <1>3, ClientStepKeeps DEF IInv, ServerOK

LEMMA FailsKeeps ==
    ASSUME IInv, NEW t \in Tasks, Fails(t)
    PROVE  IInv'
<1>1. UNCHANGED <<pts, pipe, stored, queue, phase, recovering, pending>>
  BY DEF Fails, server, ghosts
<1>2. TasksOK'
  BY <1>1, IdleIsGood, TaskTurns DEF Fails, IInv
<1> QED
  BY <1>1, <1>2, ClientStepKeeps DEF IInv, ServerOK

\* A task with boxes left writes the row of one of them, from an event of its batch.
LEMMA BatchWrites ==
    ASSUME IInv, NEW t \in Tasks, Stores(t)
    PROVE  \E i \in 1 .. Len(task[t].batch) :
              LET e == task[t].batch[i]
              IN  /\ e \in Happened /\ e[1] \in task[t].left
                  /\ stored' = [stored EXCEPT ![e[1]] = e[2]]
                  /\ writer' = [writer EXCEPT ![e[1]] = "batch"]
                  /\ task' = IF task[t].left = {e[1]} THEN [task EXCEPT ![t] = Idle]
                             ELSE [task EXCEPT ![t].left = task[t].left \ {e[1]}]
<1> USE DEF IInv
<1> DEFINE b == task[t].batch
           I == {i \in DOMAIN b : b[i][1] \in task[t].left}
           box == b[Min(I)][1]
           N == {b[i][2] : i \in {j \in DOMAIN b : b[j][1] = box}}
<1>1. /\ task[t].at = "store"
      /\ stored' = [stored EXCEPT ![box] = Max(N)]
      /\ writer' = [writer EXCEPT ![box] = "batch"]
      /\ task' = IF task[t].left = {box} THEN [task EXCEPT ![t] = Idle]
                 ELSE [task EXCEPT ![t].left = task[t].left \ {box}]
  BY DEF Stores
<1>2. /\ task[t] \in GoodTasks
      /\ DOMAIN b = 1 .. Len(b) /\ Len(b) \in Nat
      /\ \A i \in 1 .. Len(b) : b[i] \in Happened
  BY TaskIsGood
<1>3. I \in SUBSET Nat /\ I # {}
  <2>1. task[t].left # {} /\ \A c \in task[t].left : \E i \in DOMAIN b : b[i][1] = c
    BY <1>1, <1>2 DEF GoodTasks
  <2>2. PICK c \in task[t].left : TRUE
    BY <2>1
  <2>3. PICK i \in DOMAIN b : b[i][1] = c
    BY <2>1, <2>2
  <2>4. i \in I
    BY <2>2, <2>3
  <2> QED
    BY <1>2, <2>4
<1>4. Min(I) \in I
  BY <1>3, MinIsLeast
<1>5. box \in task[t].left /\ box \in Boxes
  BY <1>4, <1>2 DEF GoodTasks
<1>6. N \in SUBSET (1 .. pts[box]) /\ N # {}
  <2>1. ASSUME NEW i \in DOMAIN b, b[i][1] = box
        PROVE  b[i][2] \in 1 .. pts[box]
    BY <1>2, <2>1, EventHappened
  <2>2. \A m \in N : m \in 1 .. pts[box]
    BY <2>1
  <2>3. b[Min(I)][2] \in N
    BY <1>4
  <2> HIDE DEF N, box
  <2> QED
    BY <2>2, <2>3
<1>7. Max(N) \in N
  <2>1. pts[box] \in Nat
    BY <1>5 DEF ServerOK
  <2> HIDE DEF N, box
  <2>2. N \in SUBSET (0 .. pts[box])
    BY <1>6, <2>1
  <2> QED
    BY <1>6, <2>1, <2>2, MaxIsGreatest
<1>8. PICK i \in DOMAIN b : b[i][1] = box /\ b[i][2] = Max(N)
  <2> DEFINE m == Max(N)
  <2>1. m \in N
    BY <1>7
  <2> HIDE DEF m
  <2>2. \E i \in DOMAIN b : b[i][1] = box /\ b[i][2] = m
    BY <2>1
  <2> QED
    BY <2>2 DEF m
<1>9. i \in 1 .. Len(b) /\ b[i] \in Happened
  BY <1>2, <1>8
<1> HIDE DEF N, box
<1> QED
  BY <1>1, <1>5, <1>8, <1>9

LEMMA StoresKeeps ==
    ASSUME IInv, NEW t \in Tasks, Stores(t)
    PROVE  IInv'
<1> USE DEF IInv
<1> DEFINE b == task[t].batch
<1>1. /\ UNCHANGED <<pts, pipe, queue, phase, recovering, pending>>
      /\ task[t].at = "store"
  BY DEF Stores, server
<1>2. task[t] \in GoodTasks
  BY TaskIsGood
<1>3. PICK i \in 1 .. Len(b) :
         /\ b[i] \in Happened /\ b[i][1] \in task[t].left
         /\ stored' = [stored EXCEPT ![b[i][1]] = b[i][2]]
         /\ task' = IF task[t].left = {b[i][1]} THEN [task EXCEPT ![t] = Idle]
                    ELSE [task EXCEPT ![t].left = task[t].left \ {b[i][1]}]
  BY BatchWrites
<1> DEFINE box == b[i][1]
           new == b[i][2]
<1>4. box \in Boxes /\ new \in 1 .. pts[box] /\ box \in task[t].left
  BY <1>3, EventHappened
<1>5. /\ stored' = [stored EXCEPT ![box] = new]
      /\ task' = IF task[t].left = {box} THEN [task EXCEPT ![t] = Idle]
                 ELSE [task EXCEPT ![t].left = task[t].left \ {box}]
  BY <1>3
<1>9. /\ stored' \in [Boxes -> Nat]
      /\ \A c \in Boxes : stored'[c] <= pts[c]
      /\ \A c \in Boxes : stored[c] > 0 => stored'[c] > 0
  <2> HIDE DEF box, new
  <2> QED
    BY <1>4, <1>5 DEF ServerOK
<1>10. TasksOK'
  <2> HIDE DEF box
  <2>1. CASE task[t].left = {box}
    <3>1. task' = [task EXCEPT ![t] = Idle]
      BY <1>5, <2>1
    <3> QED
      BY <1>1, <3>1, IdleIsGood, TaskTurns
  <2>2. CASE task[t].left # {box}
    <3> DEFINE r == [task[t] EXCEPT !.left = task[t].left \ {box}]
    <3>1. task' = [task EXCEPT ![t] = r]
      BY <1>5, <2>2
    <3>2. r \in GoodTasks
      <4>1. /\ task[t].left \ {box} # {}
            /\ task[t] \in [at : {"idle", "peers", "fetch", "store", "state", "ask"},
                            batch : Seq(Happened), done : Nat, left : SUBSET Boxes]
            /\ task[t].done <= Len(b)
            /\ \A c \in task[t].left : \E k \in DOMAIN b : b[k][1] = c
        BY <1>1, <1>2, <1>4, <2>2 DEF GoodTasks
      <4>2. /\ r \in [at : {"idle", "peers", "fetch", "store", "state", "ask"},
                      batch : Seq(Happened), done : Nat, left : SUBSET Boxes]
            /\ r.at = "store" /\ r.batch = b /\ r.done = task[t].done
            /\ r.left = task[t].left \ {box}
        BY <1>1, <4>1
      <4> HIDE DEF r
      <4> QED
        BY <4>1, <4>2 DEF GoodTasks
    <3> HIDE DEF r
    <3> QED
      BY <1>1, <3>1, <3>2, TaskTurns
  <2> QED
    BY <2>1, <2>2
<1> QED
  BY <1>1, <1>9, <1>10, ClientStepKeeps DEF ServerOK

LEMMA ShortKeeps ==
    ASSUME IInv, NEW t \in Tasks, StoresShort(t) \/ Told(t)
    PROVE  IInv'
<1> USE DEF IInv
<1>1. UNCHANGED <<pts, pipe, phase, recovering, pending>>
  BY DEF StoresShort, Told, server, ghosts
<1>2. /\ task[t] \in GoodTasks
      /\ task[t].batch[1] \in Happened /\ task[t].batch[1][1] = Common
  <2>1. task[t].at \in {"state", "ask"}
    BY DEF StoresShort, Told
  <2>2. task[t] \in GoodTasks /\ task[t].batch \in Seq(Happened)
    BY TaskIsGood
  <2>3. task[t].batch # <<>> /\ task[t].batch[1][1] = Common
    BY <2>1, <2>2 DEF GoodTasks
  <2>4. 1 \in 1 .. Len(task[t].batch)
    BY <2>2, <2>3, EmptySeq
  <2> QED
    BY <2>2, <2>3, <2>4, ElementOfSeq
<1>3. task[t].batch[1][2] \in 1 .. pts[Common]
  BY <1>2, EventHappened
<1>4. CASE StoresShort(t)
  <2>1. /\ queue' = queue
        /\ stored' = [stored EXCEPT ![Common] = task[t].batch[1][2]]
        /\ task' = [task EXCEPT ![t].at = "ask"]
        /\ task[t].at = "state"
    BY <1>4 DEF StoresShort
  <2>2. /\ stored' \in [Boxes -> Nat]
        /\ \A c \in Boxes : stored'[c] <= pts[c]
        /\ \A c \in Boxes : stored[c] > 0 => stored'[c] > 0
    BY <1>3, <2>1 DEF ServerOK, Boxes
  <2> DEFINE r == [task[t] EXCEPT !.at = "ask"]
  <2>3. task' = [task EXCEPT ![t] = r]
    BY <2>1
  <2>4. r \in GoodTasks
    BY <1>2, <2>1 DEF GoodTasks
  <2>5. TasksOK'
    <3> HIDE DEF r
    <3> QED
      BY <1>1, <2>3, <2>4, TaskTurns
  <2> QED
    BY <1>1, <2>1, <2>2, <2>5, ClientStepKeeps DEF ServerOK
<1>5. CASE Told(t)
  <2>1. TasksOK'
    BY <1>1, <1>5, IdleIsGood, TaskTurns DEF Told
  <2> QED
    BY <1>1, <1>2, <1>5, <2>1, ClientStepKeeps DEF Told, ServerOK
<1> QED
  BY <1>4, <1>5

-----------------------------------------------------------------------------
(* The steps of recover_gaps().                                            *)

Recoveries == [at : {"off", "top", "asked", "final", "over"},
               box : Boxes, pts : Nat, prev : Nat]

\* The next box starts at its state, with nothing of it queued yet.
LEMMA NextStateOK ==
    ASSUME NEW todo \in SUBSET Boxes, NextState(todo, states'),
           pts \in [Boxes -> Nat], states' \in [Boxes -> Nat],
           \A b \in Boxes : states'[b] <= pts[b],
           \A e \in Behind' : e[1] \in todo
    PROVE  /\ recovery' \in Recoveries
           /\ recovery'.pts <= pts[recovery'.box]
           /\ rest' \subseteq Boxes
           /\ recovery'.at \in {"top", "over"}
           /\ recovery'.at = "top" => BoxOK'
           /\ recovery'.at = "over" => Behind' = {}
<1>1. CASE todo = {}
  <2>1. /\ recovery' = [at |-> "over", box |-> Common, pts |-> 0, prev |-> 0]
        /\ rest' = {}
    BY <1>1 DEF NextState, NotRecovering
  <2>2. Common \in Boxes /\ Behind' = {}
    BY <1>1 DEF Boxes
  <2> QED
    BY <2>1, <2>2 DEF Recoveries
<1>2. CASE todo # {}
  <2>1. PICK b \in todo :
           /\ recovery' = [at |-> "top", box |-> b, pts |-> states'[b], prev |-> 0]
           /\ rest' = todo \ {b}
    BY <1>2 DEF NextState
  <2>2. Between(b, states'[b], states'[b]) = {}
    BY DEF Between
  <2>3. BoxOK'
    BY <2>1, <2>2 DEF BoxOK
  <2> QED
    BY <2>1, <2>3 DEF Recoveries
<1> QED
  BY <1>1, <1>2

LEMMA RecoveryFacts ==
    ASSUME IInv, recovery.at \in {"top", "asked", "final"}
    PROVE  /\ recovery \in Recoveries /\ recovery.pts <= pts[recovery.box]
           /\ recovery.box \in Boxes /\ recovery.pts \in Nat
           /\ pts[recovery.box] \in Nat /\ states[recovery.box] \in Nat
           /\ phase = "running" /\ BoxOK
BY DEF IInv, RecoveryOK, ServerOK, Recoveries, NotRecovering, Phases

\* A step of recover_gaps() that reads no new states.
LEMMA RecoverStepKeeps ==
    ASSUME IInv, recovery.at \in {"top", "asked", "final"},
           UNCHANGED <<pts, pipe, phase, task, states, pending>>,
           queue \subseteq queue', queue' \subseteq Happened,
           stored' \in [Boxes -> Nat], \A b \in Boxes : stored'[b] <= pts[b],
           recovery' \in Recoveries, recovery'.pts <= pts[recovery'.box],
           rest' \subseteq Boxes, recovery'.at # "off",
           recovery'.at \in {"top", "asked", "final"} => BoxOK',
           recovery'.at = "final" => \A e \in Behind' : e[1] # recovery'.box,
           recovery'.at = "over" => Behind' = {}
    PROVE  IInv'
<1> USE DEF IInv
<1>1. phase = "running"
  BY RecoveryFacts
<1>2. Happened' = Happened
  BY DEF Happened
<1>3. ServerOK'
  BY <1>2 DEF ServerOK
<1>4. TasksOK'
  BY <1>2 DEF TasksOK, GoodTasks
<1>5. RecoveryOK'
  BY <1>1, <1>2 DEF RecoveryOK, Recoveries
<1> QED
  BY <1>3, <1>4, <1>5

\* The same box goes on from local_pts or further, at the end of what it queued.
LEMMA SameBoxKeeps ==
    ASSUME IInv, recovery.at \in {"top", "asked", "final"},
           UNCHANGED <<pts, pipe, phase, task, states, rest, pending>>,
           stored' \in [Boxes -> Nat], \A b \in Boxes : stored'[b] <= pts[b],
           gaveUp \subseteq gaveUp',
           recovery' \in Recoveries, recovery'.box = recovery.box,
           recovery'.at \in {"top", "asked", "final"},
           NEW to \in recovery.pts .. pts[recovery.box], recovery'.pts = to,
           queue' = queue \cup Between(recovery.box, recovery.pts, to),
           recovery'.at = "final" => to = pts[recovery.box] \/ recovery.box \in gaveUp'
    PROVE  IInv'
<1> DEFINE box == recovery.box
<1>1. /\ box \in Boxes /\ recovery.pts \in Nat /\ pts[box] \in Nat /\ states[box] \in Nat
      /\ BoxOK /\ ServerOK
  BY RecoveryFacts DEF IInv
<1>2. Between(box, recovery.pts, to) \subseteq Happened
  BY <1>1, BetweenHappened
<1>3. queue \subseteq queue' /\ queue' \subseteq Happened
  BY <1>1, <1>2 DEF ServerOK
<1>4. Behind' \subseteq Behind
  BY <1>3, BehindShrinks
<1>5. Between(box, states[box], to) \subseteq queue'
  <2>1. ASSUME NEW e \in Between(box, states[box], to) PROVE e \in queue'
    <3>1. PICK n \in states[box] + 1 .. to : e = <<box, n>>
      BY <2>1 DEF Between
    <3>2. CASE n <= recovery.pts
      <4>1. e \in Between(box, states[box], recovery.pts)
        BY <1>1, <3>1, <3>2 DEF Between
      <4> QED
        BY <1>1, <4>1 DEF BoxOK
    <3>3. CASE n > recovery.pts
      <4>1. e \in Between(box, recovery.pts, to)
        BY <1>1, <3>1, <3>3 DEF Between
      <4> QED
        BY <4>1
    <3> QED
      BY <1>1, <3>1, <3>2, <3>3
  <2> QED
    BY <2>1
<1>6. BoxOK'
  BY <1>1, <1>4, <1>5 DEF BoxOK
<1>7. ASSUME recovery'.at = "final", NEW e \in Behind' PROVE e[1] # box
  <2>1. SUFFICES ASSUME e[1] = box PROVE FALSE
    OBVIOUS
  <2>2. e \in Happened /\ e \notin queue' /\ box \notin gaveUp' /\ e[2] > states[box]
    BY <1>7, <2>1 DEF Behind, IInv, RecoveryOK
  <2>3. to = pts[box]
    BY <1>7, <2>2
  <2>4. e = <<box, e[2]>> /\ e[2] \in 1 .. pts[box]
    BY <1>1, <2>1, <2>2, EventHappened
  <2>5. e \in Between(box, states[box], to)
    BY <1>1, <2>2, <2>3, <2>4 DEF Between
  <2> QED
    BY <1>5, <2>2, <2>5
<1>8. rest' \subseteq Boxes /\ recovery'.pts <= pts[recovery'.box]
  BY <1>1 DEF IInv, RecoveryOK
<1> QED
  BY <1>3, <1>6, <1>7, <1>8, RecoverStepKeeps

LEMMA BetweenNone == \A b, n : n \in Nat => Between(b, n, n) = {}
BY DEF Between

\* Nothing is queued.
LEMMA SamePtsKeeps ==
    ASSUME IInv, recovery.at \in {"top", "asked", "final"},
           UNCHANGED <<pts, pipe, queue, phase, task, states, rest, pending>>,
           stored' \in [Boxes -> Nat], \A b \in Boxes : stored'[b] <= pts[b],
           gaveUp \subseteq gaveUp',
           NEW a \in {"top", "asked", "final"}, recovery' = [recovery EXCEPT !.at = a],
           a = "final" => recovery.pts = pts[recovery.box] \/ recovery.box \in gaveUp'
    PROVE  IInv'
<1>1. /\ recovery \in Recoveries /\ recovery.pts <= pts[recovery.box]
      /\ recovery.pts \in Nat /\ pts[recovery.box] \in Nat
  BY RecoveryFacts
<1>2. Between(recovery.box, recovery.pts, recovery.pts) = {}
  BY <1>1, BetweenNone
<1>3. recovery.pts \in recovery.pts .. pts[recovery.box]
  BY <1>1
<1>4. /\ recovery' \in Recoveries /\ recovery'.box = recovery.box
      /\ recovery'.at = a /\ recovery'.pts = recovery.pts
  BY <1>1 DEF Recoveries
<1>5. queue' = queue \cup Between(recovery.box, recovery.pts, recovery.pts)
  BY <1>2
<1> QED
  BY <1>3, <1>4, <1>5, SameBoxKeeps

LEMMA AsksKeeps ==
    ASSUME IInv, Asks \/ Refused \/ Empty \/ TooLong
    PROVE  IInv'
<1>1. recovery.at \in {"top", "asked", "final"}
  BY DEF Asks, Refused, Empty, TooLong
<1>2. UNCHANGED <<pts, pipe, queue, phase, task, states, rest, pending>>
  BY DEF Asks, Refused, Empty, TooLong, server, ghosts
<1>3. /\ recovery.box \in Boxes /\ recovery.pts \in Nat
      /\ pts[recovery.box] \in Nat /\ recovery.pts <= pts[recovery.box]
  BY <1>1, RecoveryFacts
<1>4. stored \in [Boxes -> Nat] /\ \A b \in Boxes : pts[b] \in Nat /\ stored[b] <= pts[b]
  BY DEF IInv, ServerOK
<1>5. stored' \in [Boxes -> Nat] /\ \A b \in Boxes : stored'[b] <= pts[b]
  <2>1. \/ stored' = stored
        \/ stored' = [stored EXCEPT ![recovery.box] = recovery.pts]
        \/ stored' = [stored EXCEPT ![recovery.box] = pts[recovery.box]]
    BY DEF Asks, Refused, Empty, TooLong
  <2> QED
    BY <1>3, <1>4, <2>1
<1>6. gaveUp \subseteq gaveUp'
  BY DEF Asks, Refused, Empty, TooLong
<1>7. \E a \in {"top", "asked", "final"} :
         /\ recovery' = [recovery EXCEPT !.at = a]
         /\ a = "final" => recovery.pts = pts[recovery.box] \/ recovery.box \in gaveUp'
  BY DEF Asks, Refused, Empty, TooLong
<1> QED
  BY <1>1, <1>2, <1>5, <1>6, <1>7, SamePtsKeeps

LEMMA RecordAdvances ==
    ASSUME NEW A, NEW B, NEW r \in [at : A, box : B, pts : Nat, prev : Nat],
           NEW to \in Nat, NEW a \in A
    PROVE  /\ [r EXCEPT !.at = a, !.pts = to] \in [at : A, box : B, pts : Nat, prev : Nat]
           /\ [r EXCEPT !.at = a, !.pts = to].at = a
           /\ [r EXCEPT !.at = a, !.pts = to].pts = to
           /\ [r EXCEPT !.at = a, !.pts = to].box = r.box
           /\ [r EXCEPT !.at = a, !.pts = to, !.prev = to]
                 \in [at : A, box : B, pts : Nat, prev : Nat]
           /\ [r EXCEPT !.at = a, !.pts = to, !.prev = to].at = a
           /\ [r EXCEPT !.at = a, !.pts = to, !.prev = to].pts = to
           /\ [r EXCEPT !.at = a, !.pts = to, !.prev = to].box = r.box
OBVIOUS

LEMMA RecoveryAdvances ==
    ASSUME recovery \in Recoveries, NEW to \in Nat, NEW a \in {"top", "final"},
           \/ recovery' = [recovery EXCEPT !.at = a, !.pts = to]
           \/ recovery' = [recovery EXCEPT !.at = a, !.pts = to, !.prev = to]
    PROVE  /\ recovery' \in Recoveries /\ recovery'.at = a
           /\ recovery'.pts = to /\ recovery'.box = recovery.box
<1> DEFINE A == {"off", "top", "asked", "final", "over"}
<1>1. recovery \in [at : A, box : Boxes, pts : Nat, prev : Nat] /\ a \in A
  BY DEF Recoveries
<1> HIDE DEF A
<1>2. /\ recovery' \in [at : A, box : Boxes, pts : Nat, prev : Nat] /\ recovery'.at = a
      /\ recovery'.pts = to /\ recovery'.box = recovery.box
  <2> DEFINE r2 == [recovery EXCEPT !.at = a, !.pts = to]
             r3 == [recovery EXCEPT !.at = a, !.pts = to, !.prev = to]
  <2>1. /\ r2 \in [at : A, box : Boxes, pts : Nat, prev : Nat]
        /\ r2.at = a /\ r2.pts = to /\ r2.box = recovery.box
        /\ r3 \in [at : A, box : Boxes, pts : Nat, prev : Nat]
        /\ r3.at = a /\ r3.pts = to /\ r3.box = recovery.box
    BY <1>1, RecordAdvances
  <2>2. recovery' = r2 \/ recovery' = r3
    OBVIOUS
  <2> HIDE DEF r2, r3
  <2> QED
    BY <2>1, <2>2
<1> QED
  BY <1>2 DEF A, Recoveries

LEMMA SliceKeeps ==
    ASSUME IInv, Slice
    PROVE  IInv'
<1>1. /\ recovery.at \in {"top", "asked", "final"}
      /\ UNCHANGED <<pts, pipe, stored, phase, task, states, rest, pending>>
  BY DEF Slice, server, ghosts
<1>2. PICK to \in recovery.pts .. pts[recovery.box] - 1 :
         \/ /\ recovery' = [recovery EXCEPT !.at = "final"]
            /\ gaveUp' = gaveUp \cup {recovery.box}
            /\ queue' = queue
         \/ /\ queue' = queue \cup Between(recovery.box, recovery.pts, to)
            /\ recovery' = [recovery EXCEPT !.at = "top", !.pts = to, !.prev = to]
            /\ gaveUp' = gaveUp
  BY DEF Slice
<1>3. stored' \in [Boxes -> Nat] /\ \A b \in Boxes : stored'[b] <= pts[b]
  BY <1>1 DEF IInv, ServerOK
<1>4. /\ recovery \in Recoveries /\ recovery.pts \in Nat
      /\ pts[recovery.box] \in Nat /\ recovery.pts <= pts[recovery.box]
  BY <1>1, RecoveryFacts
<1>5. CASE /\ recovery' = [recovery EXCEPT !.at = "final"]
           /\ gaveUp' = gaveUp \cup {recovery.box}
           /\ queue' = queue
  BY <1>1, <1>3, <1>5, SamePtsKeeps
<1>6. CASE /\ queue' = queue \cup Between(recovery.box, recovery.pts, to)
           /\ recovery' = [recovery EXCEPT !.at = "top", !.pts = to, !.prev = to]
           /\ gaveUp' = gaveUp
  <2>1. to \in Nat /\ to \in recovery.pts .. pts[recovery.box]
    BY <1>4
  <2>2. /\ recovery' \in Recoveries /\ recovery'.at = "top"
        /\ recovery'.pts = to /\ recovery'.box = recovery.box
    BY <1>4, <1>6, <2>1, RecoveryAdvances
  <2> QED
    BY <1>1, <1>3, <1>6, <2>1, <2>2, SameBoxKeeps
<1> QED
  BY <1>2, <1>5, <1>6

LEMMA DifferenceKeeps ==
    ASSUME IInv, Difference
    PROVE  IInv'
<1>1. /\ recovery.at \in {"top", "asked", "final"}
      /\ UNCHANGED <<pts, pipe, stored, phase, task, states, rest, pending>>
  BY DEF Difference, server, ghosts
<1>2. PICK to \in recovery.pts + 1 .. pts[recovery.box] :
         /\ queue' = queue \cup Between(recovery.box, recovery.pts, to)
         /\ recovery' = [recovery EXCEPT !.at = "final", !.pts = to]
         /\ gaveUp' = IF to < pts[recovery.box] THEN gaveUp \cup {recovery.box} ELSE gaveUp
  BY DEF Difference
<1>3. stored' \in [Boxes -> Nat] /\ \A b \in Boxes : stored'[b] <= pts[b]
  BY <1>1 DEF IInv, ServerOK
<1>4. /\ recovery \in Recoveries /\ recovery.pts \in Nat
      /\ pts[recovery.box] \in Nat /\ recovery.pts <= pts[recovery.box]
  BY <1>1, RecoveryFacts
<1>5. to \in Nat /\ to \in recovery.pts .. pts[recovery.box]
  BY <1>4
<1>6. /\ recovery' \in Recoveries /\ recovery'.at = "final"
      /\ recovery'.pts = to /\ recovery'.box = recovery.box
  BY <1>2, <1>4, <1>5, RecoveryAdvances
<1>7. gaveUp \subseteq gaveUp' /\ (to = pts[recovery.box] \/ recovery.box \in gaveUp')
  BY <1>2, <1>4, <1>5
<1> QED
  BY <1>1, <1>2, <1>3, <1>5, <1>6, <1>7, SameBoxKeeps

LEMMA FinalKeeps ==
    ASSUME IInv, Final
    PROVE  IInv'
<1>1. /\ recovery.at = "final"
      /\ UNCHANGED <<pts, pipe, queue, phase, task, states, gaveUp, pending>>
      /\ stored' = [stored EXCEPT ![recovery.box] = recovery.pts]
      /\ NextState(rest, states')
  BY DEF Final, server, ghosts
<1>2. /\ recovery.box \in Boxes /\ recovery.pts \in Nat
      /\ recovery.pts <= pts[recovery.box] /\ BoxOK
  BY <1>1, RecoveryFacts
<1>3. /\ stored \in [Boxes -> Nat] /\ \A b \in Boxes : stored[b] <= pts[b]
      /\ states' \in [Boxes -> Nat] /\ \A b \in Boxes : states'[b] <= pts[b]
      /\ pts \in [Boxes -> Nat] /\ queue' \subseteq Happened
  BY <1>1 DEF IInv, ServerOK
<1>4. stored' \in [Boxes -> Nat] /\ \A b \in Boxes : stored'[b] <= pts[b]
  BY <1>1, <1>2, <1>3
<1>5. Behind' = Behind
  BY <1>1 DEF Behind
<1>6. \A e \in Behind' : e[1] \in rest
  BY <1>1, <1>2, <1>5 DEF BoxOK, IInv, RecoveryOK
<1>7. rest \in SUBSET Boxes
  BY DEF IInv, RecoveryOK
<1>8. /\ recovery' \in Recoveries
      /\ recovery'.pts <= pts[recovery'.box]
      /\ rest' \subseteq Boxes
      /\ recovery'.at \in {"top", "over"}
      /\ recovery'.at = "top" => BoxOK'
      /\ recovery'.at = "over" => Behind' = {}
  BY <1>1, <1>3, <1>6, <1>7, NextStateOK
<1> QED
  BY <1>1, <1>3, <1>4, <1>8, RecoverStepKeeps

-----------------------------------------------------------------------------
(* The client comes up and goes down.                                      *)

LEMMA StartsKeeps ==
    ASSUME IInv, Starts
    PROVE  IInv'
<1> DEFINE todo == {b \in Boxes : stored[b] > 0}
<1>1. /\ phase = "connected" /\ phase' = "running"
      /\ states' = stored
      /\ NextState(todo, states')
      /\ UNCHANGED <<pts, pipe, stored, queue, task, gaveUp, pending>>
  BY DEF Starts, server, ghosts
<1>2. /\ pts \in [Boxes -> Nat] /\ states' \in [Boxes -> Nat]
      /\ \A b \in Boxes : states'[b] <= pts[b]
  BY <1>1 DEF IInv, ServerOK
<1>3. \A e \in Behind' : e[1] \in todo
  BY <1>1, EventHappened DEF Behind, IInv, RecoveryOK
<1>4. todo \in SUBSET Boxes
  OBVIOUS
<1>5. /\ recovery' \in Recoveries
      /\ recovery'.pts <= pts[recovery'.box]
      /\ rest' \subseteq Boxes
      /\ recovery'.at \in {"top", "over"}
      /\ recovery'.at = "top" => BoxOK'
      /\ recovery'.at = "over" => Behind' = {}
  <2> HIDE DEF todo
  <2> QED
    BY <1>1, <1>2, <1>3, <1>4, NextStateOK
<1>6. Happened' = Happened
  BY <1>1 DEF Happened
<1>7. ServerOK'
  BY <1>1, <1>2, <1>6 DEF IInv, ServerOK, Phases
<1>8. TasksOK'
  BY <1>1, <1>6 DEF IInv, TasksOK, GoodTasks
<1>9. RecoveryOK'
  BY <1>1, <1>5, <1>6 DEF IInv, RecoveryOK, Recoveries
<1> QED
  BY <1>7, <1>8, <1>9 DEF IInv

LEMMA ConnectsKeeps ==
    ASSUME IInv, Connects
    PROVE  IInv'
<1>1. /\ phase = "down" /\ phase' = "connected"
      /\ pending' = UNION {Between(b, stored[b], pts[b]) : b \in {c \in Boxes : stored[c] > 0}}
      /\ states' = [b \in Boxes |-> 0]
      /\ UNCHANGED <<pts, pipe, stored, queue, task, recovery, rest>>
  BY DEF Connects, server
<1>2. Happened' = Happened
  BY <1>1 DEF Happened
<1>3. ServerOK'
  BY <1>1, <1>2 DEF IInv, ServerOK, Phases
<1>4. TasksOK'
  BY <1>1, <1>2 DEF IInv, TasksOK, GoodTasks
<1>5. recovery' = NotRecovering
  BY <1>1 DEF IInv, RecoveryOK
<1>6. ASSUME NEW e \in pending'
      PROVE  e \in Happened /\ stored[e[1]] > 0
  <2>1. PICK b \in Boxes : stored[b] > 0 /\ e \in Between(b, stored[b], pts[b])
    BY <1>1, <1>6
  <2>2. stored[b] \in Nat /\ pts[b] \in Nat
    BY DEF IInv, ServerOK
  <2>3. e \in Happened
    BY <2>1, <2>2, BetweenHappened DEF IInv
  <2>4. e[1] = b
    BY <2>1 DEF Between
  <2> QED
    BY <2>1, <2>3, <2>4
<1>7. RecoveryOK'
  BY <1>1, <1>2, <1>5, <1>6 DEF IInv, RecoveryOK, NotRecovering
<1> QED
  BY <1>3, <1>4, <1>7 DEF IInv

LEMMA DownKeeps ==
    ASSUME IInv, Down
    PROVE  IInv'
<1>1. /\ UNCHANGED <<pts, stored, states>>
      /\ pipe' = {} /\ queue' = {} /\ phase' = "down" /\ rest' = {} /\ pending' = {}
      /\ recovery' = NotRecovering /\ task' = [t \in Tasks |-> Idle]
  BY DEF Down
<1>2. ServerOK'
  BY <1>1 DEF IInv, ServerOK, Phases
<1>3. TasksOK'
  <2>1. GoodTasks' = GoodTasks
    BY <1>1 DEF GoodTasks, Happened
  <2> QED
    BY <1>1, <2>1, IdleIsGood DEF TasksOK
<1>4. RecoveryOK'
  <2>1. Common \in Boxes /\ pts'[Common] \in Nat
    BY <1>2 DEF ServerOK, Boxes
  <2> QED
    BY <1>1, <2>1 DEF RecoveryOK, NotRecovering
<1> QED
  BY <1>2, <1>3, <1>4 DEF IInv

-----------------------------------------------------------------------------
(* IInv is kept.                                                           *)

LEMMA IInvKept == IInv /\ [Next]_vars => IInv'
<1> SUFFICES ASSUME IInv, [Next]_vars PROVE IInv'
  OBVIOUS
<1>1. CASE UNCHANGED vars
  <2>1. UNCHANGED <<pts, stored, pipe, queue, phase, task, recovery, states, rest,
                    gaveUp, pending>>
    BY <1>1 DEF vars, recovering, ghosts
  <2>2. Happened' = Happened /\ Behind' = Behind
    BY <2>1 DEF Happened, Behind
  <2>3. ServerOK'
    BY <2>1, <2>2 DEF IInv, ServerOK
  <2>4. TasksOK'
    BY <2>1, <2>2 DEF IInv, TasksOK, GoodTasks
  <2>5. RecoveryOK'
    BY <2>1, <2>2 DEF IInv, RecoveryOK, BoxOK, Between
  <2> QED
    BY <2>3, <2>4, <2>5 DEF IInv
<1>2. ASSUME NEW b \in Boxes, Occurs(b) PROVE IInv'
  BY <1>2, OccursKeeps
<1>3. ASSUME NEW e \in Events, Lost(e) PROVE IInv'
  BY <1>3, LostKeeps
<1>4. ASSUME NEW t \in Tasks, Received(t) PROVE IInv'
  BY <1>4, ReceivedKeeps
<1>5. ASSUME NEW t \in Tasks, Handle(t) PROVE IInv'
  BY <1>5, PeersKeeps, StoresKeeps, ShortKeeps DEF Handle
<1>6. ASSUME NEW t \in Tasks, Fails(t) PROVE IInv'
  BY <1>6, FailsKeeps
<1>7. CASE Recover \/ Refused
  BY <1>7, AsksKeeps, SliceKeeps, DifferenceKeeps, FinalKeeps DEF Recover
<1>8. CASE Connects \/ Starts \/ Down
  BY <1>8, ConnectsKeeps, StartsKeeps, DownKeeps
<1> QED
  BY <1>1, <1>2, <1>3, <1>4, <1>5, <1>6, <1>7, <1>8 DEF Next

LEMMA Invariant == Spec => []IInv
BY IInvAtInit, IInvKept, PTL DEF Spec

-----------------------------------------------------------------------------
(* The rows and the queue, given IInv.                                     *)

\* What a task has done of its batch is in the queue; it stores when all is.
QueuedOK ==
    \A t \in Tasks :
        /\ task[t].at \in {"peers", "fetch", "store"} =>
              \A i \in 1 .. task[t].done : task[t].batch[i] \in queue
        /\ task[t].at = "store" => task[t].done = Len(task[t].batch)

\* What the client had missed of box b is dispatched, above the row p or below the state.
Above(b, p) ==
    \A e \in pending : e[1] = b => e \in queue \/ e[2] > p \/ e[2] <= states[b]

AtWork(b) == recovery.box = b /\ recovery.at \in {"top", "asked", "final"}

RowOK(b) ==
    /\ \/ writer[b] \in {"batch", "short"}
       \/ writer[b] = "toolong" /\ AtWork(b)
       \/ Above(b, stored[b])
    /\ writer[b] = "toolong" => AtWork(b)
    /\ writer[b] = "batch" => <<b, stored[b]>> \in queue

RInv ==
    /\ writer \in [Boxes -> Writers]
    /\ QueuedOK
    /\ \A b \in Boxes : RowOK(b)

\* The queue grows, and the tasks stay or one of them turns to what is queued.
LEMMA QueuedGrows ==
    ASSUME QueuedOK, queue \subseteq queue', task' = task
    PROVE  QueuedOK'
BY DEF QueuedOK

LEMMA QueuedTurns ==
    ASSUME QueuedOK, TasksOK, queue \subseteq queue', NEW t \in Tasks, NEW r,
           task' = [task EXCEPT ![t] = r],
           r.at \in {"peers", "fetch", "store"} => \A i \in 1 .. r.done : r.batch[i] \in queue',
           r.at = "store" => r.done = Len(r.batch)
    PROVE  QueuedOK'
<1>1. task'[t] = r /\ \A u \in Tasks \ {t} : task'[u] = task[u]
  BY DEF TasksOK
<1>2. ASSUME NEW u \in Tasks
      PROVE  /\ task'[u].at \in {"peers", "fetch", "store"} =>
                   \A i \in 1 .. task'[u].done : task'[u].batch[i] \in queue'
             /\ task'[u].at = "store" => task'[u].done = Len(task'[u].batch)
  <2>1. CASE u = t
    BY <1>1, <2>1
  <2>2. CASE u # t
    BY <1>1, <2>2 DEF QueuedOK
  <2> QED
    BY <2>1, <2>2
<1> QED
  BY <1>2 DEF QueuedOK

LEMMA IdleTurns ==
    ASSUME QueuedOK, TasksOK, queue \subseteq queue', NEW t \in Tasks,
           task' = [task EXCEPT ![t] = Idle]
    PROVE  QueuedOK'
<1>1. Idle.at = "idle"
  BY DEF Idle
<1> QED
  BY <1>1, QueuedTurns

\* Steps that write no row.
LEMMA RowsStay ==
    ASSUME RInv, UNCHANGED <<writer, stored, recovery, states, pending>>,
           queue \subseteq queue', QueuedOK'
    PROVE  RInv'
BY DEF RInv, RowOK, Above, AtWork

LEMMA RunsKeepQueued ==
    ASSUME IInv, RInv, NEW t \in Tasks, NEW from \in Nat, Runs(t, from),
           task[t].at \in {"peers", "fetch"}
    PROVE  queue \subseteq queue' /\ QueuedOK'
<1> DEFINE b == task[t].batch
<1>1. PICK n \in from .. Len(b) :
          /\ queue' = queue \cup {b[i] : i \in (task[t].done + 1) .. n}
          /\ task' = [task EXCEPT ![t].done = n,
                                  ![t].at = IF n < Len(b) THEN "fetch" ELSE "store"]
  BY DEF Runs
<1>2. task[t] \in GoodTasks /\ task[t].done \in Nat /\ Len(b) \in Nat
  BY TaskIsGood DEF IInv
<1> DEFINE next == IF n < Len(b) THEN "fetch" ELSE "store"
           r == [task[t] EXCEPT !.done = n, !.at = next]
<1>3. r.at = next /\ r.done = n /\ r.batch = b
  BY <1>2 DEF GoodTasks
<1>4. task' = [task EXCEPT ![t] = r]
  BY <1>1 DEF IInv, TasksOK
<1>5. n \in Nat /\ n <= Len(b)
  BY <1>2
<1>6. next = "store" => n = Len(b)
  BY <1>2, <1>5
<1>7. ASSUME NEW i \in 1 .. n PROVE b[i] \in queue'
  <2>1. CASE i <= task[t].done
    <3>1. i \in 1 .. task[t].done
      BY <1>2, <1>5, <2>1
    <3> QED
      BY <1>1, <3>1 DEF RInv, QueuedOK
  <2>2. CASE ~(i <= task[t].done)
    <3>1. i \in (task[t].done + 1) .. n
      BY <1>2, <1>5, <2>2
    <3> QED
      BY <1>1, <3>1
  <2> QED
    BY <2>1, <2>2
<1>8. queue \subseteq queue'
  BY <1>1
<1>9. QueuedOK'
  <2> HIDE DEF r, next
  <2> QED
    BY <1>3, <1>4, <1>6, <1>7, <1>8, QueuedTurns DEF IInv, RInv
<1> QED
  BY <1>8, <1>9

LEMMA LiveKeepsRows ==
    ASSUME IInv, RInv, NEW t \in Tasks,
           Received(t) \/ Peers(t) \/ Fetched(t) \/ Told(t) \/ Fails(t)
    PROVE  RInv'
<1>1. UNCHANGED <<writer, stored, recovery, states, pending>>
  BY DEF Received, Peers, Fetched, Told, Fails, recovering, ghosts
<1>2. queue \subseteq queue' /\ QueuedOK'
  <2>1. CASE Received(t)
    <3>1. PICK n \in 1 .. BatchSize : \E batch \in [1 .. n -> pipe] :
             \/ /\ task' = [task EXCEPT ![t] =
                              [at |-> "peers", batch |-> batch, done |-> 0,
                               left |-> {batch[i][1] : i \in 1 .. n}]]
                /\ queue' = queue
             \/ /\ task' = [task EXCEPT ![t] =
                              [at |-> "state", batch |-> batch, done |-> 0, left |-> {}]]
                /\ queue' = queue
             \/ queue' = queue \cup {batch[1]} /\ task' = task
      BY <2>1 DEF Received
    <3>2. PICK batch \in [1 .. n -> pipe] :
             \/ /\ task' = [task EXCEPT ![t] =
                              [at |-> "peers", batch |-> batch, done |-> 0,
                               left |-> {batch[i][1] : i \in 1 .. n}]]
                /\ queue' = queue
             \/ /\ task' = [task EXCEPT ![t] =
                              [at |-> "state", batch |-> batch, done |-> 0, left |-> {}]]
                /\ queue' = queue
             \/ queue' = queue \cup {batch[1]} /\ task' = task
      BY <3>1
    <3>3. CASE queue' = queue \cup {batch[1]} /\ task' = task
      BY <3>3, QueuedGrows DEF RInv
    <3>4. ASSUME queue' = queue, NEW a \in {"peers", "state"}, NEW L,
                 task' = [task EXCEPT ![t] = [at |-> a, batch |-> batch, done |-> 0, left |-> L]]
          PROVE  QueuedOK'
      <4> DEFINE q == [at |-> a, batch |-> batch, done |-> 0, left |-> L]
      <4>1. q.at # "store" /\ 1 .. q.done = {}
        BY <3>4
      <4>2. task' = [task EXCEPT ![t] = q] /\ queue \subseteq queue'
        BY <3>4
      <4> HIDE DEF q
      <4> QED
        BY <4>1, <4>2, QueuedTurns DEF IInv, RInv
    <3>5. QueuedOK' /\ queue \subseteq queue'
      BY <3>2, <3>3, <3>4
    <3> QED
      BY <3>5
  <2>2. CASE Peers(t) \/ Fetched(t)
    <3>1. task[t].at \in {"peers", "fetch"}
      BY <2>2 DEF Peers, Fetched
    <3>2. \E from \in Nat : Runs(t, from)
      <4>1. task[t].done + 1 \in Nat
        BY TaskIsGood DEF IInv
      <4> QED
        BY <2>2, <4>1 DEF Peers, Fetched
    <3> QED
      BY <3>1, <3>2, RunsKeepQueued
  <2>3. CASE Told(t) \/ Fails(t)
    <3>1. queue \subseteq queue' /\ task' = [task EXCEPT ![t] = Idle]
      BY <2>3 DEF Told, Fails
    <3> QED
      BY <3>1, IdleTurns DEF IInv, RInv
  <2> QED
    BY <2>1, <2>2, <2>3
<1> QED
  BY <1>1, <1>2, RowsStay

\* A batch writes the row of an event it has queued.
LEMMA BatchKeepsRows ==
    ASSUME IInv, RInv, NEW t \in Tasks, Stores(t)
    PROVE  RInv'
<1>1. /\ UNCHANGED <<queue, recovery, states, pending>>
      /\ task[t].at = "store"
  BY DEF Stores, recovering
<1>2. PICK i \in 1 .. Len(task[t].batch) :
         LET e == task[t].batch[i]
         IN  /\ e \in Happened /\ e[1] \in task[t].left
             /\ stored' = [stored EXCEPT ![e[1]] = e[2]]
             /\ writer' = [writer EXCEPT ![e[1]] = "batch"]
             /\ task' = IF task[t].left = {e[1]} THEN [task EXCEPT ![t] = Idle]
                        ELSE [task EXCEPT ![t].left = task[t].left \ {e[1]}]
  BY BatchWrites
<1> DEFINE e == task[t].batch[i]
<1>3. e[1] \in Boxes /\ e = <<e[1], e[2]>>
  BY <1>2, EventHappened DEF IInv
<1>4. e \in queue
  BY <1>1 DEF RInv, QueuedOK
<1>5. /\ stored' = [stored EXCEPT ![e[1]] = e[2]]
      /\ writer' = [writer EXCEPT ![e[1]] = "batch"]
  BY <1>2
<1>6. QueuedOK'
  <2>1. CASE task' = [task EXCEPT ![t] = Idle]
    BY <1>1, <2>1, IdleTurns DEF IInv, RInv
  <2>2. CASE task' = [task EXCEPT ![t].left = task[t].left \ {e[1]}]
    <3> DEFINE q == [task[t] EXCEPT !.left = task[t].left \ {e[1]}]
    <3>1. task[t] \in GoodTasks
      BY TaskIsGood DEF IInv
    <3>2. q.at = "store" /\ q.done = task[t].done /\ q.batch = task[t].batch
      BY <1>1, <3>1 DEF GoodTasks
    <3>3. task' = [task EXCEPT ![t] = q]
      BY <2>2
    <3> HIDE DEF q
    <3>4. /\ \A k \in 1 .. q.done : q.batch[k] \in queue'
          /\ q.done = Len(q.batch)
      BY <1>1, <3>2 DEF RInv, QueuedOK
    <3> QED
      BY <1>1, <3>3, <3>4, QueuedTurns DEF IInv, RInv
  <2> QED
    BY <1>2, <2>1, <2>2
<1>7. writer' \in [Boxes -> Writers]
  BY <1>5 DEF RInv, Writers
<1>8. ASSUME NEW b \in Boxes PROVE RowOK(b)'
  <2> HIDE DEF e
  <2>1. CASE b = e[1]
    BY <1>1, <1>3, <1>4, <1>5, <2>1 DEF RowOK, RInv, IInv, ServerOK
  <2>2. CASE b # e[1]
    BY <1>1, <1>3, <1>5, <2>2 DEF RowOK, RInv, Above, AtWork, IInv, ServerOK
  <2> QED
    BY <2>1, <2>2
<1> QED
  BY <1>6, <1>7, <1>8 DEF RInv

LEMMA ShortKeepsRows ==
    ASSUME IInv, RInv, NEW t \in Tasks, StoresShort(t)
    PROVE  RInv'
<1>1. /\ UNCHANGED <<queue, recovery, states, pending>>
      /\ stored' = [stored EXCEPT ![Common] = task[t].batch[1][2]]
      /\ writer' = [writer EXCEPT ![Common] = "short"]
      /\ task' = [task EXCEPT ![t].at = "ask"]
  BY DEF StoresShort, recovering
<1>2. Common \in Boxes
  BY DEF Boxes
<1>3. QueuedOK'
  <2> DEFINE q == [task[t] EXCEPT !.at = "ask"]
  <2>1. task[t] \in GoodTasks
    BY TaskIsGood DEF IInv
  <2>2. q.at = "ask"
    BY <2>1 DEF GoodTasks
  <2>3. task' = [task EXCEPT ![t] = q]
    BY <1>1
  <2> HIDE DEF q
  <2> QED
    BY <1>1, <2>2, <2>3, QueuedTurns DEF IInv, RInv
<1>4. writer' \in [Boxes -> Writers]
  BY <1>1 DEF RInv, Writers
<1>5. ASSUME NEW b \in Boxes PROVE RowOK(b)'
  <2>1. CASE b = Common
    BY <1>1, <1>2, <2>1 DEF RowOK, RInv
  <2>2. CASE b # Common
    BY <1>1, <2>2 DEF RowOK, RInv, Above, AtWork, IInv, ServerOK
  <2> QED
    BY <2>1, <2>2
<1> QED
  BY <1>3, <1>4, <1>5 DEF RInv

\* From its state to local_pts, the box that recover_gaps() is at is in the queue.
LEMMA AboveLocalPts ==
    ASSUME IInv, recovery.at \in {"top", "asked", "final"}
    PROVE  Above(recovery.box, recovery.pts)
<1>1. /\ recovery.pts \in Nat /\ states[recovery.box] \in Nat
      /\ Between(recovery.box, states[recovery.box], recovery.pts) \subseteq queue
  BY RecoveryFacts DEF BoxOK
<1>2. ASSUME NEW e \in pending, e[1] = recovery.box
      PROVE  e \in queue \/ e[2] > recovery.pts \/ e[2] <= states[recovery.box]
  <2>1. e = <<recovery.box, e[2]>> /\ e[2] \in Nat
    BY <1>2, EventHappened DEF IInv, RecoveryOK, ServerOK
  <2>2. SUFFICES ASSUME ~(e[2] > recovery.pts), ~(e[2] <= states[recovery.box])
                 PROVE  e \in queue
    OBVIOUS
  <2>3. e[2] \in states[recovery.box] + 1 .. recovery.pts
    BY <1>1, <2>1, <2>2
  <2> QED
    BY <1>1, <2>1, <2>3 DEF Between
<1> QED
  BY <1>2 DEF Above

\* A step that goes on with the box and writes no row.
LEMMA SameBoxKeepsRows ==
    ASSUME RInv, UNCHANGED <<writer, stored, states, pending, task>>,
           queue \subseteq queue', recovery'.box = recovery.box,
           recovery'.at \in {"top", "asked", "final"}
    PROVE  RInv'
<1>1. QueuedOK'
  BY QueuedGrows DEF RInv
<1>2. \A b \in Boxes : RowOK(b)'
  BY DEF RInv, RowOK, Above, AtWork
<1> QED
  BY <1>1, <1>2 DEF RInv

LEMMA AskingKeepsRows ==
    ASSUME IInv, RInv, Asks \/ Refused \/ Slice \/ Difference
    PROVE  RInv'
<1>1. recovery.at \in {"top", "asked", "final"}
  BY DEF Asks, Refused, Slice, Difference
<1>2. recovery \in Recoveries
  BY <1>1, RecoveryFacts
<1>3. UNCHANGED <<writer, stored, states, pending, task>> /\ queue \subseteq queue'
  BY DEF Asks, Refused, Slice, Difference, ghosts
<1>4. recovery'.box = recovery.box /\ recovery'.at \in {"top", "asked", "final"}
  BY <1>2 DEF Asks, Refused, Slice, Difference, Recoveries
<1> QED
  BY <1>3, <1>4, SameBoxKeepsRows

LEMMA WritingKeepsRows ==
    ASSUME IInv, RInv, Empty \/ TooLong \/ Final
    PROVE  RInv'
<1>1. /\ UNCHANGED <<queue, task, states, pending>>
      /\ recovery.at \in {"top", "asked", "final"}
  BY DEF Empty, TooLong, Final
<1>0. PICK box \in Boxes : box = recovery.box
  BY <1>1, RecoveryFacts
<1>2. recovery \in Recoveries /\ Above(box, recovery.pts)
  BY <1>0, <1>1, RecoveryFacts, AboveLocalPts
<1>3. QueuedOK'
  BY <1>1, QueuedGrows DEF RInv
<1>4. \/ /\ stored' = [stored EXCEPT ![box] = recovery.pts]
         /\ writer' = [writer EXCEPT ![box] = "recovery"]
      \/ /\ writer' = [writer EXCEPT ![box] = "toolong"]
         /\ recovery'.box = box /\ recovery'.at = "top"
         /\ \A b \in Boxes \ {box} : stored'[b] = stored[b]
  BY <1>0, <1>2 DEF Empty, TooLong, Final, Recoveries, IInv, ServerOK
<1>5. writer' \in [Boxes -> Writers]
  BY <1>4 DEF RInv, Writers
<1>6. RowOK(box)'
  <2>1. CASE /\ stored' = [stored EXCEPT ![box] = recovery.pts]
             /\ writer' = [writer EXCEPT ![box] = "recovery"]
    <3>1. stored'[box] = recovery.pts /\ writer'[box] = "recovery"
      BY <1>2, <2>1 DEF RInv, IInv, ServerOK
    <3>2. Above(box, stored[box])'
      BY <1>1, <1>2, <3>1 DEF Above
    <3> QED
      BY <3>1, <3>2 DEF RowOK
  <2>2. CASE /\ writer' = [writer EXCEPT ![box] = "toolong"]
             /\ recovery'.box = box /\ recovery'.at = "top"
    BY <1>2, <2>2 DEF RowOK, AtWork, RInv
  <2> QED
    BY <1>4, <2>1, <2>2
<1>7. ASSUME NEW b \in Boxes, b # box PROVE RowOK(b)'
  <2>1. writer'[b] = writer[b] /\ stored'[b] = stored[b]
    BY <1>4, <1>7 DEF RInv, IInv, ServerOK
  <2>2. writer[b] # "toolong"
    BY <1>0, <1>7 DEF RInv, RowOK, AtWork
  <2> QED
    BY <1>1, <2>1, <2>2 DEF RInv, RowOK, Above
<1> QED
  BY <1>3, <1>5, <1>6, <1>7 DEF RInv

\* recover_gaps() is at work only while the client runs.
LEMMA ClientKeepsRows ==
    ASSUME IInv, RInv, Connects \/ Starts \/ Down
    PROVE  RInv'
<1>1. CASE Connects
  <2>1. /\ UNCHANGED <<stored, queue, task, recovery, writer>>
        /\ pending' = UNION {Between(b, stored[b], pts[b]) : b \in {c \in Boxes : stored[c] > 0}}
    BY <1>1 DEF Connects
  <2>2. QueuedOK'
    BY <2>1, QueuedGrows DEF RInv
  <2>3. ASSUME NEW e \in pending' PROVE e[2] > stored'[e[1]]
    <3>1. PICK b \in Boxes : e \in Between(b, stored[b], pts[b])
      BY <2>1
    <3>2. stored[b] \in Nat /\ pts[b] \in Nat
      BY DEF IInv, ServerOK
    <3> QED
      BY <2>1, <3>1, <3>2 DEF Between
  <2>4. \A b \in Boxes : Above(b, stored[b])'
    BY <2>3 DEF Above
  <2> QED
    BY <2>1, <2>2, <2>4 DEF RInv, RowOK, AtWork
<1>2. CASE Starts
  <2>1. /\ UNCHANGED <<stored, queue, task, pending, writer>>
        /\ states' = stored /\ phase = "connected"
    BY <1>2 DEF Starts, ghosts
  <2>2. recovery = NotRecovering
    BY <2>1 DEF IInv, RecoveryOK
  <2>3. QueuedOK'
    BY <2>1, QueuedGrows DEF RInv
  <2>4. \A b \in Boxes : writer[b] # "toolong"
    BY <2>2 DEF RInv, RowOK, AtWork, NotRecovering
  <2>5. ASSUME NEW b \in Boxes PROVE Above(b, stored[b])'
    <3>1. \A e \in pending' : e[1] = b => e[2] \in Nat
      BY <2>1, EventHappened DEF IInv, RecoveryOK, ServerOK
    <3>2. stored[b] \in Nat
      BY DEF IInv, ServerOK
    <3> QED
      BY <2>1, <3>1, <3>2 DEF Above
  <2> QED
    BY <2>1, <2>3, <2>4, <2>5 DEF RInv, RowOK
<1>3. CASE Down
  <2>1. /\ task' = [t \in Tasks |-> Idle]
        /\ writer' = [b \in Boxes |-> "recovery"] /\ pending' = {}
    BY <1>3 DEF Down
  <2>2. QueuedOK'
    BY <2>1 DEF QueuedOK, Idle
  <2> QED
    BY <2>1, <2>2 DEF RInv, RowOK, Above, Writers
<1> QED
  BY <1>1, <1>2, <1>3

LEMMA RInvAtInit == Init => RInv
<1> SUFFICES ASSUME Init PROVE RInv
  OBVIOUS
<1>1. QueuedOK
  BY DEF Init, QueuedOK, Idle
<1> QED
  BY <1>1 DEF Init, RInv, RowOK, Above, Writers

LEMMA RInvKept == IInv /\ RInv /\ [Next]_vars => RInv'
<1> SUFFICES ASSUME IInv, RInv, [Next]_vars PROVE RInv'
  OBVIOUS
<1>1. CASE UNCHANGED vars
  <2>1. UNCHANGED <<stored, queue, task, recovery, states, pending, writer>>
    BY <1>1 DEF vars, recovering, ghosts
  <2> QED
    BY <2>1, QueuedGrows, RowsStay DEF RInv
<1>2. CASE (\E b \in Boxes : Occurs(b)) \/ (\E e \in Events : Lost(e))
  <2>1. UNCHANGED <<stored, queue, task, recovery, states, pending, writer>>
    BY <1>2 DEF Occurs, Lost, recovering, ghosts
  <2> QED
    BY <2>1, QueuedGrows, RowsStay DEF RInv
<1>3. ASSUME NEW t \in Tasks, Received(t) \/ Handle(t) \/ Fails(t) PROVE RInv'
  BY <1>3, LiveKeepsRows, BatchKeepsRows, ShortKeepsRows DEF Handle
<1>4. CASE Recover \/ Refused
  BY <1>4, AskingKeepsRows, WritingKeepsRows DEF Recover
<1>5. CASE Connects \/ Starts \/ Down
  BY <1>5, ClientKeepsRows
<1> QED
  BY <1>1, <1>2, <1>3, <1>4, <1>5 DEF Next

LEMMA RowsInvariant == Spec => []RInv
BY Invariant, RInvAtInit, RInvKept, PTL DEF Spec

-----------------------------------------------------------------------------
(* The theorems.                                                           *)

\* The rows of update_state hide nothing that the client had missed and not dispatched,
\* also in the boxes that recover_gaps() leaves early, but for the rows of live
\* updates and for a box whose TooLong answer it has not yet dealt with; and the
\* row of a batch of live updates is of an update that has been queued.
THEOREM RowsHideNothingAlways == Spec => []RowsHideNothing
<1>1. RInv => RowsHideNothing
  BY DEF RInv, RowOK, Above, AtWork, RowsHideNothing
<1> QED
  BY <1>1, RowsInvariant, PTL

\* recover_gaps() never moves local_pts past an event that it has not put into
\* the queue, however many tasks store live updates of the box at the same time
\* and whatever slices, refusals and TooLong answers come.
THEOREM RecoveryKeepsUpAlways == Spec => []RecoveryKeepsUp
<1>1. IInv /\ RInv => RecoveryKeepsUp
  <2> SUFFICES ASSUME IInv, RInv PROVE RecoveryKeepsUp
    OBVIOUS
  <2>1. Happened \subseteq Events
    <3>1. ASSUME NEW e \in Happened PROVE e \in Events
      <4>1. e[1] \in Boxes /\ e[2] \in 1 .. pts[e[1]] /\ e = <<e[1], e[2]>>
        BY EventHappened DEF IInv
      <4>2. pts[e[1]] \in Nat /\ MaxPts(e[1]) \in Nat /\ pts[e[1]] <= MaxPts(e[1])
        BY <4>1, MaxPtsIsNat DEF IInv, ServerOK
      <4>3. e[2] \in 1 .. MaxPts(e[1])
        BY <4>1, <4>2
      <4> QED
        BY <4>1, <4>3 DEF Events
    <3> QED
      BY <3>1
  <2>2. \A b \in Boxes : pts[b] \in 0 .. MaxPts(b) /\ stored[b] \in 0 .. pts[b]
    BY MaxPtsIsNat DEF IInv, ServerOK
  <2>3. \A t \in Tasks :
           /\ task[t].at \in {"idle", "peers", "fetch", "store", "state", "ask"}
           /\ task[t].done \in 0 .. Len(task[t].batch)
    <3>1. ASSUME NEW t \in Tasks
          PROVE  task[t].at \in {"idle", "peers", "fetch", "store", "state", "ask"}
      <4>1. task[t] \in GoodTasks
        BY DEF IInv, TasksOK
      <4> QED
        BY <4>1 DEF GoodTasks
    <3> QED
      BY <3>1, TaskIsGood DEF IInv
  <2>4. recovery.at \in {"off", "top", "asked", "final", "over"}
        /\ recovery.pts \in 0 .. pts[recovery.box]
    BY DEF IInv, ServerOK, RecoveryOK
  <2>5. pipe \subseteq Events /\ queue \subseteq Events /\ phase \in Phases
    BY <2>1 DEF IInv, ServerOK
  <2>6. TypeOK
    BY <2>2, <2>3, <2>4, <2>5 DEF TypeOK, RInv
  <2> QED
    BY <2>6 DEF RecoveryKeepsUp, IInv, RecoveryOK, BoxOK
<1> QED
  BY <1>1, Invariant, RowsInvariant, PTL

\* Once start() is over, whatever the client had missed has reached the dispatcher,
\* in so far as no live update of its box was stored before recover_gaps() read the
\* states and the box was not left early: by an error it catches, by a slice that does
\* not advance, or by a channel difference that is not the final one.
THEOREM RecoveryIsCompleteAlways == Spec => []RecoveryIsComplete
<1>1. IInv => RecoveryIsComplete
  <2> SUFFICES ASSUME IInv, recovery.at = "over", NEW e \in pending
               PROVE  e \in queue \/ e[1] \in gaveUp \/ e[2] <= states[e[1]]
    BY DEF RecoveryIsComplete
  <2>1. e \in Happened /\ e \notin Behind
    BY DEF IInv, RecoveryOK
  <2>2. e[2] \in Nat /\ states[e[1]] \in Nat
    BY <2>1, EventHappened DEF IInv, ServerOK
  <2> QED
    BY <2>1, <2>2 DEF Behind
<1> QED
  BY <1>1, Invariant, PTL
=============================================================================
