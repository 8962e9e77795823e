-------------------------- MODULE ThreadPool_proofs --------------------------
(* Proofs about ThreadPool, for every set of workers and of tasks. *)
EXTENDS ThreadPool, SequenceTheorems, TLAPS

(* The first elements of a concatenation are those of its first part. *)
LEMMA JoinedElements ==
  ASSUME NEW S, NEW a \in Seq(S), NEW b \in Seq(S)
  PROVE  /\ a \o b \in Seq(S)
         /\ Len(a \o b) = Len(a) + Len(b)
         /\ \A k \in 1 .. Len(a) : (a \o b)[k] = a[k]
         /\ \A k \in 1 .. Len(b) : (a \o b)[Len(a) + k] = b[k]
  OBVIOUS

(* emplace_back adds its element to the elements of a vector. *)
LEMMA AppendSet ==
  ASSUME NEW S, NEW s \in Seq(S), NEW c \in S
  PROVE  ToSet(Append(s, c)) = ToSet(s) \cup {c}
  <1>1. Append(s, c)[Len(s) + 1] = c
    OBVIOUS
  <1> QED BY <1>1 DEF ToSet

(* The tasks leave the queue in the order in which they entered it, none is *)
(* lost and none is taken twice, whichever threads submit and work.         *)
FifoOrder == enqueued = started \o queue

(* ThreadPool.h:68: when shutdown returns, the threads have finished their  *)
(* tasks: every task that was dequeued has been run, once.                  *)
ShutdownComplete ==
  closing = "done" =>
    \A t \in ToSet(started) : runs[t] = 1

(* Each task is enqueued at most once. *)
EnqueuedOnce ==
  /\ \A t \in Task : submit[t] = "idle" => t \notin ToSet(enqueued)
  /\ \A i, j \in 1 .. Len(enqueued) : enqueued[i] = enqueued[j] => i = j

(* What has not been dequeued is no worker's function object. *)
OnlyStartedHeld ==
  \A w \in Worker : func[w] # NoTask => func[w] \in ToSet(started)

JoinedAll == closing = "done" => \A w \in Worker : pc[w] = "exited"

PoolInv == TypeOK /\ FifoOrder /\ EnqueuedOnce /\ OnlyStartedHeld /\ RunOnce
           /\ JoinedAll

(* Two ways to move the border between two sequences. *)
LEMMA Shift ==
  ASSUME NEW S, NEW a \in Seq(S), NEW b \in Seq(S), b # << >>
  PROVE  Append(a, Head(b)) \o Tail(b) = a \o b
  OBVIOUS

(* The elements of a queue that was extended. *)
LEMMA Extend ==
  ASSUME NEW S, NEW a \in Seq(S), NEW b \in Seq(S), NEW x \in S
  PROVE  a \o Append(b, x) = Append(a \o b, x)
  OBVIOUS

(* The pool starts with every variable in its type. *)
LEMMA TypeInit == Init => TypeOK
  <1> SUFFICES ASSUME Init PROVE TypeOK
    OBVIOUS
  <1>1. \A w \in Worker : func[w] = NoTask /\ pc[w] = "top"
    BY DEF Init
  <1>2. queue \in Seq(Task) /\ enqueued \in Seq(Task) /\ started \in Seq(Task)
    BY DEF Init
  <1>3. runs \in [Task -> Nat]
    BY DEF Init
  <1> QED BY <1>1, <1>2, <1>3 DEF Init, TypeOK

(* Every step keeps the types. *)
LEMMA TypeNext ==
  ASSUME TypeOK, [Next]_vars
  PROVE  TypeOK'
  <1> USE DEF TypeOK, workerVars, Goes
  <1>1. ASSUME NEW w \in Worker, Loop(w)
        PROVE  TypeOK'
    BY <1>1 DEF Loop
  <1>2. ASSUME NEW w \in Worker, Lock(w)
        PROVE  TypeOK'
    BY <1>2 DEF Lock
  <1>3. ASSUME NEW w \in Worker, TestEmpty(w)
        PROVE  TypeOK'
    BY <1>3 DEF TestEmpty
  <1>4. ASSUME NEW w \in Worker, Wait(w)
        PROVE  TypeOK'
    BY <1>4 DEF Wait
  <1>5. ASSUME NEW w \in Worker, Relock(w)
        PROVE  TypeOK'
    BY <1>5 DEF Relock
  <1>6. ASSUME NEW w \in Worker, Dequeue(w)
        PROVE  TypeOK'
    <2>1. CASE queue # << >>
      <3>1. Head(queue) \in Task /\ Tail(queue) \in Seq(Task)
        BY <2>1
      <3>2. /\ func' = [func EXCEPT ![w] = Head(queue)]
            /\ pc[w] = "dequeue" /\ pc' = [pc EXCEPT ![w] = "run"]
            /\ queue' = Tail(queue) /\ started' = Append(started, Head(queue))
            /\ holder' = Nobody
            /\ UNCHANGED <<m_shutdown, submit, closing, enqueued, runs>>
        BY <1>6, <2>1 DEF Dequeue, FrontTask, Pop
      <3>3. \A v \in Worker : pc'[v] = "run" => func'[v] # NoTask
        BY <3>1, <3>2, NoTaskAssumption
      <3>4. started' \in Seq(Task) /\ queue' \in Seq(Task)
        BY <3>1, <3>2
      <3>5. /\ func' \in [Worker -> Task \cup {NoTask}]
            /\ pc' \in [Worker -> {"top", "lock", "test", "wait", "waiting",
                                   "woken", "dequeue", "run", "exited"}]
        BY <3>1, <3>2
      <3> QED BY <3>2, <3>3, <3>4, <3>5
    <2>2. CASE queue = << >>
      BY <1>6, <2>2 DEF Dequeue, Missed
    <2> QED BY <2>1, <2>2
  <1>7. ASSUME NEW w \in Worker, Run(w)
        PROVE  TypeOK'
    <2>1. func[w] \in Task
      BY <1>7 DEF Run
    <2> QED BY <1>7, <2>1 DEF Run
  <1>8. ASSUME NEW w \in Worker, WakeSpuriously(w)
        PROVE  TypeOK'
    BY <1>8 DEF WakeSpuriously
  <1>9. ASSUME NEW t \in Task, Enqueue(t)
        PROVE  TypeOK'
    BY <1>9 DEF Enqueue
  <1>10. ASSUME NEW t \in Task, Submitted(t)
         PROVE  TypeOK'
    BY <1>10 DEF Submitted, NotifyOne, Waiting
  <1>11. CASE Close
    BY <1>11 DEF Close, Shutdown, NotifyAll, Join, Waiting
  <1>12. CASE UNCHANGED vars
    BY <1>12 DEF vars
  <1> QED BY <1>1, <1>2, <1>3, <1>4, <1>5, <1>6, <1>7, <1>8, <1>9, <1>10, <1>11,
             <1>12 DEF Next, Work

(* Every variable keeps its type in every execution of the pool. *)
THEOREM TypeCorrect == Spec => []TypeOK
  BY TypeInit, TypeNext, PTL DEF Spec

(* The steps that touch neither the queue, nor the function objects, nor    *)
(* the histories; a worker that has exited has no step.                     *)
LEMMA ControlStep ==
  ASSUME PoolInv, TypeOK',
         UNCHANGED <<queue, func, enqueued, started, runs>>,
         \A t \in Task : submit'[t] = "idle" => submit[t] = "idle",
         \A w \in Worker : /\ pc[w] = "exited" => pc'[w] = "exited"
                           /\ pc'[w] = "run" <=> pc[w] = "run",
         closing' = "done" =>
           closing = "done" \/ \A w \in Worker : pc[w] = "exited"
  PROVE  PoolInv'
  <1>1. FifoOrder' /\ EnqueuedOnce'
    BY DEF PoolInv, FifoOrder, EnqueuedOnce
  <1>2. OnlyStartedHeld' /\ RunOnce'
    BY DEF PoolInv, OnlyStartedHeld, RunOnce
  <1>3. JoinedAll'
    BY DEF PoolInv, JoinedAll
  <1> QED BY <1>1, <1>2, <1>3 DEF PoolInv

(* Taking a task from the queue keeps the invariant. *)
LEMMA DequeueStep ==
  ASSUME PoolInv, TypeOK', NEW w \in Worker, Dequeue(w)
  PROVE  PoolInv'
  <1>1. CASE queue = << >>
    <2>1. UNCHANGED <<queue, func, enqueued, started, runs, submit, closing>>
      BY <1>1 DEF Dequeue
    <2>2. \A v \in Worker : /\ pc[v] = "exited" => pc'[v] = "exited"
                            /\ pc'[v] = "run" <=> pc[v] = "run"
      BY <1>1 DEF Dequeue, Missed, Goes, PoolInv, TypeOK
    <2> QED BY <2>1, <2>2, ControlStep
  <1>2. CASE queue # << >>
    <2> DEFINE t == Head(queue)
    <2>1. /\ queue \in Seq(Task) /\ started \in Seq(Task)
          /\ enqueued \in Seq(Task) /\ Len(queue) \in Nat /\ Len(queue) > 0
          /\ t \in Task /\ Tail(queue) \in Seq(Task) /\ queue[1] = t
      BY <1>2 DEF PoolInv, TypeOK
    <2>2. /\ func' = [func EXCEPT ![w] = t] /\ started' = Append(started, t)
          /\ queue' = Tail(queue) /\ pc[w] = "dequeue"
          /\ pc' = [pc EXCEPT ![w] = "run"]
          /\ UNCHANGED <<submit, closing, enqueued, runs>>
      BY <1>2 DEF Dequeue, FrontTask, Pop, Goes
    <2> HIDE DEF t
    <2>3. FifoOrder'
      <3>1. Append(started, Head(queue)) \o Tail(queue) = started \o queue
        BY <2>1, <1>2, Shift
      <3> QED BY <2>2, <3>1 DEF PoolInv, FifoOrder, t
    <2>4. t \notin ToSet(started)
      <3>1. enqueued = started \o queue
        BY DEF PoolInv, FifoOrder
      <3>2. /\ Len(started) \in Nat /\ Len(enqueued) = Len(started) + Len(queue)
            /\ \A k \in 1 .. Len(started) : enqueued[k] = started[k]
            /\ \A k \in 1 .. Len(queue) : enqueued[Len(started) + k] = queue[k]
        BY <2>1, <3>1, JoinedElements
      <3>3. enqueued[Len(started) + 1] = t /\ Len(started) + 1 \in 1 .. Len(enqueued)
        BY <2>1, <3>2
      <3>4. ASSUME NEW k \in 1 .. Len(started), started[k] = t
            PROVE  FALSE
        <4>1. k \in 1 .. Len(enqueued) /\ enqueued[k] = t /\ k # Len(started) + 1
          BY <3>2, <3>4, <2>1
        <4> QED BY <4>1, <3>3 DEF PoolInv, EnqueuedOnce
      <3> QED BY <3>4, <2>1 DEF ToSet
    <2>5. ToSet(started') = ToSet(started) \cup {t}
      BY <2>1, <2>2, AppendSet
    <2>6. /\ func \in [Worker -> Task \cup {NoTask}] /\ w \in Worker
          /\ \A v \in Worker : /\ v # w => pc'[v] = pc[v] /\ func'[v] = func[v]
                               /\ v = w => func'[v] = t /\ pc'[v] = "run"
      BY <2>2 DEF PoolInv, TypeOK
    <2>7. \A v \in Worker : func[v] # t
      BY <2>4, <2>1, NoTaskAssumption DEF PoolInv, OnlyStartedHeld
    <2>8. OnlyStartedHeld'
      BY <2>5, <2>6 DEF PoolInv, OnlyStartedHeld
    <2>9. ASSUME NEW s \in Task
          PROVE  LET held == {v \in Worker : pc'[v] = "run" /\ func'[v] = s}
                 IN  /\ \A u, v \in held : u = v
                     /\ runs'[s] = IF s \in ToSet(started') /\ held = {}
                                   THEN 1 ELSE 0
      <3>1. CASE s = t
        <4>1. {v \in Worker : pc'[v] = "run" /\ func'[v] = s} = {w}
          BY <3>1, <2>6, <2>7
        <4>2. runs[s] = 0
          BY <3>1, <2>4 DEF PoolInv, RunOnce
        <4> QED BY <4>1, <4>2, <2>2
      <3>2. CASE s # t
        <4>1. {v \in Worker : pc'[v] = "run" /\ func'[v] = s}
                = {v \in Worker : pc[v] = "run" /\ func[v] = s}
          BY <3>2, <2>2, <2>6
        <4> QED BY <4>1, <3>2, <2>2, <2>5 DEF PoolInv, RunOnce
      <3> QED BY <3>1, <3>2
    <2>10. RunOnce'
      BY <2>9 DEF RunOnce
    <2>11. EnqueuedOnce' /\ JoinedAll'
      BY <2>2 DEF PoolInv, EnqueuedOnce, JoinedAll
    <2> QED BY <2>3, <2>8, <2>10, <2>11 DEF PoolInv
  <1> QED BY <1>1, <1>2

(* Running a task keeps the invariant. *)
LEMMA RunStep ==
  ASSUME PoolInv, TypeOK', NEW w \in Worker, Run(w)
  PROVE  PoolInv'
  <1> DEFINE t == func[w]
  <1>1. /\ pc[w] = "run" /\ pc' = [pc EXCEPT ![w] = "top"]
        /\ runs' = [runs EXCEPT ![t] = @ + 1]
        /\ UNCHANGED <<queue, func, submit, closing, enqueued, started>>
    BY DEF Run, Goes
  <1>2. /\ t \in Task /\ t # NoTask /\ runs \in [Task -> Nat]
        /\ pc' \in [Worker -> {"top", "lock", "test", "wait", "waiting",
                               "woken", "dequeue", "run", "exited"}]
        /\ \A v \in Worker : v # w => pc'[v] = pc[v]
        /\ pc'[w] = "top"
    BY <1>1, NoTaskAssumption DEF PoolInv, TypeOK
  <1>3. FifoOrder' /\ EnqueuedOnce' /\ JoinedAll'
    BY <1>1 DEF PoolInv, FifoOrder, EnqueuedOnce, JoinedAll
  <1>4. OnlyStartedHeld'
    BY <1>1, <1>2 DEF PoolInv, OnlyStartedHeld
  <1>5. t \in ToSet(started)
    BY <1>2 DEF PoolInv, OnlyStartedHeld
  <1>6. w \in {v \in Worker : pc[v] = "run" /\ func[v] = t} /\ runs[t] = 0
    BY <1>1, <1>2 DEF PoolInv, RunOnce
  <1>7. \A v \in Worker : pc[v] = "run" /\ func[v] = t => v = w
    BY <1>1, <1>2 DEF PoolInv, RunOnce
  <1> HIDE DEF t
  <1>8. ASSUME NEW s \in Task
        PROVE  LET held == {v \in Worker : pc'[v] = "run" /\ func'[v] = s}
               IN  /\ \A u, v \in held : u = v
                   /\ runs'[s] = IF s \in ToSet(started') /\ held = {}
                                 THEN 1 ELSE 0
    <2>1. CASE s = t
      <3>1. {v \in Worker : pc'[v] = "run" /\ func'[v] = s} = {}
        BY <2>1, <1>1, <1>2, <1>7
      <3>2. runs'[s] = 1
        BY <2>1, <1>1, <1>2, <1>6
      <3> QED BY <3>1, <3>2, <2>1, <1>1, <1>5
    <2>2. CASE s # t
      <3>1. {v \in Worker : pc'[v] = "run" /\ func'[v] = s}
              = {v \in Worker : pc[v] = "run" /\ func[v] = s}
        BY <2>2, <1>1, <1>2 DEF t
      <3>2. runs'[s] = runs[s]
        BY <2>2, <1>1, <1>2
      <3> QED BY <3>1, <3>2, <1>1 DEF PoolInv, RunOnce
    <2> QED BY <2>1, <2>2
  <1>9. RunOnce'
    BY <1>8 DEF RunOnce
  <1> QED BY <1>3, <1>4, <1>9 DEF PoolInv

(* Putting a task into the queue keeps the invariant. *)
LEMMA EnqueueStep ==
  ASSUME PoolInv, TypeOK', NEW t \in Task, Enqueue(t)
  PROVE  PoolInv'
  <1>1. /\ submit[t] = "idle" /\ queue' = Append(queue, t)
        /\ enqueued' = Append(enqueued, t)
        /\ submit' = [submit EXCEPT ![t] = "notify"]
        /\ UNCHANGED <<pc, func, closing, started, runs>>
    BY DEF Enqueue, workerVars
  <1>2. /\ queue \in Seq(Task) /\ started \in Seq(Task)
        /\ enqueued \in Seq(Task) /\ submit \in [Task -> {"idle", "notify", "done"}]
    BY DEF PoolInv, TypeOK
  <1>3. FifoOrder'
    <2>1. started \o Append(queue, t) = Append(started \o queue, t)
      BY <1>2, Extend
    <2> QED BY <1>1, <2>1 DEF PoolInv, FifoOrder
  <1>4. EnqueuedOnce'
    <2>1. ToSet(enqueued') = ToSet(enqueued) \cup {t} /\ t \notin ToSet(enqueued)
      BY <1>1, <1>2, AppendSet DEF PoolInv, EnqueuedOnce
    <2>2. \A s \in Task : submit'[s] = "idle" => s \notin ToSet(enqueued')
      BY <1>1, <1>2, <2>1 DEF PoolInv, EnqueuedOnce
    <2>3. /\ Len(enqueued) \in Nat /\ Len(enqueued') = Len(enqueued) + 1
          /\ enqueued'[Len(enqueued) + 1] = t
          /\ \A k \in 1 .. Len(enqueued) :
               enqueued'[k] = enqueued[k] /\ enqueued[k] # t
      BY <1>1, <1>2, <2>1 DEF ToSet
    <2>4. \A i, j \in 1 .. Len(enqueued') : enqueued'[i] = enqueued'[j] => i = j
      BY <2>3 DEF PoolInv, EnqueuedOnce
    <2> QED BY <2>2, <2>4 DEF EnqueuedOnce
  <1>5. OnlyStartedHeld' /\ RunOnce' /\ JoinedAll'
    BY <1>1 DEF PoolInv, OnlyStartedHeld, RunOnce, JoinedAll
  <1> QED BY <1>3, <1>4, <1>5 DEF PoolInv

(* Every step keeps the invariant. *)
LEMMA PoolNext ==
  ASSUME PoolInv, [Next]_vars
  PROVE  PoolInv'
  <1> USE DEF Goes, workerVars
  <1>0. TypeOK /\ TypeOK'
    BY TypeNext DEF PoolInv
  <1>1. ASSUME NEW w \in Worker,
               Loop(w) \/ Lock(w) \/ TestEmpty(w) \/ Wait(w) \/ Relock(w)
                 \/ WakeSpuriously(w)
        PROVE  PoolInv'
    <2>1. UNCHANGED <<queue, func, enqueued, started, runs, submit, closing>>
      BY <1>1 DEF Loop, Lock, TestEmpty, Wait, Relock, WakeSpuriously
    <2>2. \A v \in Worker : /\ pc[v] = "exited" => pc'[v] = "exited"
                            /\ pc'[v] = "run" <=> pc[v] = "run"
      BY <1>0, <1>1 DEF TypeOK, Loop, Lock, TestEmpty, Wait, Relock,
         WakeSpuriously
    <2> QED BY <1>0, <2>1, <2>2, ControlStep
  <1>2. ASSUME NEW w \in Worker, Dequeue(w)
        PROVE  PoolInv'
    BY <1>0, <1>2, DequeueStep
  <1>3. ASSUME NEW w \in Worker, Run(w)
        PROVE  PoolInv'
    BY <1>0, <1>3, RunStep
  <1>4. ASSUME NEW t \in Task, Enqueue(t)
        PROVE  PoolInv'
    BY <1>0, <1>4, EnqueueStep
  <1>5. ASSUME NEW t \in Task, Submitted(t)
        PROVE  PoolInv'
    <2>1. /\ UNCHANGED <<queue, func, enqueued, started, runs, closing>>
          /\ \A s \in Task : submit'[s] = "idle" => submit[s] = "idle"
          /\ \A v \in Worker : /\ pc[v] = "exited" => pc'[v] = "exited"
                               /\ pc'[v] = "run" <=> pc[v] = "run"
      BY <1>0, <1>5 DEF TypeOK, Submitted, NotifyOne, Waiting
    <2> QED BY <1>0, <2>1, ControlStep
  <1>6. CASE Close
    <2>1. /\ UNCHANGED <<queue, func, enqueued, started, runs, submit>>
          /\ \A v \in Worker : /\ pc[v] = "exited" => pc'[v] = "exited"
                               /\ pc'[v] = "run" <=> pc[v] = "run"
          /\ closing' = "done" =>
               closing = "done" \/ \A w \in Worker : pc[w] = "exited"
      BY <1>0, <1>6 DEF TypeOK, Close, Shutdown, NotifyAll, Join, Joined,
         Waiting
    <2> QED BY <1>0, <2>1, ControlStep
  <1>7. CASE UNCHANGED vars
    BY <1>0, <1>7, ControlStep DEF vars
  <1> QED BY <1>1, <1>2, <1>3, <1>4, <1>5, <1>6, <1>7 DEF Next, Work

(* The invariant holds in every reachable state. *)
LEMMA PoolAlways == Spec => []PoolInv
  <1>1. Init => PoolInv
    <2> SUFFICES ASSUME Init PROVE PoolInv
      OBVIOUS
    <2>1. enqueued = << >> /\ started = << >> /\ queue = << >>
      BY DEF Init
    <2>2. ToSet(enqueued) = {} /\ ToSet(started) = {} /\ Len(enqueued) = 0
      BY <2>1 DEF ToSet
    <2>3. FifoOrder /\ EnqueuedOnce
      BY <2>1, <2>2 DEF FifoOrder, EnqueuedOnce
    <2>4. /\ \A w \in Worker : func[w] = NoTask
          /\ \A t \in Task : runs[t] = 0
          /\ closing = "idle"
      BY DEF Init
    <2>5. \A t \in Task : {w \in Worker : pc[w] = "run" /\ func[w] = t} = {}
      BY <2>4, NoTaskAssumption
    <2>6. OnlyStartedHeld /\ RunOnce /\ JoinedAll
      BY <2>2, <2>4, <2>5 DEF OnlyStartedHeld, RunOnce, JoinedAll
    <2> QED BY <2>3, <2>6, TypeInit DEF PoolInv
  <1> QED BY <1>1, PoolNext, PTL DEF Spec

(* Tasks leave SafeQueue in the order in which submit put them there: none  *)
(* is lost or duplicated by any interleaving of submitters and workers.     *)
THEOREM QueueIsFifo == Spec => []FifoOrder
  BY PoolAlways, PTL DEF PoolInv

(* No task is run twice or is about to be run by two workers. *)
THEOREM TasksRunAtMostOnce == Spec => []RunOnce
  BY PoolAlways, PTL DEF PoolInv

(* When shutdown returns, every task that was dequeued has been run. *)
THEOREM ShutdownLeavesNoneHalfDone == Spec => []ShutdownComplete
  <1>1. PoolInv => ShutdownComplete
    <2> SUFFICES ASSUME PoolInv, closing = "done", NEW t \in ToSet(started)
                 PROVE  runs[t] = 1
      BY DEF ShutdownComplete
    <2>1. t \in Task
      BY DEF PoolInv, TypeOK, ToSet
    <2>2. \A w \in Worker : pc[w] = "exited"
      BY DEF PoolInv, JoinedAll
    <2>3. {w \in Worker : pc[w] = "run" /\ func[w] = t} = {}
      BY <2>2
    <2> QED BY <2>1, <2>3 DEF PoolInv, RunOnce
  <1> QED BY <1>1, PoolAlways, PTL

-----------------------------------------------------------------------------
(* The notification that finds nobody. *)

Locked == {"test", "wait", "dequeue"}

(* m_conditional_mutex is held by whoever is between its lock and its wait  *)
(* or dequeue, and threads leave their loop only for a shutdown.            *)
LoopSound ==
  /\ \A w \in Worker : pc[w] \in Locked <=> holder = w
  /\ \A w \in Worker : pc[w] = "exited" => m_shutdown

AwakeInv == TypeOK /\ LoopSound /\ SomebodyAwake

(* A worker's step keeps the mutex with one worker, and whoever leaves the  *)
(* queue to itself has found it empty.                                      *)
LEMMA WorkerAwake ==
  ASSUME AwakeInv, TypeOK', NEW w \in Worker, Work(w) \/ WakeSpuriously(w)
  PROVE  AwakeInv'
  <1> USE DEF Goes, Locked
  <1>1. LoopSound'
    <2>1. CASE Loop(w) \/ TestEmpty(w) \/ Run(w) \/ WakeSpuriously(w)
      <3>1. /\ UNCHANGED <<holder, m_shutdown>>
            /\ \A v \in Worker : v # w => pc'[v] = pc[v]
            /\ pc'[w] \in Locked <=> pc[w] \in Locked
            /\ pc'[w] = "exited" => m_shutdown
        BY <2>1 DEF AwakeInv, LoopSound, TypeOK, Loop, TestEmpty, Run,
           WakeSpuriously
      <3> QED BY <3>1 DEF AwakeInv, LoopSound
    <2>2. CASE Lock(w) \/ Relock(w)
      BY <2>2, NobodyAssumption DEF AwakeInv, LoopSound, TypeOK, Lock, Relock
    <2>3. CASE Wait(w) \/ Dequeue(w)
      <3>1. /\ holder' = Nobody /\ UNCHANGED m_shutdown
            /\ \A v \in Worker : v # w => pc'[v] = pc[v]
            /\ pc[w] \in Locked /\ pc'[w] \notin Locked /\ pc'[w] # "exited"
        BY <2>3 DEF AwakeInv, TypeOK, Wait, Dequeue, Missed
      <3> QED BY <3>1, NobodyAssumption DEF AwakeInv, LoopSound
    <2> QED BY <2>1, <2>2, <2>3 DEF Work
  <1>2. UNCHANGED <<m_shutdown, submit>>
    BY DEF Work, Loop, Lock, TestEmpty, Wait, Relock, Dequeue, Run,
       WakeSpuriously
  <1>3. ASSUME queue' # << >>, ~m_shutdown, \A t \in Task : submit[t] # "notify"
        PROVE  \E v \in Worker : pc'[v] \notin {"wait", "waiting"}
    <2>1. queue # << >>
      BY <1>3 DEF AwakeInv, TypeOK, Work, Loop, Lock, TestEmpty, Wait, Relock,
         Dequeue, Pop, Run, WakeSpuriously
    <2>2. PICK v \in Worker : pc[v] \notin {"wait", "waiting"}
      BY <1>3, <2>1 DEF AwakeInv, SomebodyAwake
    <2>3. CASE v # w
      <3>1. pc'[v] = pc[v]
        BY <2>3 DEF AwakeInv, TypeOK, Work, Loop, Lock, TestEmpty, Wait, Relock,
           Dequeue, Missed, Run, WakeSpuriously
      <3> QED BY <2>2, <3>1
    <2>4. CASE v = w
      <3>1. pc[w] \notin {"wait", "waiting"} /\ ~Wait(w) /\ ~WakeSpuriously(w)
        BY <2>2, <2>4 DEF Wait, WakeSpuriously
      <3>2. DOMAIN pc = Worker /\ queue # << >>
        BY <2>1 DEF AwakeInv, TypeOK
      <3>3. CASE Loop(w) \/ Lock(w) \/ Run(w)
        BY <2>4, <3>2, <3>3 DEF Loop, Lock, Run
      <3>4. CASE TestEmpty(w) \/ Relock(w) \/ Dequeue(w)
        BY <2>4, <3>2, <3>4 DEF TestEmpty, Relock, Dequeue
      <3> QED BY <3>1, <3>3, <3>4 DEF Work
    <2> QED BY <2>3, <2>4
  <1>4. SomebodyAwake'
    BY <1>2, <1>3 DEF SomebodyAwake
  <1> QED BY <1>1, <1>4 DEF AwakeInv

(* Of two workers, at most one is about to wait: if nobody waits yet when   *)
(* the notification comes, the other one is still to test the queue.        *)
LEMMA SubmitAwake ==
  ASSUME AwakeInv, TypeOK', \E v, w \in Worker : v # w,
         NEW t \in Task, Enqueue(t) \/ Submitted(t)
  PROVE  AwakeInv'
  <1>1. CASE Enqueue(t)
    <2>1. submit'[t] = "notify" /\ UNCHANGED <<m_shutdown, holder, pc>>
      BY <1>1 DEF AwakeInv, TypeOK, Enqueue, workerVars
    <2> QED BY <2>1 DEF AwakeInv, LoopSound, SomebodyAwake
  <1>2. CASE Submitted(t)
    <2>1. NotifyOne /\ UNCHANGED <<m_shutdown, queue, holder>>
      BY <1>2 DEF Submitted
    <2>2. CASE Waiting = {} /\ UNCHANGED pc
      <3>1. PICK v, w \in Worker : v # w
        OBVIOUS
      <3>2. pc[v] # "wait" \/ pc[w] # "wait"
        BY <3>1 DEF AwakeInv, LoopSound, Locked
      <3>3. pc[v] # "waiting" /\ pc[w] # "waiting"
        BY <2>2 DEF Waiting
      <3> QED BY <2>1, <2>2, <3>2, <3>3 DEF AwakeInv, LoopSound, SomebodyAwake
    <2>3. CASE \E w \in Waiting : pc' = [pc EXCEPT ![w] = "woken"]
      <3>1. PICK w \in Worker : pc[w] = "waiting" /\ pc' = [pc EXCEPT ![w] = "woken"]
        BY <2>3 DEF Waiting
      <3>2. pc'[w] = "woken" /\ \A v \in Worker : v # w => pc'[v] = pc[v]
        BY <3>1 DEF AwakeInv, TypeOK
      <3> QED BY <2>1, <3>1, <3>2 DEF AwakeInv, LoopSound, SomebodyAwake, Locked
    <2> QED BY <2>1, <2>2, <2>3 DEF NotifyOne
  <1> QED BY <1>1, <1>2

(* In a pool of two or more threads no task is left to sleepers, however    *)
(* submits, tests, waits and spurious wake-ups interleave.                  *)
THEOREM NoTaskLeftAsleep ==
  ASSUME \E v, w \in Worker : v # w
  PROVE  Spec => []SomebodyAwake
  <1>1. Init => AwakeInv
    BY TypeInit, NobodyAssumption DEF Init, AwakeInv, LoopSound, SomebodyAwake, Locked
  <1>2. ASSUME AwakeInv, [Next]_vars
        PROVE  AwakeInv'
    <2>0. TypeOK'
      BY <1>2, TypeNext DEF AwakeInv
    <2>1. CASE Close
      <3>1. \/ UNCHANGED <<m_shutdown, queue, holder, pc, submit>>
            \/ m_shutdown' /\ UNCHANGED <<holder, pc>>
            \/ /\ UNCHANGED <<m_shutdown, queue, holder, submit>>
               /\ \A w \in Worker : \/ pc'[w] = pc[w]
                                    \/ pc[w] = "waiting" /\ pc'[w] = "woken"
        BY <1>2, <2>1 DEF AwakeInv, TypeOK, Close, Shutdown, NotifyAll, Join,
           Waiting, workerVars
      <3> QED BY <1>2, <2>0, <3>1 DEF AwakeInv, LoopSound, SomebodyAwake, Locked
    <2>2. CASE UNCHANGED vars
      BY <1>2, <2>0, <2>2 DEF vars, workerVars, AwakeInv, LoopSound,
         SomebodyAwake
    <2> QED BY <1>2, <2>0, <2>1, <2>2, WorkerAwake, SubmitAwake DEF Next
  <1>3. AwakeInv => SomebodyAwake
    BY DEF AwakeInv
  <1> QED BY <1>1, <1>2, <1>3, PTL DEF Spec
=============================================================================
