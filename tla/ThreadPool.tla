------------------------------ MODULE ThreadPool ------------------------------
(***************************************************************************)
(* ThreadPool.h and SafeQueue.h: workers that take tasks from a queue and  *)
(* wait on a condition variable while it is empty; submit, which may be    *)
(* called by any number of threads; and shutdown.  The queue's own mutex   *)
(* makes each of its operations one step.  m_conditional_mutex is held by  *)
(* a worker from its test of the queue until it waits or has dequeued, and *)
(* neither submit nor shutdown takes it.  m_shutdown is a plain bool: a    *)
(* worker's loop calls functions the compiler cannot see through, so each  *)
(* iteration reads it once.                                                *)
(***************************************************************************)
EXTENDS Integers, SequencesExt

CONSTANTS Worker,       \* m_threads
          Task,         \* the tasks submitted in one behaviour, one call each
          NoTask, Nobody,
          ShutsDown     \* whether shutdown is called

ASSUME NoTaskAssumption == NoTask \notin Task
ASSUME NobodyAssumption == Nobody \notin Worker
ASSUME ShutsDownAssumption == ShutsDown \in BOOLEAN

VARIABLES
  m_shutdown,   \* m_shutdown
  queue,        \* m_queue
  holder,       \* who holds m_conditional_mutex
  pc,           \* each worker's step
  func,         \* the function object of each worker: its last task
  submit,       \* each task's submit call: "idle", "notify", "done"
  closing,      \* shutdown: "idle", "notify", "join" or "done"
  enqueued,     \* history: the tasks in the order of their enqueue
  started,      \* history: the tasks in the order of their dequeue
  runs          \* history: how often each task was run

workerVars == <<holder, pc, func>>
vars == <<m_shutdown, queue, workerVars, submit, closing, enqueued, started,
          runs>>

Init ==
  /\ m_shutdown = FALSE
  /\ queue = << >>
  /\ holder = Nobody
  /\ pc = [w \in Worker |-> "top"]
  /\ func = [w \in Worker |-> NoTask]
  /\ submit = [t \in Task |-> "idle"]
  /\ closing = "idle"
  /\ enqueued = << >> /\ started = << >>
  /\ runs = [t \in Task |-> 0]

Goes(w, from, to) == pc[w] = from /\ pc' = [pc EXCEPT ![w] = to]

-----------------------------------------------------------------------------
(* ThreadWorker::operator() *)

Loop(w) ==
  /\ IF m_shutdown THEN Goes(w, "top", "exited") ELSE Goes(w, "top", "lock")
  /\ UNCHANGED <<m_shutdown, queue, holder, func, submit, closing, enqueued,
                 started, runs>>

Lock(w) ==
  /\ holder = Nobody
  /\ Goes(w, "lock", "test")
  /\ holder' = w
  /\ UNCHANGED <<m_shutdown, queue, func, submit, closing, enqueued, started,
                 runs>>

TestEmpty(w) ==
  /\ IF queue = << >> THEN Goes(w, "test", "wait") ELSE Goes(w, "test", "dequeue")
  /\ UNCHANGED <<m_shutdown, queue, holder, func, submit, closing, enqueued,
                 started, runs>>

(* wait() releases the mutex and blocks in one step. *)
Wait(w) ==
  /\ Goes(w, "wait", "waiting")
  /\ holder' = Nobody
  /\ UNCHANGED <<m_shutdown, queue, func, submit, closing, enqueued, started,
                 runs>>

(* A condition variable may wake a thread without a notification. *)
WakeSpuriously(w) ==
  /\ Goes(w, "waiting", "woken")
  /\ UNCHANGED <<m_shutdown, queue, holder, func, submit, closing, enqueued,
                 started, runs>>

Relock(w) ==
  /\ holder = Nobody
  /\ Goes(w, "woken", "dequeue")
  /\ holder' = w
  /\ UNCHANGED <<m_shutdown, queue, func, submit, closing, enqueued, started,
                 runs>>

(* Fault: the front is read and stays in the queue. *)
Pop_Not == UNCHANGED queue
Pop == queue' = Tail(queue)

FrontTask == Head(queue)

(* Fault: what dequeue() returned is not looked at. *)
Missed_Run(w) == Goes(w, "dequeue", "run")
Missed(w) == Goes(w, "dequeue", "top")

(* dequeue() finds a task or returns false; the lock ends with the block. *)
Dequeue(w) ==
  /\ holder' = Nobody
  /\ \/ /\ queue # << >>
        /\ Goes(w, "dequeue", "run")
        /\ func' = [func EXCEPT ![w] = FrontTask]
        /\ started' = Append(started, FrontTask)
        /\ Pop
     \/ /\ queue = << >>
        /\ Missed(w)
        /\ UNCHANGED <<func, started, queue>>
  /\ UNCHANGED <<m_shutdown, submit, closing, enqueued, runs>>

(* The function object outlives the call, until the next dequeue() finds a  *)
(* task or the loop ends.                                                   *)
Run(w) ==
  /\ Goes(w, "run", "top")
  /\ runs' = [runs EXCEPT ![func[w]] = @ + 1]
  /\ UNCHANGED <<m_shutdown, queue, holder, func, submit, closing, enqueued,
                 started>>

-----------------------------------------------------------------------------
(* submit(): enqueue, then notify_one, without m_conditional_mutex.         *)

Waiting == {w \in Worker : pc[w] = "waiting"}

Enqueue(t) ==
  /\ submit[t] = "idle"
  /\ queue' = Append(queue, t)
  /\ enqueued' = Append(enqueued, t)
  /\ submit' = [submit EXCEPT ![t] = "notify"]
  /\ UNCHANGED <<m_shutdown, workerVars, closing, started, runs>>

(* Fault: nobody is woken. *)
NotifyOne_Not == UNCHANGED pc
NotifyOne ==
  \/ \E w \in Waiting : pc' = [pc EXCEPT ![w] = "woken"]
  \/ Waiting = {} /\ UNCHANGED pc

Submitted(t) ==
  /\ submit[t] = "notify"
  /\ NotifyOne
  /\ submit' = [submit EXCEPT ![t] = "done"]
  /\ UNCHANGED <<m_shutdown, queue, holder, func, closing, enqueued, started,
                 runs>>

-----------------------------------------------------------------------------
(* shutdown(): set the flag, notify_all, join every thread.                 *)

Shutdown ==
  /\ ShutsDown /\ closing = "idle"
  /\ m_shutdown' = TRUE
  /\ closing' = "notify"
  /\ UNCHANGED <<queue, workerVars, submit, enqueued, started, runs>>

NotifyAll ==
  /\ closing = "notify"
  /\ pc' = [w \in Worker |-> IF w \in Waiting THEN "woken" ELSE pc[w]]
  /\ closing' = "join"
  /\ UNCHANGED <<m_shutdown, queue, holder, func, submit, enqueued, started,
                 runs>>

Joined == \A w \in Worker : pc[w] = "exited"

Join ==
  /\ closing = "join" /\ Joined
  /\ closing' = "done"
  /\ UNCHANGED <<m_shutdown, queue, workerVars, submit, enqueued, started, runs>>

-----------------------------------------------------------------------------
Work(w) == \/ Loop(w) \/ Lock(w) \/ TestEmpty(w) \/ Wait(w)
           \/ Relock(w) \/ Dequeue(w) \/ Run(w)
Close == Shutdown \/ NotifyAll \/ Join

Next ==
  \/ \E w \in Worker : Work(w) \/ WakeSpuriously(w)
  \/ \E t \in Task : Enqueue(t) \/ Submitted(t)
  \/ Close

Spec == Init /\ [][Next]_vars

(* Threads that can run do, and tasks end.  Nobody has to submit or to shut *)
(* down, a mutex need not be handed out fairly, and no spurious wake-up can *)
(* be counted on.                                                           *)
FairSpec ==
  /\ Spec
  /\ \A w \in Worker : WF_vars(Work(w))
  /\ \A t \in Task : WF_vars(Submitted(t))
  /\ WF_vars(NotifyAll \/ Join)

-----------------------------------------------------------------------------
(* Every variable keeps its type, and a worker that is about to call its    *)
(* function object was given a task at some time: the object is not empty.  *)
TypeOK ==
  /\ m_shutdown \in BOOLEAN
  /\ queue \in Seq(Task)
  /\ holder \in Worker \cup {Nobody}
  /\ pc \in [Worker -> {"top", "lock", "test", "wait", "waiting", "woken",
                        "dequeue", "run", "exited"}]
  /\ func \in [Worker -> Task \cup {NoTask}]
  /\ submit \in [Task -> {"idle", "notify", "done"}]
  /\ closing \in {"idle", "notify", "join", "done"}
  /\ enqueued \in Seq(Task)
  /\ started \in Seq(Task)
  /\ runs \in [Task -> Nat]
  /\ \A w \in Worker : pc[w] = "run" => func[w] # NoTask

(* A task has been run once, is about to be run by one worker, or is still  *)
(* queued or unsubmitted: never two of these, and no worker shares its task.*)
RunOnce ==
  \A t \in Task :
    LET held == {w \in Worker : pc[w] = "run" /\ func[w] = t}
    IN  /\ \A v, w \in held : v = w
        /\ runs[t] = IF t \in ToSet(started) /\ held = {} THEN 1 ELSE 0

(* Without a shutdown a queued task has somebody to take it: a submit that  *)
(* has not notified yet, or a worker that is not about to sleep.  The       *)
(* notification that finds no waiter is not missed by the last one awake.   *)
SomebodyAwake ==
  queue # << >> /\ ~m_shutdown =>
    \/ \E t \in Task : submit[t] = "notify"
    \/ \E w \in Worker : pc[w] \notin {"wait", "waiting"}

(* A pool of two or more threads runs every task until it is shut down,     *)
(* although a notification may find no waiter: the worker that was about to *)
(* wait holds the mutex, so another one tests the queue afterwards.         *)
EveryTaskRun ==
  \A t \in Task : t \in ToSet(enqueued) ~> runs[t] = 1 \/ m_shutdown
=============================================================================
