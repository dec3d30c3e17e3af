----------------------------- MODULE WorkerQueue -----------------------------
(***************************************************************************)
(* A background worker fed through a mutex, a condition variable and a     *)
(* queue, and the Stop() that joins it.  Two classes have this shape:      *)
(*                                                                         *)
(*   RuleEngine   event_queue_ / queue_mutex_ / queue_cv_ / WorkerLoop     *)
(*   AppManager   llm_queue_ / llm_queue_mutex_ / llm_queue_cv_ /          *)
(*                LlmWorkerLoop                                            *)
(*                                                                         *)
(* They differ in one line: RuleEngine::Stop takes and releases the queue  *)
(* mutex between clearing running_ and notifying, AppManager::Stop does    *)
(* not.  StopLocks says which of the two is modelled.                      *)
(*                                                                         *)
(* Every step below is one access to running_ or one critical section of   *)
(* the mutex.  cv.wait(lock, pred) is three steps (evaluate the predicate, *)
(* release the mutex and block, take the mutex again) because running_ is  *)
(* an atomic that Stop writes without the mutex.                           *)
(***************************************************************************)
EXTENDS Naturals, Sequences

CONSTANTS Task,        \* the tasks that MQTT callbacks may enqueue
          StopLocks,   \* TRUE for RuleEngine::Stop, FALSE for AppManager::Stop
          MaxArrivals  \* bound: tasks enqueued in one behaviour

ASSUME QueueAssumption == /\ StopLocks \in BOOLEAN
                          /\ MaxArrivals \in Nat

VARIABLES running,   \* running_
          queue,     \* event_queue_ / llm_queue_
          mutex,     \* the holder of the queue mutex, or "free"
          task,      \* the worker's local variable: <<>> or <<the task taken>>
          worker,    \* where the worker thread is in its loop
          producer,  \* where the MQTT loop thread is in its callback
          stopper,   \* where the thread that called Stop() is
          arrived,   \* history: every task enqueued, in order
          taken      \* history: every task dequeued, in order

queueVars == <<running, queue, mutex, task, worker, producer, stopper,
               arrived, taken>>

WorkerPC   == {"test", "lock", "predicate", "release", "waiting", "pop",
               "busy", "exited"}
ProducerPC == {"idle", "notify"}
StopperPC  == {"idle", "fence", "notify", "join", "unsubscribe", "done"}

\* Each variable holds what its C++ counterpart can hold: in particular the task
\* in hand is one that was enqueued, never what front() of an empty queue gives.
QueueTypeOK ==
    /\ running \in BOOLEAN
    /\ queue \in Seq(Task)
    /\ mutex \in {"free", "worker"}
    /\ task \in {<<>>} \cup {<<t>> : t \in Task}
    /\ worker \in WorkerPC
    /\ producer \in ProducerPC
    /\ stopper \in StopperPC
    /\ arrived \in Seq(Task)
    /\ taken \in Seq(Task)

\* Start() has set running_ and spawned the worker.
QueueInit ==
    /\ running = TRUE
    /\ queue = <<>>
    /\ mutex = "free"
    /\ task = <<>>
    /\ worker = "test"
    /\ producer = "idle"
    /\ stopper = "idle"
    /\ arrived = <<>>
    /\ taken = <<>>

------------------------------------------------------------------------------
(* The MQTT callback: OnDeviceEvent, InjectEvent, OnLlmRequest.            *)

\* The critical section that pushes the task.
Enqueue(t) ==
    /\ producer = "idle"
    /\ stopper # "done"                 \* Stop() has not unsubscribed yet
    /\ mutex = "free"
    /\ Len(arrived) < MaxArrivals
    /\ queue' = Append(queue, t)
    /\ arrived' = Append(arrived, t)
    /\ producer' = "notify"
    /\ UNCHANGED <<running, mutex, task, worker, stopper, taken>>

\* A notification moves a blocked worker on to take the mutex again; it is
\* lost on a worker that is not blocked.
Woken == IF worker = "waiting" THEN "lock" ELSE worker

\* Slip: the notification is left out.
NotifyOneForgotten ==
    /\ producer = "notify"
    /\ producer' = "idle"
    /\ UNCHANGED <<running, queue, mutex, task, worker, stopper, arrived, taken>>

NotifyOne ==
    /\ producer = "notify"
    /\ worker' = Woken
    /\ producer' = "idle"
    /\ UNCHANGED <<running, queue, mutex, task, stopper, arrived, taken>>

------------------------------------------------------------------------------
(* The worker loop.                                                        *)

\* while (running_)
TestRunning ==
    /\ worker = "test"
    /\ worker' = IF running THEN "lock" ELSE "exited"
    /\ UNCHANGED <<running, queue, mutex, task, producer, stopper, arrived, taken>>

LockQueue ==
    /\ worker = "lock"
    /\ mutex = "free"
    /\ mutex' = "worker"
    /\ worker' = "predicate"
    /\ UNCHANGED <<running, queue, task, producer, stopper, arrived, taken>>

\* return !running_ || !queue.empty();
EvaluatePredicate ==
    /\ worker = "predicate"
    /\ worker' = IF ~running \/ queue # <<>> THEN "pop" ELSE "release"
    /\ UNCHANGED <<running, queue, mutex, task, producer, stopper, arrived, taken>>

\* The atomic half of wait(): release the mutex and block.
Block ==
    /\ worker = "release"
    /\ worker' = "waiting"
    /\ mutex' = "free"
    /\ UNCHANGED <<running, queue, task, producer, stopper, arrived, taken>>

\* A condition variable may wake without being notified.
SpuriousWakeup ==
    /\ worker = "waiting"
    /\ worker' = "lock"
    /\ UNCHANGED <<running, queue, mutex, task, producer, stopper, arrived, taken>>

\* Slip: the break on an empty queue is left out, and what front() returns is
\* not a task.
PopWithoutBreak ==
    /\ worker = "pop"
    /\ mutex' = "free"
    /\ worker' = "busy"
    /\ task' = IF queue = <<>> THEN <<"undefined">> ELSE <<Head(queue)>>
    /\ queue' = IF queue = <<>> THEN <<>> ELSE Tail(queue)
    /\ UNCHANGED <<running, producer, stopper, arrived, taken>>

\* Slip: front() without pop().
PopForgotten ==
    /\ worker = "pop"
    /\ mutex' = "free"
    /\ \/ /\ ~running
          /\ queue = <<>>
          /\ worker' = "exited"
          /\ UNCHANGED <<task, taken>>
       \/ /\ queue # <<>>
          /\ task' = <<Head(queue)>>
          /\ taken' = Append(taken, Head(queue))
          /\ worker' = "busy"
    /\ UNCHANGED <<running, queue, producer, stopper, arrived>>

\* if (!running_ && queue.empty()) break;  otherwise move the front task out.
PopOrBreak ==
    /\ worker = "pop"
    /\ mutex' = "free"
    /\ \/ /\ ~running
          /\ queue = <<>>
          /\ worker' = "exited"
          /\ UNCHANGED <<queue, task, taken>>
       \/ /\ queue # <<>>
          /\ queue' = Tail(queue)
          /\ task' = <<Head(queue)>>
          /\ taken' = Append(taken, Head(queue))
          /\ worker' = "busy"
    /\ UNCHANGED <<running, producer, stopper, arrived>>

\* ProcessEvent / ProcessLlmRequest has returned.
FinishTask ==
    /\ worker = "busy"
    /\ task' = <<>>
    /\ worker' = "test"
    /\ UNCHANGED <<running, queue, mutex, producer, stopper, arrived, taken>>

------------------------------------------------------------------------------
(* Stop().                                                                 *)

\* Slip: the empty critical section is left out.
StopClearNoFence ==
    /\ stopper = "idle"
    /\ running' = FALSE
    /\ stopper' = "notify"
    /\ UNCHANGED <<queue, mutex, task, worker, producer, arrived, taken>>

StopClear ==
    /\ stopper = "idle"
    /\ running' = FALSE
    /\ stopper' = IF StopLocks THEN "fence" ELSE "notify"
    /\ UNCHANGED <<queue, mutex, task, worker, producer, arrived, taken>>

\* { std::lock_guard<std::mutex> lock(queue_mutex_); }
StopFence ==
    /\ stopper = "fence"
    /\ mutex = "free"
    /\ stopper' = "notify"
    /\ UNCHANGED <<running, queue, mutex, task, worker, producer, arrived, taken>>

\* Slip: join() without notify_all().
StopNotifyForgotten ==
    /\ stopper = "notify"
    /\ stopper' = "join"
    /\ UNCHANGED <<running, queue, mutex, task, worker, producer, arrived, taken>>

StopNotify ==
    /\ stopper = "notify"
    /\ worker' = Woken
    /\ stopper' = "join"
    /\ UNCHANGED <<running, queue, mutex, task, producer, arrived, taken>>

\* Slip: the worker is detached and not joined.
StopDetach ==
    /\ stopper = "join"
    /\ stopper' = "unsubscribe"
    /\ UNCHANGED <<running, queue, mutex, task, worker, producer, arrived, taken>>

StopJoin ==
    /\ stopper = "join"
    /\ worker = "exited"
    /\ stopper' = "unsubscribe"
    /\ UNCHANGED <<running, queue, mutex, task, worker, producer, arrived, taken>>

\* Unsubscribe() takes the client's mutex, which a callback holds throughout.
StopUnsubscribe ==
    /\ stopper = "unsubscribe"
    /\ producer = "idle"
    /\ stopper' = "done"
    /\ UNCHANGED <<running, queue, mutex, task, worker, producer, arrived, taken>>

------------------------------------------------------------------------------
QueueNext ==
    \/ \E t \in Task : Enqueue(t)
    \/ NotifyOne
    \/ TestRunning \/ LockQueue \/ EvaluatePredicate \/ Block
    \/ SpuriousWakeup
    \/ PopOrBreak
    \/ FinishTask
    \/ StopClear \/ StopFence \/ StopNotify \/ StopJoin \/ StopUnsubscribe

\* Threads that can run are scheduled, a task ends (ProcessLlmRequest polls at
\* most 30 times, a script is cut off after two attempts), and a mutex that is
\* free again and again is granted.  Nothing obliges a task to arrive, Stop to
\* be called or a spurious wakeup to happen.
QueueFairness ==
    /\ WF_queueVars(NotifyOne)
    /\ WF_queueVars(TestRunning \/ EvaluatePredicate \/ Block \/ PopOrBreak)
    /\ WF_queueVars(FinishTask)
    /\ SF_queueVars(LockQueue)
    /\ SF_queueVars(StopFence)
    /\ WF_queueVars(StopNotify \/ StopJoin)
    /\ SF_queueVars(StopUnsubscribe)

QueueSpec == QueueInit /\ [][QueueNext]_queueVars /\ QueueFairness

------------------------------------------------------------------------------
(* Properties.                                                             *)

\* Every task that a callback enqueued is either still queued or was taken,
\* and tasks were taken in the order of arrival: none is lost, duplicated or
\* overtaken by the push, the pop, or a wakeup that finds the queue empty
\* (RuleEngine::WorkerLoop, AppManager::LlmWorkerLoop).
FirstInFirstOut == arrived = taken \o queue

\* A worker blocked on the condition variable always has a wakeup coming when
\* there is something for it to see: a task in the queue, or running_ cleared.
\* Stop's lock/unlock of the queue mutex is what makes the second half true.
NoLostWakeup ==
    worker = "waiting" => /\ queue # <<>> => producer = "notify"
                          /\ ~running => stopper \in {"fence", "notify"}

\* The abstract channel this queue implements: the tasks, the one in hand,
\* and, after Stop has begun, whether the worker is past its loop test.
Channel == INSTANCE TaskChannel WITH
    pending <- queue,
    current <- task,
    open    <- running,
    grace   <- running \/ worker \in {"lock", "predicate", "release",
                                      "waiting", "pop"},
    sealed  <- stopper = "done"

\* The queue, its mutex, condition variable and Stop() do what TaskChannel
\* says: one task in hand, in order, at most one more once running_ is false,
\* none in hand when Stop() returns.
ImplementsChannel == Channel!ChannelSpec

\* Stop() returns: the worker it joins is woken and leaves its loop.
StopReturns == (stopper # "idle") ~> (stopper = "done")

\* While the component runs, a task that has arrived is taken eventually.
EveryTaskTaken ==
    \A n \in 1..MaxArrivals :
        (Len(arrived) >= n) ~> (Len(taken) >= n \/ ~running)
==============================================================================
