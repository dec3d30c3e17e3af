-------------------------- MODULE WorkerQueueProofs --------------------------
(***************************************************************************)
(* What WorkerQueue guarantees for every set of tasks and every bound on   *)
(* arrivals: its types, that tasks are taken in order and none is lost,    *)
(* that every step is a step of TaskChannel, and, when Stop() takes the    *)
(* queue mutex, that no wakeup is lost.                                    *)
(***************************************************************************)
EXTENDS WorkerQueue, SequenceTheorems, TLAPS

\* How the positions of the threads and the data they share go together.
Coordination ==
    /\ (mutex = "worker") <=> (worker \in {"predicate", "release", "pop"})
    /\ (task # <<>>) <=> (worker = "busy")
    /\ running <=> (stopper = "idle")
    /\ stopper \in {"unsubscribe", "done"} => worker = "exited"
    /\ worker = "pop" /\ running => queue # <<>>

\* The inductive invariant behind everything that does not depend on StopLocks.
IInv == QueueTypeOK /\ Coordination

LEMMA InitIInv == QueueInit => IInv
BY QueueAssumption DEF QueueInit, IInv, QueueTypeOK, Coordination, WorkerPC, ProducerPC,
   StopperPC

\* One step per action of the queue.
LEMMA StepIInv == IInv /\ [QueueNext]_queueVars => IInv'
<1> SUFFICES ASSUME IInv, [QueueNext]_queueVars PROVE IInv'
  OBVIOUS
<1> USE QueueAssumption DEF IInv, QueueTypeOK, Coordination, WorkerPC,
        ProducerPC, StopperPC
<1>1. ASSUME NEW t \in Task, Enqueue(t) PROVE IInv'
  BY <1>1 DEF Enqueue
<1>2. CASE NotifyOne
  BY <1>2 DEF NotifyOne, Woken
<1>3. CASE TestRunning
  BY <1>3 DEF TestRunning
<1>4. CASE LockQueue
  BY <1>4 DEF LockQueue
<1>5. CASE EvaluatePredicate
  BY <1>5 DEF EvaluatePredicate
<1>6. CASE Block
  BY <1>6 DEF Block
<1>7. CASE SpuriousWakeup
  BY <1>7 DEF SpuriousWakeup
<1>8. CASE PopOrBreak
  <2>1. CASE queue = <<>>
    BY <1>8, <2>1 DEF PopOrBreak
  <2>2. CASE queue # <<>>
    <3>1. Head(queue) \in Task /\ Tail(queue) \in Seq(Task)
      BY <2>2, HeadTailProperties
    <3>2. PICK t \in Task : t = Head(queue)
      BY <3>1
    <3>3. /\ Append(taken, t) \in Seq(Task)
          /\ <<t>> \in {<<x>> : x \in Task}
          /\ <<t>> # <<>>
      OBVIOUS
    <3>4. /\ worker = "pop" /\ worker' = "busy" /\ mutex' = "free"
          /\ queue' = Tail(queue) /\ task' = <<t>> /\ taken' = Append(taken, t)
          /\ UNCHANGED <<running, producer, stopper, arrived>>
      BY <1>8, <2>2, <3>2 DEF PopOrBreak
    <3>5. QueueTypeOK'
      BY <3>1, <3>3, <3>4
    <3>6. Coordination'
      BY <3>3, <3>4
    <3> QED BY <3>5, <3>6
  <2> QED BY <2>1, <2>2
<1>9. CASE FinishTask
  BY <1>9 DEF FinishTask
<1>10. CASE StopClear
  BY <1>10 DEF StopClear
<1>11. CASE StopFence
  BY <1>11 DEF StopFence
<1>12. CASE StopNotify
  BY <1>12 DEF StopNotify, Woken
<1>13. CASE StopJoin
  BY <1>13 DEF StopJoin
<1>14. CASE StopUnsubscribe
  BY <1>14 DEF StopUnsubscribe
<1>15. CASE UNCHANGED queueVars
  BY <1>15 DEF queueVars
<1> QED
  BY <1>1, <1>2, <1>3, <1>4, <1>5, <1>6, <1>7, <1>8, <1>9, <1>10, <1>11, <1>12,
     <1>13, <1>14, <1>15 DEF QueueNext

LEMMA AlwaysIInv == QueueSpec => []IInv
BY InitIInv, StepIInv, PTL DEF QueueSpec

\* Type correctness: in particular the worker never takes the front of an empty
\* queue (WorkerLoop, LlmWorkerLoop).
THEOREM TypeCorrect == QueueSpec => []QueueTypeOK
<1>1. IInv => QueueTypeOK
  BY DEF IInv
<1> QED BY <1>1, AlwaysIInv, PTL

------------------------------------------------------------------------------
(* Tasks are taken in the order of arrival.                                *)

\* Pushing at the back of the second of two sequences pushes at the back of both.
LEMMA PushAtBack ==
  \A s, q \in Seq(Task) : \A e \in Task : Append(s \o q, e) = s \o Append(q, e)
<1> SUFFICES ASSUME NEW s \in Seq(Task), NEW q \in Seq(Task), NEW e \in Task
             PROVE  Append(s \o q, e) = s \o Append(q, e)
  OBVIOUS
<1> DEFINE S == Task
<1>1. /\ s \o q \in Seq(S) /\ Append(q, e) \in Seq(S)
      /\ Len(s \o q) = Len(s) + Len(q) /\ Len(Append(q, e)) = Len(q) + 1
      /\ \A i \in 1..Len(q) + 1 : Append(q, e)[i] = IF i <= Len(q) THEN q[i] ELSE e
  BY ConcatProperties
<1>2. /\ Append(s \o q, e) \in Seq(S) /\ s \o Append(q, e) \in Seq(S)
      /\ Len(Append(s \o q, e)) = Len(s) + Len(q) + 1
      /\ Len(s \o Append(q, e)) = Len(s) + Len(q) + 1
  BY <1>1, ConcatProperties
<1>3. ASSUME NEW i \in 1..Len(s) + Len(q) + 1
      PROVE  Append(s \o q, e)[i] = (s \o Append(q, e))[i]
  <2>1. (s \o Append(q, e))[i] =
           IF i <= Len(s) THEN s[i] ELSE Append(q, e)[i - Len(s)]
    BY <1>1, ConcatProperties
  <2>2. Append(s \o q, e)[i] =
           IF i <= Len(s) + Len(q) THEN (s \o q)[i] ELSE e
    BY <1>1
  <2>3. i <= Len(s) + Len(q) =>
           (s \o q)[i] = IF i <= Len(s) THEN s[i] ELSE q[i - Len(s)]
    BY ConcatProperties
  <2> QED BY <1>1, <2>1, <2>2, <2>3
<1> QED BY <1>2, <1>3, SeqEqual

\* Moving the head of the second of two sequences to the back of the first
\* leaves their concatenation as it was.
LEMMA MoveHead ==
  ASSUME NEW S, NEW s \in Seq(S), NEW q \in Seq(S), q # <<>>
  PROVE  Append(s, Head(q)) \o Tail(q) = s \o q
<1>1. /\ Head(q) \in S /\ Tail(q) \in Seq(S) /\ Len(Tail(q)) = Len(q) - 1
      /\ \A i \in 1..Len(Tail(q)) : Tail(q)[i] = q[i + 1]
      /\ Len(q) \in Nat \ {0} /\ Head(q) = q[1]
  BY HeadTailProperties, EmptySeq
<1>2. /\ Append(s, Head(q)) \in Seq(S) /\ Len(Append(s, Head(q))) = Len(s) + 1
      /\ \A i \in 1..Len(s) + 1 :
            Append(s, Head(q))[i] = IF i <= Len(s) THEN s[i] ELSE q[1]
  BY <1>1
<1>3. /\ Append(s, Head(q)) \o Tail(q) \in Seq(S) /\ s \o q \in Seq(S)
      /\ Len(Append(s, Head(q)) \o Tail(q)) = Len(s) + Len(q)
      /\ Len(s \o q) = Len(s) + Len(q)
  BY <1>1, <1>2, ConcatProperties
<1>4. ASSUME NEW i \in 1..Len(s) + Len(q)
      PROVE  (Append(s, Head(q)) \o Tail(q))[i] = (s \o q)[i]
  <2>1. (Append(s, Head(q)) \o Tail(q))[i] =
           IF i <= Len(s) + 1 THEN Append(s, Head(q))[i] ELSE Tail(q)[i - (Len(s) + 1)]
    BY <1>1, <1>2, ConcatProperties
  <2>2. (s \o q)[i] = IF i <= Len(s) THEN s[i] ELSE q[i - Len(s)]
    BY ConcatProperties
  <2>3. CASE i <= Len(s) + 1
    BY <1>1, <1>2, <2>1, <2>2, <2>3
  <2>4. CASE i > Len(s) + 1
    BY <1>1, <2>1, <2>2, <2>4
  <2> QED BY <2>3, <2>4
<1> QED BY <1>3, <1>4, SeqEqual

LEMMA StepFirstInFirstOut ==
  IInv /\ FirstInFirstOut /\ [QueueNext]_queueVars => FirstInFirstOut'
<1> SUFFICES ASSUME IInv, FirstInFirstOut, [QueueNext]_queueVars
             PROVE  FirstInFirstOut'
  OBVIOUS
<1>1. queue \in Seq(Task) /\ taken \in Seq(Task) /\ arrived = taken \o queue
  BY DEF IInv, QueueTypeOK, FirstInFirstOut
<1>2. ASSUME NEW t \in Task, Enqueue(t) PROVE FirstInFirstOut'
  <2>1. Append(taken \o queue, t) = taken \o Append(queue, t)
    BY <1>1, PushAtBack
  <2> QED BY <1>1, <1>2, <2>1 DEF Enqueue, FirstInFirstOut
<1>3. CASE PopOrBreak
  <2>1. CASE queue = <<>> /\ UNCHANGED <<queue, task, taken>>
    BY <1>1, <1>3, <2>1 DEF PopOrBreak, FirstInFirstOut
  <2>2. CASE queue # <<>> /\ queue' = Tail(queue)
                         /\ taken' = Append(taken, Head(queue))
    BY <1>1, <1>3, <2>2, MoveHead DEF PopOrBreak, FirstInFirstOut
  <2> QED BY <1>3, <2>1, <2>2 DEF PopOrBreak
<1>4. CASE UNCHANGED <<queue, arrived, taken>>
  BY <1>1, <1>4 DEF FirstInFirstOut
<1> QED
  BY <1>2, <1>3, <1>4 DEF QueueNext, queueVars, NotifyOne, TestRunning, LockQueue,
     EvaluatePredicate, Block, SpuriousWakeup, FinishTask, StopClear, StopFence,
     StopNotify, StopJoin, StopUnsubscribe

\* No task is lost, duplicated or overtaken between the callback that enqueues
\* it and the worker that takes it, whatever the interleaving.
THEOREM Fifo == QueueSpec => []FirstInFirstOut
<1>1. QueueInit => FirstInFirstOut
  <2>1. <<>> \in Seq(Task) /\ <<>> \o <<>> = <<>>
    BY EmptySeq, ConcatEmptySeq
  <2> QED BY <2>1 DEF QueueInit, FirstInFirstOut
<1> QED BY <1>1, AlwaysIInv, StepFirstInFirstOut, PTL DEF QueueSpec

------------------------------------------------------------------------------
(* No wakeup is lost when Stop() takes the mutex.                          *)

\* Between the evaluation of the predicate and the release of the mutex nothing
\* can have made the predicate true but Stop(), which then has the mutex to wait
\* for before it notifies.
ReleaseIsSafe ==
    worker = "release" => /\ queue = <<>>
                          /\ ~running => stopper = "fence"

LEMMA StepNoLostWakeup ==
  ASSUME StopLocks, IInv, ReleaseIsSafe, NoLostWakeup, [QueueNext]_queueVars
  PROVE  ReleaseIsSafe' /\ NoLostWakeup'
<1> USE DEF IInv, QueueTypeOK, Coordination, WorkerPC, ProducerPC, StopperPC,
            ReleaseIsSafe, NoLostWakeup
<1>1. ASSUME NEW t \in Task, Enqueue(t) PROVE ReleaseIsSafe' /\ NoLostWakeup'
  BY <1>1 DEF Enqueue
<1>2. CASE NotifyOne
  BY <1>2 DEF NotifyOne, Woken
<1>3. CASE TestRunning
  BY <1>3 DEF TestRunning
<1>4. CASE LockQueue
  BY <1>4 DEF LockQueue
<1>5. CASE EvaluatePredicate
  BY <1>5 DEF EvaluatePredicate
<1>6. CASE Block
  BY <1>6 DEF Block
<1>7. CASE SpuriousWakeup
  BY <1>7 DEF SpuriousWakeup
<1>8. CASE PopOrBreak
  BY <1>8 DEF PopOrBreak
<1>9. CASE FinishTask
  BY <1>9 DEF FinishTask
<1>10. CASE StopClear
  BY <1>10 DEF StopClear
<1>11. CASE StopFence
  BY <1>11 DEF StopFence
<1>12. CASE StopNotify
  BY <1>12 DEF StopNotify, Woken
<1>13. CASE StopJoin
  BY <1>13 DEF StopJoin
<1>14. CASE StopUnsubscribe
  BY <1>14 DEF StopUnsubscribe
<1>15. CASE UNCHANGED queueVars
  BY <1>15 DEF queueVars
<1> QED
  BY <1>1, <1>2, <1>3, <1>4, <1>5, <1>6, <1>7, <1>8, <1>9, <1>10, <1>11, <1>12,
     <1>13, <1>14, <1>15 DEF QueueNext

\* RuleEngine::Stop, which locks and unlocks queue_mutex_ before it notifies,
\* never leaves the worker blocked with nobody about to wake it.
THEOREM WakeupNotLost == ASSUME StopLocks PROVE QueueSpec => []NoLostWakeup
<1>1. QueueInit => ReleaseIsSafe /\ NoLostWakeup
  BY DEF QueueInit, ReleaseIsSafe, NoLostWakeup
<1>2. IInv /\ ReleaseIsSafe /\ NoLostWakeup /\ [QueueNext]_queueVars
        => ReleaseIsSafe' /\ NoLostWakeup'
  BY StepNoLostWakeup
<1> QED BY <1>1, <1>2, AlwaysIInv, PTL DEF QueueSpec

------------------------------------------------------------------------------
(* The queue implements the abstract channel.                              *)

\* One step of the queue is one step of the channel, or none.
LEMMA StepSimulation ==
  ASSUME IInv, [QueueNext]_queueVars
  PROVE  [Channel!ChannelNext]_(Channel!channelVars)
<1> USE DEF IInv, QueueTypeOK, Coordination, WorkerPC, ProducerPC, StopperPC,
            Channel!channelVars
<1>1. ASSUME NEW t \in Task, Enqueue(t) PROVE Channel!Accept(t)
  BY <1>1 DEF Enqueue, Channel!Accept
<1>2. CASE NotifyOne
  BY <1>2 DEF NotifyOne, Woken
<1>3. CASE TestRunning
  BY <1>3 DEF TestRunning
<1>4. CASE LockQueue
  BY <1>4 DEF LockQueue
<1>5. CASE EvaluatePredicate
  BY <1>5 DEF EvaluatePredicate
<1>6. CASE Block
  BY <1>6 DEF Block
<1>7. CASE SpuriousWakeup
  BY <1>7 DEF SpuriousWakeup
<1>8. CASE PopOrBreak
  <2>1. CASE queue = <<>> /\ worker' = "exited"
    <3>1. Channel!Expire
      BY <1>8, <2>1 DEF PopOrBreak, Channel!Expire
    <3> QED BY <3>1 DEF Channel!ChannelNext
  <2>2. CASE queue # <<>> /\ worker' = "busy"
    <3>1. Channel!Take
      BY <1>8, <2>2 DEF PopOrBreak, Channel!Take
    <3> QED BY <3>1 DEF Channel!ChannelNext
  <2> QED BY <1>8, <2>1, <2>2 DEF PopOrBreak
<1>9. CASE FinishTask
  <2>1. Channel!Complete
    BY <1>9 DEF FinishTask, Channel!Complete
  <2> QED BY <2>1 DEF Channel!ChannelNext
<1>10. CASE StopClear
  <2>1. Channel!Close
    BY <1>10 DEF StopClear, Channel!Close
  <2> QED BY <2>1 DEF Channel!ChannelNext
<1>11. CASE StopFence
  BY <1>11 DEF StopFence
<1>12. CASE StopNotify
  BY <1>12 DEF StopNotify, Woken
<1>13. CASE StopJoin
  BY <1>13 DEF StopJoin
<1>14. CASE StopUnsubscribe
  <2>1. Channel!Seal
    BY <1>14 DEF StopUnsubscribe, Channel!Seal
  <2> QED BY <2>1 DEF Channel!ChannelNext
<1>15. CASE UNCHANGED queueVars
  BY <1>15 DEF queueVars
<1> QED
  BY <1>1, <1>2, <1>3, <1>4, <1>5, <1>6, <1>7, <1>8, <1>9, <1>10, <1>11, <1>12,
     <1>13, <1>14, <1>15 DEF QueueNext, Channel!ChannelNext

\* The mutex, the condition variable and Stop() give what RuleEngine and
\* AppManager rely on: tasks handed out one at a time and in order, at most one
\* after running_ is cleared, none in hand and none accepted once Stop() is over.
THEOREM Refinement == QueueSpec => ImplementsChannel
<1>1. QueueInit => Channel!ChannelInit
  BY DEF QueueInit, Channel!ChannelInit
<1>2. IInv /\ [QueueNext]_queueVars
        => [Channel!ChannelNext]_(Channel!channelVars)
  BY StepSimulation
<1> QED
  BY <1>1, <1>2, AlwaysIInv, PTL DEF QueueSpec, ImplementsChannel, Channel!ChannelSpec
==============================================================================
