-------------------------------- MODULE MCThreads --------------------------------
(***************************************************************************)
(* Three components whose threads race each other: a queue with its worker *)
(* (WorkerQueue), the registry of the devices (DeviceRegistry) and the     *)
(* speaker (Speaker).  They share nothing but the broker, so a behaviour   *)
(* is one of them alone.                                                   *)
(***************************************************************************)
EXTENDS WorkerQueue, DeviceRegistry, Speaker

VARIABLE component  \* which one runs

mcVars == <<component, queueVars, vars, speakerVars>>

\* A step of one of them.
OfQueue(A)    == component = "queue" /\ A /\ UNCHANGED <<component, vars, speakerVars>>
OfRegistry(A) == component = "registry" /\ A /\ UNCHANGED <<component, queueVars, speakerVars>>
OfSpeaker(A)  == component = "speaker" /\ A /\ UNCHANGED <<component, queueVars, vars>>

MCInit ==
    /\ component \in {"queue", "registry", "speaker"}
    /\ QueueInit /\ Init /\ SpeakerInit

MCNext == OfQueue(QueueNext) \/ OfRegistry(Next) \/ OfSpeaker(SpeakerNext)

\* QueueFairness: threads run, a task ends, a mutex that is free again and again is
\* granted.
FairQueue ==
    /\ WF_mcVars(OfQueue(NotifyOne))
    /\ WF_mcVars(OfQueue(TestRunning \/ EvaluatePredicate \/ Block \/ PopOrBreak))
    /\ WF_mcVars(OfQueue(FinishTask))
    /\ SF_mcVars(OfQueue(LockQueue))
    /\ SF_mcVars(OfQueue(StopFence))
    /\ WF_mcVars(OfQueue(StopNotify \/ StopJoin))
    /\ SF_mcVars(OfQueue(StopUnsubscribe))

\* Fairness of the registry: both threads run, time passes, a device that is alive
\* goes on sending heartbeats.
FairRegistry ==
    /\ \A d \in Device :
          /\ WF_mcVars(OfRegistry(Registered(d) \/ HeartbeatReads(d) \/ HeartbeatRestores(d)))
          /\ SF_mcVars(OfRegistry(Heartbeat(d)))
    /\ WF_mcVars(OfRegistry(Check))
    /\ WF_mcVars(OfRegistry(Tick))

\* The threads of the speaker run, a synthesis returns and a player program ends.
\* Nobody has to send anything.
FairSpeaker ==
    /\ WF_mcVars(OfSpeaker(\/ LookAtPlayer \/ StopPlayer \/ ReleaseSpeaker
                            \/ \E s \in Speak : StartThread(s)))
    /\ \A s \in Speak :
         /\ WF_mcVars(OfSpeaker(ThreadStep(s)))
         /\ WF_mcVars(OfSpeaker(SoundEnds(s)))

MCSpec == MCInit /\ [][MCNext]_mcVars /\ FairQueue /\ FairRegistry /\ FairSpeaker
==============================================================================
