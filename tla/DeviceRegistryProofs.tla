------------------------- MODULE DeviceRegistryProofs -------------------------
(***************************************************************************)
(* What DeviceRegistry guarantees for every set of devices, every timeout  *)
(* and every period of the check.                                          *)
(***************************************************************************)
EXTENDS DeviceRegistry, TLAPS

\* A callback has a device while it runs, and one that handles a heartbeat has
\* just written the entry of its device: no time passes in a callback.
CallbackOK ==
    /\ callback = "idle" <=> sender = {}
    /\ \A d \in sender : /\ callback = "track" => quiet[d] = 0
                         /\ callback # "track" => last_heartbeat[d] = 0

\* Only a running check has devices to mark.
CheckOK == checker = "asleep" => stale = {} /\ marking = {}

\* The age of an entry is the age of the device's last message, unless a
\* registration has not written its entry yet; and no entry is older than the
\* last check allowed and the time slept since.
AgesOK ==
    \A d \in Device :
        last_heartbeat[d] # Never =>
            /\ last_heartbeat[d] = quiet[d] \/ InCallback("track", d)
            /\ last_heartbeat[d] <= Timeout + (IF checker = "asleep" THEN slept ELSE 0)

\* A device heard between two checks is not about to be marked.
HeardOK ==
    \A d \in heard : /\ dev_state[d] # "offline"
                     /\ d \notin stale
                     /\ d \notin marking
                     /\ ~InCallback("track", d)

IInv == TypeOK /\ CallbackOK /\ CheckOK /\ AgesOK /\ HeardOK /\ OnlineIsWatched

LEMMA InitIInv == Init => IInv
BY TimingAssumption DEF Init, IInv, TypeOK, CallbackOK, CheckOK, AgesOK, HeardOK,
   OnlineIsWatched, Watched, InCallback, AtMostOne, Age, Longest, Never

\* One step per action; under it, where the provers need it, one per conjunct.
LEMMA StepIInv == IInv /\ [Next]_vars => IInv'
<1> SUFFICES ASSUME IInv, [Next]_vars PROVE IInv'
  OBVIOUS
<1> USE TimingAssumption
        DEF IInv, TypeOK, CallbackOK, CheckOK, AgesOK, HeardOK, OnlineIsWatched,
            Watched, InCallback, AtMostOne, Age, Longest, Never, HearFrom, Return,
            Handled, environment, history, memory
<1>1. ASSUME NEW d \in Device, BroadcastOnline(d) PROVE IInv'
  BY <1>1 DEF BroadcastOnline
<1>2. ASSUME NEW d \in Device, Registered(d) PROVE IInv'
  BY <1>2 DEF Registered
<1>3. ASSUME NEW d \in Device, Heartbeat(d) PROVE IInv'
  BY <1>3 DEF Heartbeat
<1>4. ASSUME NEW d \in Device, HeartbeatReads(d) PROVE IInv'
  BY <1>4 DEF HeartbeatReads
<1>5. ASSUME NEW d \in Device, HeartbeatRestores(d) PROVE IInv'
  BY <1>5 DEF HeartbeatRestores
<1>6. CASE Scan
  BY <1>6 DEF Scan, ScanFor, Older
<1>7. ASSUME NEW d \in Device, ReadStale(d) PROVE IInv'
  BY <1>7 DEF ReadStale
<1>8. CASE MarkOffline
  BY <1>8 DEF MarkOffline
<1>9. CASE EndCheck
  BY <1>9 DEF EndCheck
<1>10. CASE Tick
  BY <1>10 DEF Tick, TimePasses, Older1
<1>11. CASE Restart
  BY <1>11 DEF Restart, OnlineRows
<1>12. ASSUME NEW d \in Device, FallSilent(d) \/ ComeBack(d) PROVE IInv'
  BY <1>12 DEF FallSilent, ComeBack
<1>13. CASE UNCHANGED vars
  BY <1>13 DEF vars
<1> QED
  BY <1>1, <1>2, <1>3, <1>4, <1>5, <1>6, <1>7, <1>8, <1>9, <1>10, <1>11, <1>12,
     <1>13 DEF Next, Callback, Check

LEMMA AlwaysIInv == Spec => []IInv
BY InitIInv, StepIInv, PTL DEF Spec

\* Type correctness: in particular the check is never late.
THEOREM TypeCorrect == Spec => []TypeOK
<1>1. IInv => TypeOK
  BY DEF IInv
<1> QED BY <1>1, AlwaysIInv, PTL

\* However registrations, heartbeats, checks and restarts interleave, no device
\* is left online with nobody to notice its silence, but for those that were
\* online when the program was started and have not been heard since.
THEOREM OnlineWatched == Spec => []OnlineIsWatched
<1>1. IInv => OnlineIsWatched
  BY DEF IInv
<1> QED BY <1>1, AlwaysIInv, PTL

\* A silent device is marked within the timeout and one period of the check.
THEOREM OfflineBound == Spec => []OfflineInTime
<1>1. IInv => OfflineInTime
  BY TimingAssumption DEF IInv, TypeOK, CallbackOK, CheckOK, AgesOK, OnlineIsWatched,
     Watched, InCallback, AtMostOne, Age, Longest, Never, OfflineInTime
<1> QED BY <1>1, AlwaysIInv, PTL

\* Checks that run beside the heartbeats of a device do not mark it offline.
THEOREM HeardOnline == Spec => []HeardStaysOnline
<1>1. IInv => HeardStaysOnline
  BY DEF IInv, HeardOK, HeardStaysOnline
<1> QED BY <1>1, AlwaysIInv, PTL
==============================================================================
