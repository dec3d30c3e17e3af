---------------------------- MODULE LifecycleProofs ----------------------------
(***************************************************************************)
(* What Lifecycle guarantees for every number of subscriptions and however *)
(* often the connection is lost.                                           *)
(***************************************************************************)
EXTENDS Lifecycle, TLAPS

Acked == {acks[k] : k \in DOMAIN acks}

\* Where main can be: a component is started in mode "start" only, and what it
\* unsubscribes from is a subscription.
PlaceOK ==
    /\ main.mode = "wait" <=> main.pc = "wait"
    /\ main.pc \in {"open", "connect", "loop"} => main.mode = "start" /\ main.c = 0
    /\ main.pc \in {"subscribe", "record"} =>
         main.mode = "start" /\ main.c \in Component /\ main.i \in 1..(Count(main.c) + 1)
    /\ main.pc = "record" => main.i <= Count(main.c)
    /\ main.pc \in {"stop", "join"} => main.mode \in {"undo", "leave"} /\ main.c \in Component
    /\ main.pc \in {"unsubscribe", "erase"} =>
         /\ main.c \in {Rule, App, Sql} /\ main.i \in 1..Count(main.c)
         /\ main.mode = "start" => main.c = App
    /\ main.pc \in {"loop_stop", "disconnect"} => main.mode = "undo"
    /\ main.pc = "close" => main.mode \in {"undo", "leave"}
    /\ main.pc \in {"client", "client_disconnect"} => main.mode = "leave"
    /\ main.mode = "undo" => main.c # Llm

\* Which threads there can be, by where main is.
ThreadsOK ==
    /\ \A c \in Component : thread[c] # "none" =>
         /\ alive[c] /\ c # Sql
         /\ running[c] \/ c = Llm \/ (main.pc = "join" /\ main.c = c)
         /\ main.mode = "start" => c < main.c
         /\ main.mode = "undo" => main.pc \in {"stop", "join", "unsubscribe", "erase"} /\ c <= main.c
         /\ main.pc \in {"unsubscribe", "erase"} => c # main.c
    /\ main.pc \in {"subscribe", "record"} => alive[main.c]

LoopOK ==
    /\ loop \/ (callback = NoSub /\ ~renewing)
    /\ main.pc \in {"open", "connect", "loop"} => ~loop /\ ~connected
    /\ main.mode = "undo" /\ main.pc \in {"disconnect", "close"} => ~loop

\* A subscription that main is past, while it starts the components.
Before(s) == s[1] < main.c \/ (s[1] = main.c /\ s[2] < main.i)

\* Where a subscription can be.
SubsOK ==
    /\ pending \cap confirmed = {}
    /\ callback \in confirmed \cup {NoSub}
    /\ removed \cap (pending \cup confirmed) = {}
    /\ main.pc \in {"open", "connect", "loop"} => pending \cup confirmed = {}
    /\ main.pc \in {"open", "connect", "loop", "subscribe", "record"} =>
         removed = {} /\ \A s \in pending \cup confirmed : Before(s)

\* What is acknowledged is known to the broker; what is not renewed is forgotten.
BrokerOK == Acked \subseteq broker \cup dropped /\ ConfirmedIsRenewed

\* The SUBACK that is needed is on its way, or came early or was lost.
AcksOK ==
    /\ \A s \in Sub : Recorded(s) => s \in confirmed \/ (s \in pending /\ s \in deaf \cup Acked)
    /\ main.pc = "record" => Mine \in deaf \cup Acked

MainType == main \in [mode : Mode, pc : Pc, c : 0..5, i : Nat]

RestType ==
    /\ db \in {"open", "closed"} /\ link \in {"up", "down"}
    /\ connack \in BOOLEAN /\ connected \in BOOLEAN /\ loop \in BOOLEAN /\ renewing \in BOOLEAN
    /\ callback \in Sub \cup {NoSub}
    /\ pending \subseteq Sub /\ confirmed \subseteq Sub /\ acks \in Seq(Sub)
    /\ broker \subseteq Sub /\ known \subseteq Sub
    /\ running \in [Component -> BOOLEAN] /\ alive \in [Component -> BOOLEAN]
    /\ thread \in [Component -> {"none", "on", "asleep", "ended"}]
    /\ losses \in Nat
    /\ deaf \subseteq Sub /\ dropped \subseteq Sub /\ removed \subseteq Sub

IInv == MainType /\ RestType /\ PlaceOK /\ ThreadsOK /\ LoopOK /\ SubsOK /\ BrokerOK /\ AcksOK

------------------------------------------------------------------------------
\* The subscriptions are the pairs of a component and a number up to its count.
LEMMA CountType ==
  /\ \A c \in Component : Count(c) \in Nat
  /\ \A c \in {Rule, App, Sql} : Count(c) >= 1
  /\ Count(Llm) = 0
BY CountAssumption DEF Count, Component, Dev, Rule, App, Sql, Llm

LEMMA SubShape ==
  ASSUME NEW s \in Sub
  PROVE  s[1] \in Component /\ s[2] \in 1..Count(s[1]) /\ s = <<s[1], s[2]>> /\ s # NoSub
BY DEF Sub, Component, NoSub

LEMMA SubIntro ==
  ASSUME NEW c \in Component, NEW i \in 1..Count(c)
  PROVE  <<c, i>> \in Sub
BY DEF Sub

\* What is acknowledged after one more SUBACK, and after the first was handled.
LEMMA AckedAppend ==
  ASSUME acks \in Seq(Sub), NEW s \in Sub, acks' = Append(acks, s)
  PROVE  acks' \in Seq(Sub) /\ Acked' = Acked \cup {s}
BY DEF Acked

LEMMA AckedTail ==
  ASSUME acks \in Seq(Sub), acks # <<>>, acks' = Tail(acks)
  PROVE  /\ acks' \in Seq(Sub) /\ Head(acks) \in Sub
         /\ Acked = {Head(acks)} \cup Acked'
<1>1. acks' \in Seq(Sub) /\ Head(acks) \in Sub /\ Len(acks') = Len(acks) - 1
  OBVIOUS
<1>2. \A k \in 1..Len(acks) : acks[k] = IF k = 1 THEN Head(acks) ELSE acks'[k - 1]
  OBVIOUS
<1>3. Acked \subseteq {Head(acks)} \cup Acked'
  <2>1. ASSUME NEW k \in DOMAIN acks PROVE acks[k] \in {Head(acks)} \cup Acked'
    <3>1. CASE k = 1
      BY <1>2, <3>1
    <3>2. CASE k # 1
      <4>1. k - 1 \in DOMAIN acks' /\ acks[k] = acks'[k - 1]
        BY <1>1, <1>2, <3>2
      <4> QED
        BY <4>1 DEF Acked
    <3> QED
      BY <3>1, <3>2
  <2> QED
    BY <2>1 DEF Acked
<1>4. \A k \in 1..Len(acks') : acks'[k] = acks[k + 1] /\ k + 1 \in 1..Len(acks)
  BY <1>1
<1>5. {Head(acks)} \cup Acked' \subseteq Acked
  BY <1>1, <1>2, <1>4 DEF Acked
<1> QED
  BY <1>1, <1>3, <1>5

------------------------------------------------------------------------------
LEMMA InitIInv == Init => IInv
<1> SUFFICES ASSUME Init PROVE IInv
  OBVIOUS
<1>1. MainType
  BY DEF Init, MainType, Mode, Pc
<1>2. acks \in Seq(Sub)
  BY DEF Init
<1>3. RestType
  BY <1>2 DEF Init, RestType
<1>4. PlaceOK /\ ThreadsOK /\ LoopOK /\ SubsOK
  BY DEF Init, PlaceOK, ThreadsOK, LoopOK, SubsOK, Component, Llm
<1>5. BrokerOK /\ AcksOK
  BY DEF Init, BrokerOK, Acked, ConfirmedIsRenewed, AcksOK, Recorded
<1> QED
  BY <1>1, <1>3, <1>4, <1>5 DEF IInv

LEMMA ToRemoveIsSub ==
  ASSUME IInv, main.pc \in {"unsubscribe", "erase"}
  PROVE  ToRemove \in Sub
<1>1. main.c \in Component /\ main.i \in 1..Count(main.c) /\ Count(main.c) \in Nat
  BY CountType DEF IInv, PlaceOK, Component, Rule, App, Sql
<1>2. Count(main.c) + 1 - main.i \in 1..Count(main.c)
  BY <1>1
<1>3. CASE main.c = Rule
  BY <1>1, <1>2, <1>3, SubIntro DEF ToRemove
<1>4. CASE main.c # Rule
  BY <1>1, <1>4, SubIntro DEF ToRemove
<1> QED
  BY <1>3, <1>4

\* After an Unsubscribe() main is in its place again.
LEMMA UnsubscribedPlace ==
  ASSUME IInv, main.pc \in {"unsubscribe", "erase"}, Unsubscribed
  PROVE  PlaceOK'
<1>1. CASE main.i > 1
  BY <1>1, CountType DEF IInv, MainType, PlaceOK, Unsubscribed, Goto, Component, Rule, App, Sql
<1>2. CASE ~(main.i > 1) /\ main.mode = "start"
  BY <1>2 DEF IInv, MainType, PlaceOK, Unsubscribed, Goto, GiveUp, Component, Dev, Rule, App,
     Sql, Llm
<1>3. CASE ~(main.i > 1) /\ main.mode # "start"
  BY <1>3 DEF IInv, MainType, Mode, PlaceOK, Unsubscribed, StopDone, Goto, Component, Dev,
     Rule, App, Sql, Llm
<1> QED
  BY <1>1, <1>2, <1>3

------------------------------------------------------------------------------
\* The steps of main, of the components' threads and of the loop thread, one part of
\* the invariant at a time.
LEMMA OpenDatabaseStep ==
  ASSUME IInv, OpenDatabase
  PROVE  IInv'
<1>1. MainType'
  BY DEF IInv, MainType, PlaceOK, OpenDatabase, At, Goto, Pc
<1>2. RestType'
  BY DEF IInv, RestType, OpenDatabase, net, subs, client, comps
<1>3. PlaceOK'
  BY DEF PlaceOK, OpenDatabase, Goto
<1>4. ThreadsOK'
  BY DEF IInv, PlaceOK, ThreadsOK, OpenDatabase, At, Goto, comps
<1>5. LoopOK'
  BY DEF IInv, LoopOK, OpenDatabase, At, net, client
<1>6. SubsOK'
  BY DEF IInv, SubsOK, OpenDatabase, At, subs, client
<1>7. BrokerOK'
  BY DEF IInv, LoopOK, BrokerOK, Acked, ConfirmedIsRenewed, OpenDatabase, At, net, subs
<1>8. AcksOK'
  BY DEF AcksOK, Recorded, OpenDatabase, Goto
<1> QED
  BY <1>1, <1>2, <1>3, <1>4, <1>5, <1>6, <1>7, <1>8 DEF IInv

LEMMA ConnectStep ==
  ASSUME IInv, Connect
  PROVE  IInv'
<1>1. MainType'
  BY DEF MainType, Connect, Goto, Mode, Pc
<1>2. RestType'
  BY DEF IInv, RestType, Connect, subs, client, comps
<1>3. PlaceOK'
  BY DEF PlaceOK, Connect, Goto, Llm
<1>4. ThreadsOK'
  BY DEF IInv, PlaceOK, ThreadsOK, Connect, At, Goto, Component, comps
<1>5. LoopOK'
  BY DEF IInv, LoopOK, Connect, At, client
<1>6. SubsOK'
  BY DEF IInv, SubsOK, Connect, At, subs, client
<1>7. BrokerOK'
  BY DEF IInv, LoopOK, BrokerOK, Acked, ConfirmedIsRenewed, Connect, At, subs
<1>8. AcksOK'
  BY DEF AcksOK, Recorded, Connect, Goto
<1> QED
  BY <1>1, <1>2, <1>3, <1>4, <1>5, <1>6, <1>7, <1>8 DEF IInv

LEMMA LoopStartStep ==
  ASSUME IInv, LoopStart
  PROVE  IInv'
<1>1. MainType'
  BY DEF MainType, LoopStart, Goto, Begin, Mode, Pc, Dev
<1>2. RestType'
  BY DEF IInv, RestType, LoopStart, Begin, net, subs
<1>3. PlaceOK'
  BY CountType DEF PlaceOK, LoopStart, Goto, Begin, Component, Dev, Llm
<1>4. ThreadsOK'
  BY DEF IInv, RestType, PlaceOK, ThreadsOK, LoopStart, At, Goto, Begin, Component, Dev
<1>5. LoopOK'
  BY DEF IInv, LoopOK, LoopStart, At, Goto, Begin
<1>6. SubsOK'
  BY DEF IInv, SubsOK, LoopStart, At, subs
<1>7. BrokerOK'
  BY DEF IInv, LoopOK, BrokerOK, Acked, ConfirmedIsRenewed, LoopStart, At, net, subs
<1>8. AcksOK'
  BY SubShape DEF AcksOK, Recorded, LoopStart, Component, Dev, Goto, Begin
<1> QED
  BY <1>1, <1>2, <1>3, <1>4, <1>5, <1>6, <1>7, <1>8 DEF IInv

LEMMA SubscribeSendStep ==
  ASSUME IInv, SubscribeSend
  PROVE  IInv'
<1>a. Mine \in Sub
  BY SubIntro DEF IInv, PlaceOK, SubscribeSend, At, Mine
<1>b. /\ acks \in Seq(Sub)
      /\ acks' = Append(acks, Mine) => acks' \in Seq(Sub) /\ Acked' = Acked \cup {Mine}
  BY <1>a, AckedAppend DEF IInv, RestType
<1>c. UNCHANGED acks => Acked' = Acked
  BY DEF Acked
<1>1. MainType'
  BY DEF IInv, MainType, PlaceOK, SubscribeSend, At, Goto, GiveUp, Mode, Pc, Component
<1>2. RestType'
  BY <1>a DEF IInv, RestType, SubscribeSend, subs, client, comps
<1>3. PlaceOK'
  BY CountType DEF IInv, MainType, PlaceOK, SubscribeSend, At, Goto, GiveUp, Component, Dev,
     Rule, App, Sql, Llm
<1>4. ThreadsOK'
  BY DEF IInv, MainType, RestType, PlaceOK, ThreadsOK, SubscribeSend, At, Goto, GiveUp,
     Component, Dev, Rule, App, Sql, Llm, subs, client, comps
<1>5. LoopOK'
  BY DEF IInv, LoopOK, SubscribeSend, Goto, GiveUp, client
<1>6. SubsOK'
  BY DEF IInv, SubsOK, Before, SubscribeSend, At, Goto, GiveUp, subs, client
<1>7. BrokerOK'
  BY <1>a, <1>b, <1>c DEF IInv, BrokerOK, ConfirmedIsRenewed, SubscribeSend, subs, client
<1>8. AcksOK'
  BY <1>b DEF IInv, PlaceOK, AcksOK, Recorded, Mine, SubscribeSend, At, Goto, GiveUp, subs
<1> QED
  BY <1>1, <1>2, <1>3, <1>4, <1>5, <1>6, <1>7, <1>8 DEF IInv

LEMMA SubscribeRecordStep ==
  ASSUME IInv, SubscribeRecord
  PROVE  IInv'
<1>a. \A s \in Sub : Recorded(s)' => Recorded(s) \/ s = Mine
  BY SubShape DEF IInv, MainType, PlaceOK, Recorded, SubscribeRecord, At, Goto, Mine, Component
<1>b. Mine \in Sub
  BY SubIntro DEF IInv, PlaceOK, SubscribeRecord, At, Mine
<1>1. MainType'
  BY DEF IInv, MainType, PlaceOK, SubscribeRecord, At, Goto, Pc
<1>2. RestType'
  BY <1>b DEF IInv, RestType, SubscribeRecord, net, client, comps
<1>3. PlaceOK'
  BY CountType DEF IInv, PlaceOK, SubscribeRecord, At, Goto
<1>4. ThreadsOK'
  BY DEF IInv, PlaceOK, ThreadsOK, SubscribeRecord, At, Goto, comps
<1>5. LoopOK'
  BY DEF IInv, LoopOK, SubscribeRecord, Goto, client
<1>6. SubsOK'
  BY SubShape DEF IInv, MainType, RestType, SubsOK, Before, SubscribeRecord, At, Goto, Mine,
     client
<1>7. BrokerOK'
  BY DEF IInv, BrokerOK, Acked, ConfirmedIsRenewed, SubscribeRecord, net, client
<1>8. AcksOK'
  BY <1>a DEF IInv, AcksOK, Acked, SubscribeRecord, Goto, At, net
<1> QED
  BY <1>1, <1>2, <1>3, <1>4, <1>5, <1>6, <1>7, <1>8 DEF IInv

LEMMA StartThreadsStep ==
  ASSUME IInv, StartThreads
  PROVE  IInv'
<1>a. \A s \in Sub : Recorded(s)' => Recorded(s)
  BY SubShape, CountType DEF IInv, MainType, PlaceOK, Recorded, StartThreads, At, Goto, Begin,
     Component
<1>b. \A s \in Sub : Before(s) => Before(s)'
  BY SubShape DEF IInv, MainType, PlaceOK, Before, StartThreads, At, Goto, Begin, Component
<1>1. MainType'
  BY DEF IInv, MainType, PlaceOK, StartThreads, At, Goto, Begin, Llm
<1>2. RestType'
  BY DEF IInv, RestType, StartThreads, Begin, net, subs, client
<1>3. PlaceOK'
  BY CountType DEF IInv, MainType, PlaceOK, StartThreads, Goto, Begin, Component, Llm
<1>4. ThreadsOK'
  BY DEF IInv, RestType, PlaceOK, ThreadsOK, StartThreads, At, Goto, Begin, Component, Llm
<1>5. LoopOK'
  BY DEF IInv, LoopOK, StartThreads, Goto, Begin, client
<1>6. SubsOK'
  BY <1>b DEF IInv, RestType, SubsOK, StartThreads, At, Goto, Begin, subs, client
<1>7. BrokerOK'
  BY DEF IInv, BrokerOK, Acked, ConfirmedIsRenewed, StartThreads, net, subs, client
<1>8. AcksOK'
  BY <1>a DEF IInv, AcksOK, Acked, StartThreads, Goto, Begin, net, subs
<1> QED
  BY <1>1, <1>2, <1>3, <1>4, <1>5, <1>6, <1>7, <1>8 DEF IInv

LEMMA ListenStep ==
  ASSUME IInv, Listen
  PROVE  IInv'
<1>a. \A s \in Sub : s[1] < Llm
  BY SubShape, CountType DEF Component, Llm
<1>b. \A s \in Sub : Recorded(s)' => Recorded(s)
  BY <1>a DEF IInv, PlaceOK, Recorded, Listen, At, Goto, GiveUp
<1>1. MainType'
  BY DEF IInv, MainType, PlaceOK, Listen, At, Goto, GiveUp, Mode, Pc, Component
<1>2. RestType'
  BY DEF IInv, RestType, Listen, net, subs, client
<1>3. PlaceOK'
  BY CountType DEF IInv, MainType, PlaceOK, Listen, At, Goto, GiveUp, Component, Dev, Rule,
     App, Sql, Llm, net, subs, client
<1>4. ThreadsOK'
  BY DEF IInv, RestType, PlaceOK, ThreadsOK, Listen, At, Goto, GiveUp, Component, Dev, Sql, Llm
<1>5. LoopOK'
  BY DEF IInv, PlaceOK, LoopOK, Listen, At, Goto, GiveUp, net, subs, client
<1>6. SubsOK'
  BY DEF IInv, SubsOK, Listen, Goto, GiveUp, subs, client
<1>7. BrokerOK'
  BY DEF IInv, BrokerOK, Acked, ConfirmedIsRenewed, Listen, net, subs, client
<1>8. AcksOK'
  BY <1>b DEF IInv, AcksOK, Acked, Listen, Goto, GiveUp, net, subs
<1> QED
  BY <1>1, <1>2, <1>3, <1>4, <1>5, <1>6, <1>7, <1>8 DEF IInv

LEMMA StopBeginStep ==
  ASSUME IInv, StopBegin
  PROVE  IInv'
<1>1. MainType'
  BY DEF IInv, MainType, PlaceOK, StopBegin, At, Goto, StopDone, Pc, Component
<1>2. RestType'
  BY DEF IInv, RestType, StopBegin, StopDone, net, subs, client, comps
<1>3. PlaceOK'
  BY CountType DEF IInv, PlaceOK, StopBegin, At, Goto, StopDone, Component, Dev, Llm
<1>4. ThreadsOK'
  <2>1. CASE main.c = Sql
    BY <2>1 DEF IInv, MainType, RestType, PlaceOK, ThreadsOK, StopBegin, At, Goto, Component,
       Sql, Llm, comps
  <2>2. CASE main.c # Sql /\ running[main.c]
    <3>1. /\ main' = [mode |-> main.mode, pc |-> "join", c |-> main.c, i |-> 0]
          /\ main.pc = "stop" /\ UNCHANGED alive
          /\ running' = [running EXCEPT ![main.c] = FALSE]
      BY <2>2 DEF StopBegin, At, Goto
    <3>2. \A c \in Component : thread'[c] # "none" => thread[c] # "none"
      BY <2>2 DEF IInv, RestType, StopBegin, Component, App
    <3> QED
      BY <2>2, <3>1, <3>2 DEF IInv, MainType, RestType, PlaceOK, ThreadsOK, Component
  <2>3. CASE /\ main.c # Sql /\ ~running[main.c]
             /\ thread[main.c] # "none" /\ main.mode = "leave"
    BY <2>3 DEF IInv, MainType, RestType, PlaceOK, ThreadsOK, StopBegin, At, Goto, Component,
       Sql, Llm, comps
  <2>4. CASE /\ main.c # Sql /\ ~running[main.c]
             /\ ~(thread[main.c] # "none" /\ main.mode = "leave")
    <3>1. thread[main.c] = "none"
      BY <2>4 DEF IInv, PlaceOK, ThreadsOK, StopBegin, At
    <3>2. StopDone(main.c) /\ UNCHANGED <<running, thread>>
      BY <2>4 DEF StopBegin
    <3>3. ASSUME NEW c \in Component, thread[c] # "none"
          PROVE  c # main.c /\ alive'[c] /\ (main.mode = "undo" => c < main.c)
      BY <3>1, <3>2, <3>3 DEF IInv, MainType, RestType, PlaceOK, ThreadsOK, StopBegin,
         StopDone, At, Component
    <3>4. main'.mode = main.mode /\ main.mode \in {"undo", "leave"}
      BY <3>2 DEF IInv, PlaceOK, StopBegin, StopDone, At, Goto
    <3>5. main.mode = "undo" => \/ main.c = Dev
                                \/ main'.pc = "stop" /\ main'.c = main.c - 1
      BY <3>2 DEF StopDone, Goto
    <3>6. main'.pc \in {"stop", "client", "loop_stop"}
      BY <3>2 DEF StopDone, Goto
    <3>7. main.c \in Component
      BY DEF IInv, PlaceOK, StopBegin, At
    <3> QED
      BY <3>2, <3>3, <3>4, <3>5, <3>6, <3>7 DEF IInv, ThreadsOK, StopBegin, At, Component, Dev
  <2> QED
    BY <2>1, <2>2, <2>3, <2>4
<1>5. LoopOK'
  BY DEF IInv, LoopOK, StopBegin, Goto, StopDone, client
<1>6. SubsOK'
  BY DEF IInv, SubsOK, StopBegin, Goto, StopDone, subs, client
<1>7. BrokerOK'
  BY DEF IInv, BrokerOK, Acked, ConfirmedIsRenewed, StopBegin, net, subs, client
<1>8. AcksOK'
  BY DEF IInv, PlaceOK, AcksOK, Recorded, StopBegin, At, Goto, StopDone
<1> QED
  BY <1>1, <1>2, <1>3, <1>4, <1>5, <1>6, <1>7, <1>8 DEF IInv

LEMMA JoinStep ==
  ASSUME IInv, Join
  PROVE  IInv'
<1>1. MainType'
  BY CountType DEF IInv, MainType, PlaceOK, Join, At, Goto, StopDone, Pc, Component
<1>2. RestType'
  BY DEF IInv, RestType, Join, StopDone, net, subs, client
<1>3. PlaceOK'
  BY CountType DEF IInv, PlaceOK, Join, At, Goto, StopDone, Component, Dev, Rule, App, Sql, Llm
<1>4. ThreadsOK'
  BY DEF IInv, RestType, PlaceOK, ThreadsOK, Join, At, Goto, StopDone, Dev
<1>5. LoopOK'
  BY DEF IInv, LoopOK, Join, Goto, StopDone, client
<1>6. SubsOK'
  BY DEF IInv, SubsOK, Join, Goto, StopDone, subs, client
<1>7. BrokerOK'
  BY DEF IInv, BrokerOK, Acked, ConfirmedIsRenewed, Join, net, subs, client
<1>8. AcksOK'
  BY DEF IInv, PlaceOK, AcksOK, Recorded, Join, At, Goto, StopDone
<1> QED
  BY <1>1, <1>2, <1>3, <1>4, <1>5, <1>6, <1>7, <1>8 DEF IInv

LEMMA UnsubscribeSendStep ==
  ASSUME IInv, UnsubscribeSend
  PROVE  IInv'
<1>a. ToRemove \in Sub
  BY ToRemoveIsSub DEF UnsubscribeSend, At
<1>1. MainType'
  BY DEF IInv, MainType, PlaceOK, UnsubscribeSend, At, Goto, GiveUp, StopDone, Unsubscribed,
     Mode, Pc, Rule, App, Sql
<1>2. RestType'
  BY <1>a DEF IInv, RestType, UnsubscribeSend, StopDone, Unsubscribed, client
<1>3. PlaceOK'
  <2>1. CASE Unsubscribed
    BY <2>1, UnsubscribedPlace DEF UnsubscribeSend, At
  <2>2. CASE Goto(main.mode, "erase", main.c, main.i)
    BY <2>2 DEF IInv, PlaceOK, UnsubscribeSend, At, Goto
  <2> QED
    BY <2>1, <2>2 DEF UnsubscribeSend
<1>4. ThreadsOK'
  BY SMTT(30) DEF IInv, MainType, RestType, PlaceOK, ThreadsOK, UnsubscribeSend, At, Goto, GiveUp,
     StopDone, Unsubscribed, Dev
<1>5. LoopOK'
  BY DEF IInv, LoopOK, UnsubscribeSend, Goto, GiveUp, StopDone, Unsubscribed, client
<1>6. SubsOK'
  BY DEF IInv, SubsOK, UnsubscribeSend, Goto, GiveUp, StopDone, Unsubscribed, client
<1>7. BrokerOK'
  BY DEF IInv, BrokerOK, Acked, ConfirmedIsRenewed, UnsubscribeSend, client
<1>8. AcksOK'
  BY DEF IInv, AcksOK, Acked, Recorded, UnsubscribeSend, Goto, GiveUp, StopDone, Unsubscribed
<1> QED
  BY <1>1, <1>2, <1>3, <1>4, <1>5, <1>6, <1>7, <1>8 DEF IInv

LEMMA UnsubscribeEraseStep ==
  ASSUME IInv, UnsubscribeErase
  PROVE  IInv'
<1>1. MainType'
  BY DEF IInv, MainType, PlaceOK, UnsubscribeErase, At, Goto, GiveUp, StopDone, Unsubscribed,
     Mode, Pc, Rule, App, Sql
<1>2. RestType'
  BY DEF IInv, RestType, UnsubscribeErase, StopDone, Unsubscribed, net, client
<1>3. PlaceOK'
  BY UnsubscribedPlace DEF UnsubscribeErase, At
<1>4. ThreadsOK'
  BY DEF IInv, MainType, RestType, PlaceOK, ThreadsOK, UnsubscribeErase, At, Goto, GiveUp,
     StopDone, Unsubscribed, Component, Dev
<1>5. LoopOK'
  BY DEF IInv, LoopOK, UnsubscribeErase, Goto, GiveUp, StopDone, Unsubscribed, client
<1>6. SubsOK'
  BY DEF IInv, SubsOK, UnsubscribeErase, Goto, GiveUp, StopDone, Unsubscribed, MutexFree, client
<1>7. BrokerOK'
  BY DEF IInv, BrokerOK, Acked, ConfirmedIsRenewed, UnsubscribeErase, net, client
<1>8. AcksOK'
  BY DEF IInv, PlaceOK, AcksOK, Recorded, UnsubscribeErase, At, Goto, GiveUp, StopDone,
     Unsubscribed
<1> QED
  BY <1>1, <1>2, <1>3, <1>4, <1>5, <1>6, <1>7, <1>8 DEF IInv

LEMMA LoopStopStep ==
  ASSUME IInv, LoopStop
  PROVE  IInv'
<1>1. MainType'
  BY DEF IInv, MainType, LoopStop, Goto, Pc
<1>2. RestType'
  BY DEF IInv, RestType, LoopStop, net, subs, comps
<1>3. PlaceOK'
  BY DEF IInv, PlaceOK, LoopStop, At, Goto, Llm
<1>4. ThreadsOK'
  BY DEF IInv, PlaceOK, ThreadsOK, LoopStop, Goto, comps
<1>5. LoopOK'
  BY DEF LoopOK, LoopStop, Goto
<1>6. SubsOK'
  BY DEF IInv, SubsOK, LoopStop, Goto, subs
<1>7. BrokerOK'
  BY DEF IInv, BrokerOK, Acked, ConfirmedIsRenewed, LoopStop, net, subs
<1>8. AcksOK'
  BY DEF IInv, PlaceOK, AcksOK, Recorded, LoopStop, Goto
<1> QED
  BY <1>1, <1>2, <1>3, <1>4, <1>5, <1>6, <1>7, <1>8 DEF IInv

LEMMA DisconnectStep ==
  ASSUME IInv, Disconnect
  PROVE  IInv'
<1>a. <<>> \in Seq(Sub)
  OBVIOUS
<1>1. MainType'
  BY DEF IInv, MainType, Disconnect, Goto, Pc
<1>2. RestType'
  BY <1>a DEF IInv, RestType, Disconnect, Forget, client, comps
<1>3. PlaceOK'
  BY DEF IInv, PlaceOK, Disconnect, At, Goto, Llm
<1>4. ThreadsOK'
  BY DEF IInv, PlaceOK, ThreadsOK, Disconnect, At, Goto, comps
<1>5. LoopOK'
  BY DEF IInv, LoopOK, Disconnect, At, Goto, client
<1>6. SubsOK'
  BY DEF IInv, SubsOK, Disconnect, Goto, Forget, MutexFree, client
<1>7. BrokerOK'
  BY DEF IInv, BrokerOK, Acked, ConfirmedIsRenewed, Disconnect, Forget
<1>8. AcksOK'
  BY DEF IInv, PlaceOK, AcksOK, Recorded, Disconnect, At, Goto
<1> QED
  BY <1>1, <1>2, <1>3, <1>4, <1>5, <1>6, <1>7, <1>8 DEF IInv

LEMMA CloseDatabaseStep ==
  ASSUME IInv, CloseDatabase
  PROVE  IInv'
<1>1. MainType'
  BY DEF MainType, CloseDatabase, Goto, Mode, Pc, Component
<1>2. RestType'
  BY DEF IInv, RestType, CloseDatabase, net, subs, client, comps
<1>3. PlaceOK'
  BY DEF PlaceOK, CloseDatabase, Goto
<1>4. ThreadsOK'
  BY DEF IInv, ThreadsOK, CloseDatabase, At, Goto, comps
<1>5. LoopOK'
  BY DEF IInv, LoopOK, CloseDatabase, Goto, client
<1>6. SubsOK'
  BY DEF IInv, SubsOK, CloseDatabase, Goto, subs, client
<1>7. BrokerOK'
  BY DEF IInv, BrokerOK, Acked, ConfirmedIsRenewed, CloseDatabase, net, subs, client
<1>8. AcksOK'
  BY DEF AcksOK, Recorded, CloseDatabase, Goto
<1> QED
  BY <1>1, <1>2, <1>3, <1>4, <1>5, <1>6, <1>7, <1>8 DEF IInv

LEMMA SignalStep ==
  ASSUME IInv, Signal
  PROVE  IInv'
<1>1. MainType'
  BY DEF MainType, Signal, Goto, Mode, Pc
<1>2. RestType'
  BY DEF IInv, RestType, Signal, net, subs, client, comps
<1>3. PlaceOK'
  BY DEF PlaceOK, Signal, Goto
<1>4. ThreadsOK'
  BY DEF IInv, ThreadsOK, Signal, At, Goto, comps
<1>5. LoopOK'
  BY DEF IInv, LoopOK, Signal, Goto, client
<1>6. SubsOK'
  BY DEF IInv, SubsOK, Signal, Goto, subs, client
<1>7. BrokerOK'
  BY DEF IInv, BrokerOK, Acked, ConfirmedIsRenewed, Signal, net, subs, client
<1>8. AcksOK'
  BY DEF AcksOK, Recorded, Signal, Goto
<1> QED
  BY <1>1, <1>2, <1>3, <1>4, <1>5, <1>6, <1>7, <1>8 DEF IInv

LEMMA OnConnectStep ==
  ASSUME IInv, OnConnect
  PROVE  IInv'
<1>1. MainType'
  BY DEF IInv, MainType, OnConnect
<1>2. RestType'
  BY DEF IInv, RestType, OnConnect, subs, comps
<1>3. PlaceOK'
  BY DEF IInv, PlaceOK, OnConnect
<1>4. ThreadsOK'
  BY DEF IInv, ThreadsOK, OnConnect, comps
<1>5. LoopOK'
  BY DEF IInv, LoopOK, OnConnect, LoopIdle
<1>6. SubsOK'
  BY DEF IInv, SubsOK, Before, OnConnect, subs
<1>7. BrokerOK'
  BY DEF IInv, BrokerOK, Acked, ConfirmedIsRenewed, OnConnect, subs
<1>8. AcksOK'
  BY DEF IInv, AcksOK, Acked, Recorded, Mine, OnConnect, subs
<1> QED
  BY <1>1, <1>2, <1>3, <1>4, <1>5, <1>6, <1>7, <1>8 DEF IInv

LEMMA RenewStep ==
  ASSUME IInv, Renew
  PROVE  IInv'
<1>1. MainType'
  BY DEF IInv, MainType, Renew
<1>2. RestType'
  BY DEF IInv, RestType, Renew, subs, comps
<1>3. PlaceOK'
  BY DEF IInv, PlaceOK, Renew
<1>4. ThreadsOK'
  BY DEF IInv, ThreadsOK, Renew, comps
<1>5. LoopOK'
  BY DEF IInv, LoopOK, Renew
<1>6. SubsOK'
  BY DEF IInv, SubsOK, Before, Renew, subs
<1>7. BrokerOK'
  BY DEF IInv, BrokerOK, Acked, ConfirmedIsRenewed, Renew, subs
<1>8. AcksOK'
  BY DEF IInv, AcksOK, Acked, Recorded, Mine, Renew, subs
<1> QED
  BY <1>1, <1>2, <1>3, <1>4, <1>5, <1>6, <1>7, <1>8 DEF IInv

LEMMA OnSubscribeStep ==
  ASSUME IInv, OnSubscribe
  PROVE  IInv'
<1>a. acks' \in Seq(Sub) /\ Head(acks) \in Sub /\ Acked = {Head(acks)} \cup Acked'
  BY AckedTail DEF IInv, RestType, OnSubscribe
<1>1. MainType'
  BY DEF IInv, MainType, OnSubscribe
<1>2. RestType'
  BY DEF IInv, RestType, OnSubscribe, client, comps
<1>3. PlaceOK'
  BY DEF IInv, PlaceOK, OnSubscribe
<1>4. ThreadsOK'
  BY DEF IInv, ThreadsOK, OnSubscribe, comps
<1>5. LoopOK'
  BY DEF IInv, LoopOK, OnSubscribe, client
<1>6. SubsOK'
  BY DEF IInv, SubsOK, Before, OnSubscribe, client
<1>7. BrokerOK'
  BY <1>a DEF IInv, BrokerOK, ConfirmedIsRenewed, OnSubscribe, client
<1>8. AcksOK'
  <2>1. \A s \in Sub : Recorded(s)' <=> Recorded(s)
    BY DEF OnSubscribe, Recorded
  <2>2. confirmed \subseteq confirmed' /\ deaf \subseteq deaf' /\ Acked \subseteq Acked' \cup {Head(acks)}
    BY <1>a DEF OnSubscribe
  <2>3. \A s \in pending : s # Head(acks) => s \in pending'
    BY DEF OnSubscribe
  <2>4. Head(acks) \in pending => Head(acks) \in confirmed'
    BY DEF OnSubscribe
  <2>5. Head(acks) \notin pending => Head(acks) \in deaf'
    BY DEF OnSubscribe
  <2>6. main.pc = "record" => Mine \notin pending
    BY DEF IInv, MainType, SubsOK, Before, Mine
  <2>7. UNCHANGED main /\ Mine' = Mine
    BY DEF OnSubscribe, Mine
  <2> QED
    BY <2>1, <2>2, <2>3, <2>4, <2>5, <2>6, <2>7 DEF IInv, AcksOK
<1> QED
  BY <1>1, <1>2, <1>3, <1>4, <1>5, <1>6, <1>7, <1>8 DEF IInv

LEMMA ConnectionLostStep ==
  ASSUME IInv, ConnectionLost
  PROVE  IInv'
<1>a. <<>> \in Seq(Sub)
  OBVIOUS
<1>b. {acks[k] : k \in DOMAIN acks} \subseteq Sub
  BY DEF IInv, RestType
<1>c. deaf' \subseteq Sub /\ losses' \in Nat
  BY <1>b DEF IInv, RestType, ConnectionLost
<1>1. MainType'
  BY DEF IInv, MainType, ConnectionLost
<1>2. RestType'
  BY <1>a, <1>c DEF IInv, RestType, ConnectionLost, client, comps
<1>3. PlaceOK'
  BY DEF IInv, PlaceOK, ConnectionLost
<1>4. ThreadsOK'
  BY DEF IInv, ThreadsOK, ConnectionLost, comps
<1>5. LoopOK'
  BY DEF IInv, LoopOK, ConnectionLost, client
<1>6. SubsOK'
  BY DEF IInv, SubsOK, Before, ConnectionLost, client
<1>7. BrokerOK'
  BY DEF BrokerOK, Acked, ConfirmedIsRenewed, ConnectionLost
<1>8. AcksOK'
  BY DEF IInv, AcksOK, Acked, ConnectionLost, Recorded, Mine
<1> QED
  BY <1>1, <1>2, <1>3, <1>4, <1>5, <1>6, <1>7, <1>8 DEF IInv

LEMMA ReconnectStep ==
  ASSUME IInv, Reconnect
  PROVE  IInv'
<1>1. MainType'
  BY DEF IInv, MainType, Reconnect
<1>2. RestType'
  BY DEF IInv, RestType, Reconnect, subs, client, comps
<1>3. PlaceOK'
  BY DEF IInv, PlaceOK, Reconnect
<1>4. ThreadsOK'
  BY DEF IInv, ThreadsOK, Reconnect, comps
<1>5. LoopOK'
  BY DEF IInv, LoopOK, Reconnect, client
<1>6. SubsOK'
  BY DEF IInv, SubsOK, Before, Reconnect, subs, client
<1>7. BrokerOK'
  BY DEF IInv, BrokerOK, Acked, ConfirmedIsRenewed, Reconnect, LoopIdle, subs
<1>8. AcksOK'
  BY DEF IInv, AcksOK, Acked, Recorded, Mine, Reconnect, subs
<1> QED
  BY <1>1, <1>2, <1>3, <1>4, <1>5, <1>6, <1>7, <1>8 DEF IInv

LEMMA OnMessageStep ==
  ASSUME IInv, NEW s \in Sub, OnMessage(s)
  PROVE  IInv'
<1>1. MainType'
  BY DEF IInv, MainType, OnMessage
<1>2. RestType'
  BY DEF IInv, RestType, OnMessage, net, subs, comps
<1>3. PlaceOK'
  BY DEF IInv, PlaceOK, OnMessage
<1>4. ThreadsOK'
  BY DEF IInv, ThreadsOK, OnMessage, comps
<1>5. LoopOK'
  BY DEF IInv, LoopOK, OnMessage, LoopIdle
<1>6. SubsOK'
  BY DEF IInv, SubsOK, Before, OnMessage, subs
<1>7. BrokerOK'
  BY DEF IInv, BrokerOK, Acked, ConfirmedIsRenewed, OnMessage, net, subs
<1>8. AcksOK'
  BY DEF IInv, AcksOK, Acked, Recorded, Mine, OnMessage, net, subs
<1> QED
  BY <1>1, <1>2, <1>3, <1>4, <1>5, <1>6, <1>7, <1>8 DEF IInv

LEMMA OnMessageReturnsStep ==
  ASSUME IInv, OnMessageReturns
  PROVE  IInv'
<1>1. MainType'
  BY DEF IInv, MainType, OnMessageReturns
<1>2. RestType'
  BY DEF IInv, RestType, OnMessageReturns, net, subs, comps
<1>3. PlaceOK'
  BY DEF IInv, PlaceOK, OnMessageReturns
<1>4. ThreadsOK'
  BY DEF IInv, ThreadsOK, OnMessageReturns, comps
<1>5. LoopOK'
  BY DEF IInv, LoopOK, OnMessageReturns
<1>6. SubsOK'
  BY DEF IInv, SubsOK, Before, OnMessageReturns, subs
<1>7. BrokerOK'
  BY DEF IInv, BrokerOK, Acked, ConfirmedIsRenewed, OnMessageReturns, net, subs
<1>8. AcksOK'
  BY DEF IInv, AcksOK, Acked, Recorded, Mine, OnMessageReturns, net, subs
<1> QED
  BY <1>1, <1>2, <1>3, <1>4, <1>5, <1>6, <1>7, <1>8 DEF IInv

LEMMA ThreadEndsStep ==
  ASSUME IInv, NEW c \in Component, ThreadEnds(c)
  PROVE  IInv'
<1>1. MainType'
  BY DEF IInv, MainType, ThreadEnds
<1>2. RestType'
  BY DEF IInv, RestType, ThreadEnds, net, subs, client
<1>3. PlaceOK'
  BY DEF IInv, PlaceOK, ThreadEnds
<1>4. ThreadsOK'
  BY DEF IInv, ThreadsOK, ThreadEnds
<1>5. LoopOK'
  BY DEF IInv, LoopOK, ThreadEnds, net, client
<1>6. SubsOK'
  BY DEF IInv, SubsOK, Before, ThreadEnds, subs, client
<1>7. BrokerOK'
  BY DEF IInv, BrokerOK, Acked, ConfirmedIsRenewed, ThreadEnds, net, subs, client
<1>8. AcksOK'
  BY DEF IInv, AcksOK, Acked, Recorded, Mine, ThreadEnds, net, subs
<1> QED
  BY <1>1, <1>2, <1>3, <1>4, <1>5, <1>6, <1>7, <1>8 DEF IInv

LEMMA WorkerWakesStep ==
  ASSUME IInv, WorkerWakes
  PROVE  IInv'
<1>1. MainType'
  BY DEF IInv, MainType, WorkerWakes
<1>2. RestType'
  BY DEF IInv, RestType, WorkerWakes, net, subs, client
<1>3. PlaceOK'
  BY DEF IInv, PlaceOK, WorkerWakes
<1>4. ThreadsOK'
  BY DEF IInv, ThreadsOK, WorkerWakes
<1>5. LoopOK'
  BY DEF IInv, LoopOK, WorkerWakes, net, client
<1>6. SubsOK'
  BY DEF IInv, SubsOK, Before, WorkerWakes, subs, client
<1>7. BrokerOK'
  BY DEF IInv, BrokerOK, Acked, ConfirmedIsRenewed, WorkerWakes, net, subs, client
<1>8. AcksOK'
  BY DEF IInv, AcksOK, Acked, Recorded, Mine, WorkerWakes, net, subs
<1> QED
  BY <1>1, <1>2, <1>3, <1>4, <1>5, <1>6, <1>7, <1>8 DEF IInv

LEMMA ServerFailsStep ==
  ASSUME IInv, ServerFails
  PROVE  IInv'
<1>1. MainType'
  BY DEF IInv, MainType, ServerFails
<1>2. RestType'
  BY DEF IInv, RestType, ServerFails, net, subs, client
<1>3. PlaceOK'
  BY DEF IInv, PlaceOK, ServerFails
<1>4. ThreadsOK'
  BY DEF IInv, ThreadsOK, ServerFails
<1>5. LoopOK'
  BY DEF IInv, LoopOK, ServerFails, net, client
<1>6. SubsOK'
  BY DEF IInv, SubsOK, Before, ServerFails, subs, client
<1>7. BrokerOK'
  BY DEF IInv, BrokerOK, Acked, ConfirmedIsRenewed, ServerFails, net, subs, client
<1>8. AcksOK'
  BY DEF IInv, AcksOK, Acked, Recorded, Mine, ServerFails, net, subs
<1> QED
  BY <1>1, <1>2, <1>3, <1>4, <1>5, <1>6, <1>7, <1>8 DEF IInv

------------------------------------------------------------------------------
LEMMA StutterStep ==
  ASSUME IInv, UNCHANGED vars
  PROVE  IInv'
<1>1. UNCHANGED <<main, db, net, subs, client, comps>>
  BY DEF vars
<1>2. MainType' /\ RestType' /\ PlaceOK' /\ ThreadsOK' /\ LoopOK'
  BY <1>1 DEF IInv, MainType, RestType, PlaceOK, ThreadsOK, LoopOK, net, subs, client, comps
<1>3. SubsOK' /\ BrokerOK' /\ AcksOK'
  BY <1>1 DEF IInv, SubsOK, BrokerOK, AcksOK, Acked, Before, ConfirmedIsRenewed, Recorded, Mine,
     net, subs, client, comps
<1> QED
  BY <1>2, <1>3 DEF IInv

LEMMA StepIInv == IInv /\ [Next]_vars => IInv'
<1> SUFFICES ASSUME IInv, [Next]_vars PROVE IInv'
  OBVIOUS
<1>1. CASE MainStep
  BY <1>1, OpenDatabaseStep, ConnectStep, LoopStartStep, SubscribeSendStep, SubscribeRecordStep,
     StartThreadsStep, ListenStep, StopBeginStep, JoinStep, UnsubscribeSendStep,
     UnsubscribeEraseStep, LoopStopStep, DisconnectStep, CloseDatabaseStep DEF MainStep
<1>2. CASE LoopStep
  BY <1>2, OnConnectStep, RenewStep, OnSubscribeStep, ConnectionLostStep, ReconnectStep,
     OnMessageStep, OnMessageReturnsStep DEF LoopStep
<1>3. ASSUME NEW c \in Component, ThreadEnds(c) PROVE IInv'
  BY <1>3, ThreadEndsStep
<1> QED
  BY <1>1, <1>2, <1>3, SignalStep, WorkerWakesStep, ServerFailsStep, StutterStep DEF Next

LEMMA Inductive == Spec => []IInv
BY InitIInv, StepIInv, PTL DEF Spec

------------------------------------------------------------------------------
\* main, the client and the components have their types (main.cpp, MqttClient).
THEOREM TypeCorrect == Spec => []TypeOK
<1>1. IInv => TypeOK
  BY DEF IInv, MainType, RestType, TypeOK
<1> QED
  BY <1>1, Inductive, PTL

\* Reconnecting leaves no component deaf, however many subscriptions there are and
\* however often the connection is lost (on_connect, on_subscribe).
THEOREM Renewed == Spec => []ConfirmedIsRenewed
<1>1. IInv => ConfirmedIsRenewed
  BY DEF IInv, BrokerOK
<1> QED
  BY <1>1, Inductive, PTL

\* What Unsubscribe() has taken away never calls back (Unsubscribe, on_message).
THEOREM NoLateCallback == Spec => []NoCallbackAfterRemoval
<1>1. IInv => NoCallbackAfterRemoval
  <2>1. SUFFICES ASSUME IInv PROVE NoCallbackAfterRemoval
    OBVIOUS
  <2>2. NoSub \notin removed
    BY <2>1, SubShape DEF IInv, RestType
  <2> QED
    BY <2>1, <2>2 DEF IInv, SubsOK, NoCallbackAfterRemoval
<1> QED
  BY <1>1, Inductive, PTL

\* A failed start leaves no thread and no callback behind when the database is
\* closed, and no object is destroyed with a thread (the early returns of main).
THEOREM CleanUndo == Spec => []FailedStartIsClean
<1>1. IInv => FailedStartIsClean
  BY DEF IInv, RestType, ThreadsOK, LoopOK, FailedStartIsClean, At
<1> QED
  BY <1>1, Inductive, PTL

\* Only the two races of the SUBACK make a subscription deaf (Subscribe,
\* on_subscribe, on_connect).
THEOREM OnlyRacesDeafen == Spec => []DeafOnlyByRace
<1>1. IInv => DeafOnlyByRace
  BY DEF IInv, AcksOK, Acked, DeafOnlyByRace
<1> QED
  BY <1>1, Inductive, PTL
==============================================================================
