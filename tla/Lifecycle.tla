------------------------------- MODULE Lifecycle -------------------------------
(***************************************************************************)
(* main.cpp and MqttClient: the components are started one by one, each    *)
(* with its subscriptions and its threads, while the loop thread of the    *)
(* client confirms subscriptions, runs callbacks and reconnects.  A start  *)
(* that fails is undone; a signal ends the program.                        *)
(*                                                                         *)
(* The broker forgets the subscriptions of a lost connection               *)
(* (clean_session).  It handles a packet at once and in order; its answer  *)
(* and its messages take their time.                                       *)
(***************************************************************************)
EXTENDS Integers, Sequences

CONSTANTS
    DevSubs, RuleSubs, AppSubs,  \* how many subscriptions each has (4, 2, 3)
    MaxLosses                    \* bound: how often the connection is lost

ASSUME CountAssumption == DevSubs \in Nat /\ RuleSubs \in Nat \ {0} /\ AppSubs \in Nat \ {0}

\* The components, in the order they are started.
Dev  == 1
Rule == 2
App  == 3
Sql  == 4
Llm  == 5
Component == 1..5

Count(c) == CASE c = Dev -> DevSubs [] c = Rule -> RuleSubs [] c = App -> AppSubs
              [] c = Sql -> 1 [] c = Llm -> 0

Sub == UNION {{c} \X (1..Count(c)) : c \in Component}
NoSub == <<0, 0>>

VARIABLES
    main,       \* the main thread: what it does [mode], its next step [pc], with
                \* which component [c] and how many subscriptions of it [i]
    db,         \* DBTable::db_ is "open" or "closed"
    link,       \* the connection to the broker
    connack,    \* the broker's CONNACK is on its way
    connected,  \* connected_
    loop,       \* the loop thread runs
    renewing,   \* on_connect is about to renew the subscriptions
    callback,   \* the subscription whose callback runs, under mutex_, or NoSub
    pending,    \* pending_subscriptions_
    confirmed,  \* subscriptions_
    acks,       \* SUBACKs of Subscribe() on their way; those of renewals are ignored
    broker,     \* what the broker has for this connection
    known,      \* what it has had: messages may be on their way
    running,    \* running_ of each component
    thread,     \* its threads: "none" (not joinable), "on", "asleep" or "ended"
    alive,      \* the object exists
    losses,     \* connections lost so far
    deaf,       \* (history) subscriptions whose SUBACK came early or was lost
    dropped,    \* (history) subscriptions Unsubscribe() was called for
    removed     \* (history) those it took from confirmed

net    == <<link, connack, connected, broker, known, acks, losses>>
subs   == <<pending, confirmed, deaf, dropped, removed>>
client == <<loop, renewing, callback>>
comps  == <<running, thread, alive>>
vars   == <<main, db, net, subs, client, comps>>

Mode == {"start", "undo", "wait", "leave"}
Pc   == {"open", "connect", "loop", "subscribe", "record", "unsubscribe", "erase",
         "wait", "stop", "join", "loop_stop", "disconnect", "close",
         "client", "client_disconnect", "ended", "terminated"}

TypeOK ==
    /\ main \in [mode : Mode, pc : Pc, c : 0..5, i : Nat]
    /\ db \in {"open", "closed"} /\ link \in {"up", "down"}
    /\ connack \in BOOLEAN /\ connected \in BOOLEAN /\ loop \in BOOLEAN /\ renewing \in BOOLEAN
    /\ callback \in Sub \cup {NoSub}
    /\ pending \subseteq Sub /\ confirmed \subseteq Sub /\ acks \in Seq(Sub)
    /\ broker \subseteq Sub /\ known \subseteq Sub
    /\ running \in [Component -> BOOLEAN] /\ alive \in [Component -> BOOLEAN]
    /\ thread \in [Component -> {"none", "on", "asleep", "ended"}]
    /\ losses \in Nat
    /\ deaf \subseteq Sub /\ dropped \subseteq Sub /\ removed \subseteq Sub

Init ==
    /\ main = [mode |-> "start", pc |-> "open", c |-> 0, i |-> 0]
    /\ db = "closed" /\ link = "down"
    /\ connack = FALSE /\ connected = FALSE /\ loop = FALSE /\ renewing = FALSE
    /\ callback = NoSub
    /\ pending = {} /\ confirmed = {} /\ acks = <<>> /\ broker = {} /\ known = {}
    /\ running = [c \in Component |-> FALSE] /\ alive = [c \in Component |-> FALSE]
    /\ thread = [c \in Component |-> "none"]
    /\ losses = 0 /\ deaf = {} /\ dropped = {} /\ removed = {}

At(pc) == main.pc = pc
Goto(mode, pc, c, i) == main' = [mode |-> mode, pc |-> pc, c |-> c, i |-> i]

\* mutex_ is free: a callback holds it while it runs, every other holder for one step.
MutexFree == callback = NoSub

------------------------------------------------------------------------------
(* Starting.                                                               *)

\* The database and its tables; main returns at once if either fails.
OpenDatabase ==
    /\ At("open")
    /\ \/ db' = "open" /\ Goto("start", "connect", 0, 0)
       \/ db' = "closed" /\ Goto("start", "ended", 0, 0)
    /\ UNCHANGED <<net, subs, client, comps>>

\* connect() opens the connection and sends CONNECT.
Connect ==
    /\ At("connect")
    /\ \/ link' = "up" /\ connack' = TRUE /\ Goto("start", "loop", 0, 0)
       \/ Goto("undo", "close", 0, 0) /\ UNCHANGED <<link, connack>>
    /\ UNCHANGED <<db, connected, broker, known, acks, losses, subs, client, comps>>

\* main creates the object of component c and calls its Start().
Begin(c) == Goto("start", "subscribe", c, 1) /\ alive' = [alive EXCEPT ![c] = TRUE]

LoopStart ==
    /\ At("loop")
    /\ \/ loop' = TRUE /\ Begin(Dev)
       \/ Goto("undo", "disconnect", 0, 0) /\ UNCHANGED <<loop, alive>>
    /\ UNCHANGED <<db, net, subs, renewing, callback, running, thread>>

\* Slip: only the client is stopped.
GiveUpAtOnce(c) == Goto("undo", "loop_stop", 0, 0)

\* The Start() of component c has failed: main stops the ones before it.
GiveUp(c) == IF c = Dev THEN Goto("undo", "loop_stop", 0, 0) ELSE Goto("undo", "stop", c - 1, 0)

Mine == <<main.c, main.i>>

\* Subscribe(), up to the call of the library.
SubscribeSend ==
    /\ At("subscribe") /\ main.i <= Count(main.c)
    /\ \/ /\ link = "up"
          /\ broker' = broker \cup {Mine} /\ known' = known \cup {Mine}
          /\ acks' = Append(acks, Mine)
          /\ Goto("start", "record", main.c, main.i)
       \/ /\ link = "down"
          /\ IF main.c = App /\ main.i > 1 THEN Goto("start", "unsubscribe", App, main.i - 1)
             ELSE GiveUp(main.c)
          /\ UNCHANGED <<broker, known, acks>>
    /\ UNCHANGED <<db, link, connack, connected, losses, subs, client, comps>>

\* The rest of Subscribe().
SubscribeRecord ==
    /\ At("record") /\ MutexFree
    /\ pending' = pending \cup {Mine}
    /\ Goto("start", "subscribe", main.c, main.i + 1)
    /\ UNCHANGED <<db, net, confirmed, deaf, dropped, removed, client, comps>>

\* The rest of Start(): running_ and the threads; AppSqlProxy has neither.
StartThreads ==
    /\ At("subscribe") /\ main.i > Count(main.c) /\ main.c # Llm
    /\ Begin(main.c + 1)
    /\ IF main.c = Sql THEN UNCHANGED <<running, thread>>
       ELSE /\ running' = [running EXCEPT ![main.c] = TRUE]
            /\ thread' = [thread EXCEPT ![main.c] = "on"]
    /\ UNCHANGED <<db, net, subs, client>>

\* The HTTP server of LlmSqlProxy: its thread is joined if it does not listen.
Listen ==
    /\ At("subscribe") /\ main.c = Llm
    /\ \/ /\ Goto("wait", "wait", Llm, 0)
          /\ running' = [running EXCEPT ![Llm] = TRUE]
          /\ thread' = [thread EXCEPT ![Llm] = "on"]
       \/ GiveUp(Llm) /\ UNCHANGED <<running, thread>>
    /\ UNCHANGED <<db, net, subs, client, alive>>

------------------------------------------------------------------------------
(* Stopping.                                                               *)

\* Slip: counted from the wrong end.
ToRemoveOffByOne == <<main.c, IF main.c = Rule THEN Count(Rule) - main.i ELSE main.i>>

\* AppManager unsubscribes last to first, RuleEngine first to last.
ToRemove == <<main.c, IF main.c = Rule THEN Count(Rule) + 1 - main.i ELSE main.i>>

\* Component c is stopped.  In a destructor the object is gone then.
StopDone(c) ==
    LET next == IF main.mode = "leave" THEN "client" ELSE "loop_stop"
    IN  /\ IF c = Dev THEN Goto(main.mode, next, 0, 0) ELSE Goto(main.mode, "stop", c - 1, 0)
        /\ alive' = IF main.mode = "leave" THEN [alive EXCEPT ![c] = FALSE] ELSE alive

\* Slip: the threads are not told to stop.
StopBeginQuietly ==
    /\ At("stop") /\ UNCHANGED <<db, net, subs, client, running, thread>>
    /\ IF main.c = Sql THEN Goto(main.mode, "unsubscribe", Sql, 1) /\ UNCHANGED alive
       ELSE IF running[main.c] THEN Goto(main.mode, "join", main.c, 0) /\ UNCHANGED alive
       ELSE StopDone(main.c)

\* Stop(), up to the join.  A component that does not run returns at once;
\* AppSqlProxy always unsubscribes.  Destroying a joinable thread terminates.
\* AppManager notifies its worker without the mutex of the queue: one that has just
\* found running_ true goes to sleep after that (see WorkerQueue).
StopBegin ==
    /\ At("stop")
    /\ IF main.c = Sql THEN Goto(main.mode, "unsubscribe", Sql, 1) /\ UNCHANGED comps
       ELSE IF running[main.c]
       THEN /\ running' = [running EXCEPT ![main.c] = FALSE]
            /\ \/ UNCHANGED thread
               \/ /\ main.c = App /\ thread[App] = "on"
                  /\ thread' = [thread EXCEPT ![App] = "asleep"]
            /\ Goto(main.mode, "join", main.c, 0)
            /\ UNCHANGED alive
       ELSE IF thread[main.c] # "none" /\ main.mode = "leave"
       THEN Goto("leave", "terminated", main.c, 0) /\ UNCHANGED comps
       ELSE StopDone(main.c) /\ UNCHANGED <<running, thread>>
    /\ UNCHANGED <<db, net, subs, client>>

\* DeviceManager::Stop() does not unsubscribe.
Join ==
    /\ At("join") /\ thread[main.c] = "ended"
    /\ thread' = [thread EXCEPT ![main.c] = "none"]
    /\ IF main.c \in {Dev, Llm} THEN StopDone(main.c)
       ELSE Goto(main.mode, "unsubscribe", main.c, Count(main.c)) /\ UNCHANGED alive
    /\ UNCHANGED <<db, net, subs, client, running>>

\* After Unsubscribe(): the next one, or the end of Stop() or of AppManager::Start().
Unsubscribed ==
    IF main.i > 1 THEN Goto(main.mode, "unsubscribe", main.c, main.i - 1) /\ UNCHANGED alive
    ELSE IF main.mode = "start" THEN GiveUp(App) /\ UNCHANGED alive
    ELSE StopDone(main.c)

\* Unsubscribe(), up to the call of the library, which fails without a connection.
UnsubscribeSend ==
    /\ At("unsubscribe")
    /\ dropped' = dropped \cup {ToRemove}
    /\ \/ link = "down" /\ Unsubscribed /\ UNCHANGED broker
       \/ /\ link = "up"
          /\ broker' = broker \ {ToRemove}
          /\ Goto(main.mode, "erase", main.c, main.i)
          /\ UNCHANGED alive
    /\ UNCHANGED <<db, link, connack, connected, known, acks, losses, client,
                   pending, confirmed, deaf, removed, running, thread>>

\* Slip: the entry is erased without mutex_.
UnsubscribeEraseUnlocked ==
    /\ At("erase")
    /\ confirmed' = confirmed \ {ToRemove}
    /\ removed' = removed \cup ({ToRemove} \cap confirmed)
    /\ Unsubscribed
    /\ UNCHANGED <<db, net, client, pending, deaf, dropped, running, thread>>

UnsubscribeErase ==
    /\ At("erase") /\ MutexFree
    /\ confirmed' = confirmed \ {ToRemove}
    /\ removed' = removed \cup ({ToRemove} \cap confirmed)
    /\ Unsubscribed
    /\ UNCHANGED <<db, net, client, pending, deaf, dropped, running, thread>>

\* LoopStop() cancels the loop thread, in a callback too, and joins it.
LoopStop ==
    /\ main.pc \in {"loop_stop", "client"}
    /\ loop' = FALSE /\ renewing' = FALSE /\ callback' = NoSub
    /\ Goto(main.mode, IF At("client") THEN "client_disconnect" ELSE "disconnect", 0, 0)
    /\ UNCHANGED <<db, net, subs, comps>>

Forget ==
    /\ pending' = {} /\ confirmed' = {}
    /\ link' = "down" /\ connack' = FALSE /\ connected' = FALSE
    /\ broker' = {} /\ known' = {} /\ acks' = <<>>

\* ~MqttClient() disconnects only if it is connected.
Disconnect ==
    /\ \/ At("disconnect") /\ MutexFree /\ Forget /\ Goto(main.mode, "close", 0, 0)
       \/ At("client_disconnect") /\ connected /\ MutexFree /\ Forget
            /\ Goto(main.mode, "ended", 0, 0)
       \/ /\ At("client_disconnect") /\ ~connected
          /\ Goto(main.mode, "ended", 0, 0)
          /\ UNCHANGED <<pending, confirmed, link, connack, connected, broker, known, acks>>
    /\ UNCHANGED <<db, losses, deaf, dropped, removed, client, comps>>

\* The signal is seen by the loop of main.
Signal ==
    /\ At("wait")
    /\ Goto("leave", "close", 0, 0)
    /\ UNCHANGED <<db, net, subs, client, comps>>

\* DBTable::Shutdown(); main returns and the objects are destroyed, last one first.
CloseDatabase ==
    /\ At("close")
    /\ db' = "closed"
    /\ \/ /\ \A c \in Component : ~alive[c]
          /\ Goto("leave", "client", 0, 0)
       \/ \E c \in Component :
            /\ alive[c] /\ \A d \in Component : alive[d] => d <= c
            /\ Goto("leave", "stop", c, 0)
    /\ UNCHANGED <<net, subs, client, comps>>

------------------------------------------------------------------------------
(* The threads of the components.                                          *)

ThreadEnds(c) ==
    /\ thread[c] = "on" /\ ~running[c]
    /\ thread' = [thread EXCEPT ![c] = "ended"]
    /\ UNCHANGED <<main, db, net, subs, client, running, alive>>

\* A request that arrives meanwhile, or a spurious wakeup, wakes the worker.
WorkerWakes ==
    /\ thread[App] = "asleep"
    /\ thread' = [thread EXCEPT ![App] = "on"]
    /\ UNCHANGED <<main, db, net, subs, client, running, alive>>

\* listen() returns although nobody stopped the server.
ServerFails ==
    /\ thread[Llm] = "on" /\ running[Llm]
    /\ running' = [running EXCEPT ![Llm] = FALSE]
    /\ thread' = [thread EXCEPT ![Llm] = "ended"]
    /\ UNCHANGED <<main, db, net, subs, client, alive>>

------------------------------------------------------------------------------
(* The loop thread.                                                        *)

LoopIdle == loop /\ callback = NoSub /\ ~renewing

OnConnect ==
    /\ LoopIdle /\ connack
    /\ connack' = FALSE /\ connected' = TRUE /\ renewing' = TRUE
    /\ UNCHANGED <<main, db, link, broker, known, acks, losses, subs, loop, callback, comps>>

\* Slip: the session is taken for a persistent one.
RenewNothing ==
    /\ renewing /\ renewing' = FALSE
    /\ UNCHANGED <<main, db, net, subs, loop, callback, comps>>

\* The rest of on_connect, under mutex_: confirmed subscriptions are made again.
Renew ==
    /\ renewing
    /\ broker' = broker \cup confirmed /\ known' = known \cup confirmed
    /\ renewing' = FALSE
    /\ UNCHANGED <<main, db, link, connack, connected, acks, losses, subs, loop, callback, comps>>

\* on_subscribe: a SUBACK without a pending entry is taken for a renewed one.
OnSubscribe ==
    /\ LoopIdle /\ connected /\ acks # <<>>
    /\ acks' = Tail(acks)
    /\ IF Head(acks) \in pending
       THEN /\ pending' = pending \ {Head(acks)}
            /\ confirmed' = confirmed \cup {Head(acks)}
            /\ UNCHANGED deaf
       ELSE deaf' = deaf \cup {Head(acks)} /\ UNCHANGED <<pending, confirmed>>
    /\ UNCHANGED <<main, db, link, connack, connected, broker, known, losses,
                   dropped, removed, client, comps>>

\* on_message: the callback of a confirmed subscription runs under mutex_.
OnMessage(s) ==
    /\ LoopIdle /\ connected /\ s \in known \cap confirmed
    /\ callback' = s
    /\ UNCHANGED <<main, db, net, subs, loop, renewing, comps>>

OnMessageReturns ==
    /\ callback # NoSub
    /\ callback' = NoSub
    /\ UNCHANGED <<main, db, net, subs, loop, renewing, comps>>

\* Slip: what is pending is forgotten with the connection.
ConnectionLostForgets ==
    /\ LoopIdle /\ link = "up" /\ losses < MaxLosses
    /\ losses' = losses + 1 /\ link' = "down" /\ connack' = FALSE /\ connected' = FALSE
    /\ broker' = {} /\ known' = {} /\ acks' = <<>> /\ pending' = {}
    /\ deaf' = deaf \cup {acks[k] : k \in DOMAIN acks}
    /\ UNCHANGED <<main, db, confirmed, dropped, removed, client, comps>>

\* The loop thread finds the connection lost: on_disconnect, and what was on its
\* way is lost too.
ConnectionLost ==
    /\ LoopIdle /\ link = "up" /\ losses < MaxLosses
    /\ losses' = losses + 1
    /\ link' = "down" /\ connack' = FALSE /\ connected' = FALSE
    /\ broker' = {} /\ known' = {} /\ acks' = <<>>
    /\ deaf' = deaf \cup {acks[k] : k \in DOMAIN acks}
    /\ UNCHANGED <<main, db, pending, confirmed, dropped, removed, client, comps>>

Reconnect ==
    /\ LoopIdle /\ link = "down"
    /\ link' = "up" /\ connack' = TRUE
    /\ UNCHANGED <<main, db, connected, broker, known, acks, losses, subs, client, comps>>

------------------------------------------------------------------------------
Ended == main.pc \in {"ended", "terminated"}

MainStep ==
    \/ OpenDatabase \/ Connect \/ LoopStart \/ SubscribeSend \/ SubscribeRecord
    \/ StartThreads \/ Listen \/ StopBegin \/ Join \/ UnsubscribeSend
    \/ UnsubscribeErase \/ LoopStop \/ Disconnect \/ CloseDatabase

LoopStep ==
    \/ OnConnect \/ Renew \/ OnSubscribe \/ ConnectionLost \/ Reconnect
    \/ \E s \in Sub : OnMessage(s)
    \/ OnMessageReturns

Next ==
    /\ ~Ended
    /\ \/ MainStep \/ Signal \/ LoopStep
       \/ \E c \in Component : ThreadEnds(c)
       \/ WorkerWakes \/ ServerFails

\* Threads are scheduled and callbacks return.  main gets mutex_ although the
\* loop thread may take it again and again; nobody has to send the signal, and
\* nothing has to wake a worker that has missed the wakeup of Stop().
Fairness ==
    /\ SF_vars(~Ended /\ MainStep)
    /\ WF_vars(~Ended /\ (Renew \/ OnMessageReturns))
    /\ \A c \in Component : WF_vars(~Ended /\ ThreadEnds(c))

Spec == Init /\ [][Next]_vars /\ Fairness

------------------------------------------------------------------------------
\* While the client is connected and its loop runs, every confirmed subscription that nobody has
\* asked to remove is known to the broker of this connection: reconnecting leaves
\* no component deaf (on_connect, on_subscribe).
ConfirmedIsRenewed == loop /\ connected /\ ~renewing => confirmed \ dropped \subseteq broker

\* Once Unsubscribe() has taken a subscription away, its callback does not run and
\* no late SUBACK, renewal or reconnection brings it back, so its owner may be
\* destroyed (Unsubscribe, on_message, on_subscribe).
NoCallbackAfterRemoval ==
    removed \cap (pending \cup confirmed) = {} /\ callback \notin removed

\* A component is destroyed only when its threads are joined; and a failed start
\* closes the database only when the loop thread, every callback and every thread
\* of the components started before are gone (the early returns of main).
FailedStartIsClean ==
    /\ \A c \in Component : ~alive[c] => thread[c] = "none"
    /\ main.mode = "undo" /\ At("close") =>
         /\ ~loop /\ callback = NoSub
         /\ \A c \in Component : thread[c] = "none"

Recorded(s) ==
    \/ main.mode = "wait"
    \/ /\ main.mode = "start" /\ main.pc \in {"subscribe", "record"}
       /\ s[1] < main.c \/ (s[1] = main.c /\ s[2] < main.i)

\* A subscription whose Subscribe() succeeded is confirmed, or its SUBACK is on
\* its way, unless that SUBACK came before the entry was pending or was lost with
\* its connection: no other order of starting, losing and reconnecting leaves a
\* component without its messages (Subscribe, on_subscribe, on_connect).
DeafOnlyByRace ==
    \A s \in Sub : Recorded(s) =>
        \/ s \in confirmed
        \/ s \in pending /\ (s \in deaf \/ \E k \in DOMAIN acks : acks[k] = s)

\* A start that fails, and a signal, end the program: no join waits for a thread
\* that waits for main, and no callback keeps the mutex of the client from main
\* (the early returns and the destructors of main.cpp).  Only the worker of
\* AppManager that has missed the wakeup of Stop() can hold it up for ever.
ProgramEnds ==
    \/ <>[](thread[App] = "asleep")
    \/ main.mode \in {"undo", "leave"} ~> Ended

\* "MQTT users unsubscribe before MqttClient shuts down the connection": no
\* callback runs for an object that is destroyed and never asked to unsubscribe
\* (the comment on the shutdown in main.cpp).
CallbacksAreLive == callback # NoSub /\ callback \notin dropped => alive[callback[1]]
==============================================================================
