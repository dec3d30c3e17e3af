---------------------------- MODULE DeviceRegistry ----------------------------
(***************************************************************************)
(* Who is online: DeviceManager's column dev_state in the database, its    *)
(* map last_heartbeat_ in memory, the MQTT callbacks that write both and   *)
(* the thread that marks silent devices offline.                           *)
(*                                                                         *)
(* The MQTT loop thread runs one callback at a time; the checking thread   *)
(* runs beside it.  A step is one SQLite statement or one critical section *)
(* of heartbeat_mutex_.  Time passes in units that are long compared with  *)
(* a callback or a check (5 seconds against a few statements).             *)
(*                                                                         *)
(* Left out: the other columns, the replies, payloads that do not parse,   *)
(* failing I/O of the database.                                            *)
(***************************************************************************)
EXTENDS Integers

CONSTANTS Device,
          Timeout,  \* a heartbeat older than this is stale (30 seconds)
          Period,   \* the checking thread sleeps this long (5 seconds)
          MaxRestarts  \* bound: restarts of the program in one behaviour

ASSUME TimingAssumption == /\ Timeout \in Nat
                           /\ Period \in Nat
                           /\ MaxRestarts \in Nat

Never   == -1                   \* no entry in last_heartbeat_
Longest == Timeout + Period + 1 \* bound: ages are not told apart beyond this

VARIABLES dev_state,      \* the column: "absent" is no row
          last_heartbeat, \* the map, as the age of the entry
          callback,       \* where the MQTT thread is in its callback
          sender,         \* the callback's device, as a set of at most one
          checker,        \* "asleep" or "marking" (the loop over stale_devices)
          slept,          \* how long the checking thread has slept
          stale,          \* the rest of stale_devices
          marking,        \* the device read as online and about to be written,
                          \* as a set of at most one
          alive,          \* environment: the devices that send
          restarts,       \* environment: how often the program was restarted
          quiet,          \* history: age of the last message of a device (of the
                          \* first start when there was none)
          heard,          \* history: a heartbeat was handled outside a check,
                          \* and since then no check found the device silent
                          \* and it did not register again
          forgotten       \* history: online in the database at a start of the
                          \* program and not heard since

memory  == <<last_heartbeat, callback, sender, checker, slept, stale, marking>>
history == <<quiet, heard, forgotten>>
environment == <<alive, restarts>>
vars == <<dev_state, memory, environment, history>>

Age == 0..Longest

AtMostOne == {{}} \cup {{d} : d \in Device}

\* The map and the column hold ages and states, and the checking thread never
\* sleeps longer than its period (HeartbeatCheckLoop).
TypeOK ==
    /\ dev_state \in [Device -> {"absent", "online", "offline"}]
    /\ last_heartbeat \in [Device -> Age \cup {Never}]
    /\ callback \in {"idle", "track", "read", "restore"}
    /\ sender \in AtMostOne
    /\ checker \in {"asleep", "marking"}
    /\ slept \in 0..Period
    /\ stale \subseteq Device
    /\ marking \in AtMostOne
    /\ alive \subseteq Device
    /\ restarts \in 0..MaxRestarts
    /\ quiet \in [Device -> Age]
    /\ heard \subseteq Device
    /\ forgotten \subseteq Device

OnlineRows == {d \in Device : dev_state[d] = "online"}

\* The first start, on an empty database; Restart is the later ones.
Init ==
    /\ dev_state = [d \in Device |-> "absent"]
    /\ last_heartbeat = [d \in Device |-> Never]
    /\ callback = "idle"
    /\ sender = {}
    /\ checker = "asleep"
    /\ slept = 0
    /\ stale = {}
    /\ marking = {}
    /\ alive = Device
    /\ restarts = 0
    /\ quiet = [d \in Device |-> 0]
    /\ heard = {}
    /\ forgotten = {}

------------------------------------------------------------------------------
(* The MQTT loop thread.                                                   *)

InCallback(step, d) == callback = step /\ d \in sender

Return == callback' = "idle" /\ sender' = {}

HearFrom(d) ==
    /\ callback = "idle"
    /\ d \in alive
    /\ quiet' = [quiet EXCEPT ![d] = 0]
    /\ forgotten' = forgotten \ {d}

\* OnBroadcastOnline up to Upsert and the reply.
BroadcastOnline(d) ==
    /\ HearFrom(d)
    /\ dev_state' = [dev_state EXCEPT ![d] = "online"]
    /\ callback' = "track"
    /\ sender' = {d}
    /\ heard' = heard \ {d}
    /\ UNCHANGED <<last_heartbeat, checker, slept, stale, marking,
                   environment>>

\* Slip: the heartbeat timestamp is not initialised.
RegisteredUntracked(d) ==
    /\ InCallback("track", d)
    /\ Return
    /\ UNCHANGED <<dev_state, last_heartbeat, checker, slept, stale, marking,
                   environment, history>>

\* OnBroadcastOnline after its events are in the table: initialise the
\* heartbeat timestamp.
Registered(d) ==
    /\ InCallback("track", d)
    /\ last_heartbeat' = [last_heartbeat EXCEPT ![d] = 0]
    /\ Return
    /\ UNCHANGED <<dev_state, checker, slept, stale, marking, environment,
                   history>>

\* Slip: emplace(), which leaves an existing entry alone.
HeartbeatEmplaced(d) ==
    /\ HearFrom(d)
    /\ last_heartbeat' = IF last_heartbeat[d] = Never
                         THEN [last_heartbeat EXCEPT ![d] = 0]
                         ELSE last_heartbeat
    /\ callback' = "read"
    /\ sender' = {d}
    /\ UNCHANGED <<dev_state, checker, slept, stale, marking, environment,
                   heard>>

\* OnHeartbeat, the critical section.
Heartbeat(d) ==
    /\ HearFrom(d)
    /\ last_heartbeat' = [last_heartbeat EXCEPT ![d] = 0]
    /\ callback' = "read"
    /\ sender' = {d}
    /\ UNCHANGED <<dev_state, checker, slept, stale, marking, environment,
                   heard>>

\* The history of a heartbeat that has been handled.
Handled(d) == heard' = IF checker = "asleep" THEN heard \cup {d} ELSE heard

\* Slip: a device that was marked offline is left so.
HeartbeatOnlyReads(d) ==
    /\ InCallback("read", d)
    /\ Return
    /\ Handled(d)
    /\ UNCHANGED <<dev_state, last_heartbeat, checker, slept, stale, marking,
                   environment, quiet, forgotten>>

\* OnHeartbeat, GetByDevId: only a row that is not online is written.
HeartbeatReads(d) ==
    /\ InCallback("read", d)
    /\ IF dev_state[d] = "offline"
       THEN callback' = "restore" /\ UNCHANGED <<sender, heard>>
       ELSE Return /\ Handled(d)
    /\ UNCHANGED <<dev_state, last_heartbeat, checker, slept, stale, marking,
                   environment, quiet, forgotten>>

\* OnHeartbeat, UpdateState.
HeartbeatRestores(d) ==
    /\ InCallback("restore", d)
    /\ dev_state' = [dev_state EXCEPT ![d] = "online"]
    /\ Return
    /\ Handled(d)
    /\ UNCHANGED <<last_heartbeat, checker, slept, stale, marking,
                   environment, quiet, forgotten>>

------------------------------------------------------------------------------
(* The checking thread: HeartbeatCheckLoop.                                *)

\* The devices whose entry a check removes: older than the limit given.
Older(limit) == {d \in Device : last_heartbeat[d] > limit}

ScanFor(S) ==
    /\ checker = "asleep"
    /\ slept = Period
    /\ stale' = S
    /\ last_heartbeat' = [d \in Device |->
                            IF d \in S THEN Never ELSE last_heartbeat[d]]
    /\ heard' = {d \in heard : quiet[d] <= Timeout}
    /\ checker' = "marking"
    /\ UNCHANGED <<dev_state, callback, sender, slept, marking, environment,
                   quiet, forgotten>>

\* Slip: the age is compared with the timeout and a period.
ScanLate == ScanFor(Older(Timeout + Period))

\* Collect and erase the stale entries, in one critical section.
Scan == ScanFor(Older(Timeout))

ReadStale(d) ==
    /\ d \in stale
    /\ marking = {}
    /\ stale' = stale \ {d}
    /\ marking' = IF dev_state[d] = "online" THEN {d} ELSE {}
    /\ UNCHANGED <<dev_state, last_heartbeat, callback, sender, checker,
                   slept, environment, history>>

MarkOffline ==
    /\ marking # {}
    /\ dev_state' = [d \in Device |->
                       IF d \in marking THEN "offline" ELSE dev_state[d]]
    /\ marking' = {}
    /\ UNCHANGED <<last_heartbeat, callback, sender, checker, slept, stale,
                   environment, history>>

EndCheck ==
    /\ checker = "marking"
    /\ stale = {}
    /\ marking = {}
    /\ checker' = "asleep"
    /\ slept' = 0
    /\ UNCHANGED <<dev_state, last_heartbeat, callback, sender, stale,
                   marking, environment, history>>

------------------------------------------------------------------------------
(* The environment.                                                        *)

Older1(age) == IF age = Longest THEN age ELSE age + 1

TimePasses ==
    /\ last_heartbeat' = [d \in Device |->
                            IF last_heartbeat[d] = Never
                            THEN Never ELSE Older1(last_heartbeat[d])]
    /\ quiet' = [d \in Device |-> Older1(quiet[d])]
    /\ slept' = slept + 1
    /\ UNCHANGED <<dev_state, callback, sender, checker, stale, marking,
                   environment, heard, forgotten>>

\* Slip: the checking thread sleeps on after its period.
Oversleep == callback = "idle" /\ checker = "asleep" /\ TimePasses

\* A unit of time: no callback and no check is under way, and the checking
\* thread wakes when sleep_for is over.
Tick ==
    /\ callback = "idle"
    /\ checker = "asleep"
    /\ slept < Period
    /\ TimePasses

\* A device falls silent, or its messages do not get through; it comes back.
FallSilent(d) ==
    /\ alive' = alive \ {d}
    /\ UNCHANGED <<dev_state, memory, restarts, history>>

ComeBack(d) ==
    /\ alive' = alive \cup {d}
    /\ UNCHANGED <<dev_state, memory, restarts, history>>

\* The program is stopped or killed and started again: the database stays.
Restart ==
    /\ restarts < MaxRestarts
    /\ restarts' = restarts + 1
    /\ last_heartbeat' = [d \in Device |-> Never]
    /\ callback' = "idle"
    /\ sender' = {}
    /\ checker' = "asleep"
    /\ slept' = 0
    /\ stale' = {}
    /\ marking' = {}
    /\ forgotten' = OnlineRows
    /\ UNCHANGED <<dev_state, alive, quiet, heard>>

------------------------------------------------------------------------------
Callback(d) ==
    \/ BroadcastOnline(d) \/ Registered(d)
    \/ Heartbeat(d) \/ HeartbeatReads(d) \/ HeartbeatRestores(d)

Check == Scan \/ MarkOffline \/ EndCheck \/ \E d \in Device : ReadStale(d)

Next ==
    \/ \E d \in Device : Callback(d) \/ FallSilent(d) \/ ComeBack(d)
    \/ Check
    \/ Tick
    \/ Restart

\* Both threads are scheduled, time passes, and a device that is alive goes on
\* sending heartbeats.
Fairness ==
    /\ \A d \in Device :
          /\ WF_vars(Registered(d) \/ HeartbeatReads(d) \/ HeartbeatRestores(d))
          /\ SF_vars(Heartbeat(d))
    /\ WF_vars(Check)
    /\ WF_vars(Tick)

Spec == Init /\ [][Next]_vars /\ Fairness

------------------------------------------------------------------------------
(* Properties.                                                             *)

\* A device that the database calls online is watched: it has an entry the next
\* checks look at, or the running check is about to mark it, or its registration
\* is about to make the entry, or it has not been heard since the program was
\* started.  Otherwise it would stay online for ever.
Watched(d) ==
    \/ last_heartbeat[d] # Never
    \/ d \in stale
    \/ d \in marking
    \/ InCallback("track", d)
    \/ d \in forgotten

OnlineIsWatched == \A d \in Device : dev_state[d] = "online" => Watched(d)

\* "Marked offline after 30 seconds" means after 30 seconds and one period of
\* the check: between checks no device is online that has been silent longer,
\* except those not heard since the program was started.
OfflineInTime ==
    \A d \in Device :
        /\ checker = "asleep"
        /\ dev_state[d] = "online"
        /\ d \notin forgotten
        => quiet[d] <= Timeout + Period

\* A device one of whose heartbeats was handled between two checks is not
\* offline until a check finds that it was silent for longer than the timeout:
\* a check that overlaps later heartbeats does it no harm.  (A heartbeat handled
\* during a check, or a registration, can lose against that check.)
HeardStaysOnline == \A d \in heard : dev_state[d] # "offline"

\* A device that was marked offline and goes on sending heartbeats is online
\* again in the end, however the heartbeats and the checks interleave.
OfflineIsRepaired ==
    \A d \in Device :
        (dev_state[d] = "offline") ~> (dev_state[d] = "online" \/ d \notin alive)

\* Every device that is silent for longer than the timeout and one period is
\* offline between two checks.
SilentIsOffline ==
    \A d \in Device :
        checker = "asleep" /\ quiet[d] > Timeout + Period
            => dev_state[d] # "online"
==============================================================================
