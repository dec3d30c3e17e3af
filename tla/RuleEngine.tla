------------------------------ MODULE RuleEngine ------------------------------
(***************************************************************************)
(* The rule engine: device events arrive on the MQTT thread, a worker      *)
(* thread records each one and runs the Lua scripts of the rules bound to  *)
(* it, and the SQL-over-HTTP service (LlmSqlProxy) edits the same tables   *)
(* meanwhile.                                                              *)
(*                                                                         *)
(* The queue between the MQTT thread and the worker is TaskChannel, which  *)
(* WorkerQueue implements.  One SQLite statement is one step: DBTable      *)
(* serialises statements with a mutex and uses no transaction, so whatever *)
(* takes two statements can be interleaved with the other threads.         *)
(*                                                                         *)
(* main closes the database before it stops the threads: whatever they do  *)
(* after that fails, and they take no notice.  Statements also fail on a   *)
(* disk that does not work.  A statement that fails changes nothing, so it *)
(* is a step only where the program goes on differently after it.          *)
(*                                                                         *)
(* Left out: a rule's name, type and script text, the value of a condition *)
(* and what a script does, which are choices here; and a statement that is *)
(* being executed in the moment the database is closed.                    *)
(***************************************************************************)
EXTENDS Integers, Sequences, TaskChannel

CONSTANTS Client,       \* concurrent HTTP requests
          Limit,        \* the values of "limit" that commands give
          Stored,       \* how many rules the database file holds at the start
          MaxRules,     \* bound: rules ever inserted
          MaxArrivals,  \* bound: events enqueued
          MaxCommands   \* bound: write commands received over HTTP

ASSUME RuleEngineAssumption == /\ MaxRules \in Nat
                               /\ Stored \in 0..MaxRules
                               /\ MaxArrivals \in Nat
                               /\ MaxCommands \in Nat
                               /\ Limit \subseteq Nat

RuleId == 1..MaxRules
Idle == 0          \* an HTTP request that is not inside insert_rule
OtherRow == 0      \* a rowid that belongs to another table than rule
NoRule == 0        \* the worker runs no script

VARIABLES db_open,      \* DBTable::db_ is not null
          faulty,       \* the disk does not work: a statement may fail
          event,        \* table event: the registered event ids
          rule,         \* table rule: rule_id -> [enable, count, limit]
          inserted,     \* its AUTOINCREMENT counter
          event_rule,   \* table event_rule: <<evt_id, rule_id>>
          event_record, \* table event_record: the evt_ids, oldest first
          last_rowid,   \* sqlite3_last_insert_rowid of the shared connection
          worker,       \* where ProcessEvent is
          todo,         \* rule_ids still to be visited
          script,       \* the rule whose script runs, or NoRule
          attempt,      \* LuaSandbox::Execute's attempt, from 1
          http,         \* client -> the rule_id it has inserted, or Idle
          answers,      \* history: <<inserted rule_id, answered rule_id>>
          arrived,      \* history: the events enqueued, in order
          commands,     \* how many write commands were received
          touched,      \* history: a command changed the running rule
          cut_off       \* history: rules disabled by two timeouts and not
                        \* updated, enabled or deleted since

database   == <<db_open, faulty>>
tables     == <<database, event, rule, inserted, event_rule, event_record, last_rowid>>
workerVars == <<worker, todo, script, attempt>>
httpVars   == <<http, answers, commands>>
history    == <<arrived, touched, cut_off>>
vars == <<channelVars, tables, workerVars, httpVars, history>>

Row == [enable : BOOLEAN, count : Nat, limit : Nat]

\* The tables hold rows of their kind, and a script is never attempted a third
\* time (LuaSandbox::Execute).
TypeOK ==
    /\ ChannelTypeOK
    /\ db_open \in BOOLEAN /\ faulty \in BOOLEAN
    /\ event \subseteq Task
    /\ DOMAIN rule \subseteq 1..inserted
    /\ \A r \in DOMAIN rule : rule[r] \in Row
    /\ inserted \in 0..MaxRules
    /\ event_rule \subseteq Task \X RuleId
    /\ event_record \in Seq(Task)
    /\ last_rowid \in RuleId \cup {OtherRow}
    /\ worker \in {"idle", "lookup", "unknown", "known", "bindings", "rules"}
    /\ todo \subseteq RuleId
    /\ script \in RuleId \cup {NoRule}
    /\ attempt \in 1..2
    /\ http \in [Client -> RuleId \cup {Idle}]
    /\ answers \subseteq RuleId \X (RuleId \cup {OtherRow})
    /\ arrived \in Seq(Task)
    /\ commands \in 0..MaxCommands
    /\ touched \in BOOLEAN
    /\ cut_off \subseteq RuleId

\* The program starts on the database an earlier run left.
Init ==
    /\ ChannelInit
    /\ db_open = TRUE
    /\ faulty \in BOOLEAN
    /\ event \in SUBSET Task
    /\ rule \in [1..Stored -> [enable : BOOLEAN, count : {0}, limit : Limit]]
    /\ inserted = Stored
    /\ event_rule \in SUBSET (event \X (1..Stored))
    /\ event_record = <<>>
    /\ last_rowid = OtherRow
    /\ worker = "idle"
    /\ todo = {}
    /\ script = NoRule
    /\ attempt = 1
    /\ http = [c \in Client |-> Idle]
    /\ answers = {}
    /\ arrived = <<>>
    /\ commands = 0
    /\ touched = FALSE
    /\ cut_off = {}

------------------------------------------------------------------------------
(* The MQTT loop thread.                                                   *)

\* OnDeviceEvent and InjectEvent.  A payload without evt_id, or a topic
\* without a device, is dropped before it gets here.
OnDeviceEvent(e) ==
    /\ Len(arrived) < MaxArrivals
    /\ Accept(e)
    /\ arrived' = Append(arrived, e)
    /\ UNCHANGED <<tables, workerVars, httpVars, touched, cut_off>>

\* OnDeviceData replaces a row of device_data; conditions that read it are
\* choices here, so what is left is the rowid of the connection.
OnDeviceData ==
    /\ ~sealed /\ db_open
    /\ last_rowid' = OtherRow
    /\ UNCHANGED <<channelVars, database, event, rule, inserted, event_rule, event_record,
                   workerVars, httpVars, history>>

\* DeviceManager::OnBroadcastOnline registers an event of a device.
RegisterEvent(e) ==
    /\ db_open
    /\ event' = event \cup {e}
    /\ last_rowid' = OtherRow
    /\ UNCHANGED <<channelVars, database, rule, inserted, event_rule, event_record,
                   workerVars, httpVars, history>>

------------------------------------------------------------------------------
(* The worker thread: WorkerLoop and ProcessEvent.                         *)

\* A statement can fail now.
Fails == faulty \/ ~db_open

TakeEvent ==
    /\ worker = "idle"
    /\ Take
    /\ worker' = "lookup"
    /\ UNCHANGED <<tables, todo, script, attempt, httpVars, history>>

\* A read that fails finds nothing.
LookUpEvent ==
    /\ worker = "lookup"
    /\ \/ db_open /\ worker' = IF Head(current) \in event THEN "known" ELSE "unknown"
       \/ Fails /\ worker' = "unknown"
    /\ UNCHANGED <<channelVars, tables, todo, script, attempt, httpVars, history>>

\* Slip: an unknown event returns early without its audit record.
RecordKnownOnly ==
    /\ worker \in {"known", "unknown"}
    /\ \/ /\ db_open /\ worker = "known"
          /\ event_record' = event_record \o current
          /\ last_rowid' = OtherRow
       \/ /\ Fails \/ worker = "unknown"
          /\ UNCHANGED <<event_record, last_rowid>>
    /\ worker' = IF worker = "known" THEN "bindings" ELSE "rules"
    /\ UNCHANGED <<channelVars, database, event, rule, inserted, event_rule, todo, script,
                   attempt, httpVars, history>>

\* EventRecordTable::Insert, whose result is ignored; an unknown event has no rules
\* to visit.
RecordEvent ==
    /\ worker \in {"known", "unknown"}
    /\ \/ /\ db_open
          /\ event_record' = event_record \o current
          /\ last_rowid' = OtherRow
       \/ Fails /\ UNCHANGED <<event_record, last_rowid>>
    /\ worker' = IF worker = "known" THEN "bindings" ELSE "rules"
    /\ UNCHANGED <<channelVars, database, event, rule, inserted, event_rule, todo, script,
                   attempt, httpVars, history>>

\* A read that fails ends with the rows that it has found.
FindRules ==
    /\ worker = "bindings"
    /\ LET bound == {r \in RuleId : <<Head(current), r>> \in event_rule}
       IN  IF db_open THEN /\ todo' \in SUBSET bound
                           /\ faulty \/ todo' = bound
           ELSE todo' = {}
    /\ worker' = "rules"
    /\ UNCHANGED <<channelVars, tables, script, attempt, httpVars, history>>

\* Slip: the limit is compared after the script and not before it.
MayRunUnlimited(r) == db_open /\ r \in DOMAIN rule /\ rule[r].enable

\* The row read by GetByRuleId lets the rule run: it exists, is enabled and is
\* below its limit (0 is no limit).
MayRun(r) ==
    /\ db_open
    /\ r \in DOMAIN rule
    /\ rule[r].enable
    /\ rule[r].limit > 0 => rule[r].count < rule[r].limit

\* One turn of the loop over rule_ids up to the call of Execute.  A rule that
\* may run is still skipped when its row cannot be read, its condition is false or
\* its script file is missing or empty.
VisitRule(r) ==
    /\ worker = "rules"
    /\ script = NoRule
    /\ r \in todo
    /\ todo' = todo \ {r}
    /\ \/ UNCHANGED <<script, attempt, touched>>
       \/ /\ MayRun(r)
          /\ script' = r
          /\ attempt' = 1
          /\ touched' = FALSE
    /\ UNCHANGED <<channelVars, tables, worker, httpVars, arrived, cut_off>>

\* Slip: the row is written back even when it was deleted meanwhile.
ScriptSucceedsUpsert ==
    /\ script # NoRule
    /\ rule' = [r \in DOMAIN rule \cup {script} |->
                  IF r \notin DOMAIN rule
                  THEN [enable |-> TRUE, count |-> 1, limit |-> 0]
                  ELSE [rule[r] EXCEPT !.count = @ + (IF r = script THEN 1 ELSE 0)]]
    /\ script' = NoRule
    /\ UNCHANGED <<channelVars, database, event, inserted, event_rule, event_record,
                   last_rowid, worker, todo, attempt, httpVars, history>>

\* lua_pcall returned LUA_OK: IncrementCount, which does nothing to a rule that
\* was deleted meanwhile.
ScriptSucceeds ==
    /\ script # NoRule
    /\ \/ /\ db_open
          /\ rule' = [r \in DOMAIN rule |->
                        IF r = script THEN [rule[r] EXCEPT !.count = @ + 1] ELSE rule[r]]
       \/ Fails /\ UNCHANGED rule
    /\ script' = NoRule
    /\ UNCHANGED <<channelVars, database, event, inserted, event_rule, event_record,
                   last_rowid, worker, todo, attempt, httpVars, history>>

\* Too long, no memory for a state, a syntax error, out of memory, a runtime
\* error: no second attempt and no count.
ScriptFails ==
    /\ script # NoRule
    /\ script' = NoRule
    /\ UNCHANGED <<channelVars, tables, worker, todo, attempt, httpVars, history>>

\* Slip: every timeout is retried.
ScriptTimesOutAgain ==
    /\ script # NoRule
    /\ attempt' = attempt + 1
    /\ UNCHANGED <<channelVars, tables, worker, todo, script, httpVars, history>>

\* Slip: every timeout is retried, and attempts are not counted.
ScriptRetriesForever ==
    /\ script # NoRule
    /\ attempt' = 3 - attempt
    /\ UNCHANGED <<channelVars, tables, worker, todo, script, httpVars, history>>

\* Slip: the second timeout gives up without disabling the rule.
ScriptTimesOutSilently ==
    /\ script # NoRule
    /\ \/ /\ attempt = 1
          /\ attempt' = 2
          /\ UNCHANGED <<script, cut_off>>
       \/ /\ attempt = 2
          /\ script' = NoRule
          /\ cut_off' = cut_off \cup {script}
          /\ UNCHANGED attempt
    /\ UNCHANGED <<channelVars, tables, worker, todo, httpVars, arrived, touched>>

\* The instruction hook cut the script off: once it is retried, without looking
\* at the rule again; the second time the rule is disabled.
ScriptTimesOut ==
    /\ script # NoRule
    /\ \/ /\ attempt = 1
          /\ attempt' = 2
          /\ UNCHANGED <<rule, script, cut_off>>
       \/ /\ attempt = 2
          /\ \/ /\ db_open
                /\ rule' = [r \in DOMAIN rule |->
                              IF r = script THEN [rule[r] EXCEPT !.enable = FALSE]
                                            ELSE rule[r]]
                /\ cut_off' = cut_off \cup {script}
             \/ Fails /\ UNCHANGED <<rule, cut_off>>
          /\ script' = NoRule
          /\ UNCHANGED attempt
    /\ UNCHANGED <<channelVars, database, event, inserted, event_rule, event_record,
                   last_rowid, worker, todo, httpVars, arrived, touched>>

FinishEvent ==
    /\ worker = "rules"
    /\ script = NoRule
    /\ todo = {}
    /\ Complete
    /\ worker' = "idle"
    /\ UNCHANGED <<tables, todo, script, attempt, httpVars, history>>

------------------------------------------------------------------------------
(* Stop().                                                                 *)

StopBegins == Close /\ UNCHANGED <<tables, workerVars, httpVars, history>>

WorkerLeaves ==
    /\ worker = "idle"
    /\ Expire
    /\ UNCHANGED <<tables, workerVars, httpVars, history>>

StopReturns == Seal /\ UNCHANGED <<tables, workerVars, httpVars, history>>

\* main closes the database, and then stops the engine; only where a start has
\* failed is the engine stopped before.
CloseDatabase ==
    /\ db_open
    /\ open \/ sealed
    /\ db_open' = FALSE
    /\ UNCHANGED <<channelVars, faulty, event, rule, inserted, event_rule, event_record,
                   last_rowid, workerVars, httpVars, history>>

------------------------------------------------------------------------------
(* Write commands of LlmSqlProxy, each one statement (insert_rule: two).   *)

Command == db_open /\ commands < MaxCommands /\ commands' = commands + 1

\* insert_rule, the INSERT; enable and limit have defaults, count is given as 0.
InsertRule(c, enable, limit) ==
    /\ Command
    /\ http[c] = Idle
    /\ inserted < MaxRules
    /\ inserted' = inserted + 1
    /\ rule' = [r \in DOMAIN rule \cup {inserted'} |->
                  IF r = inserted'
                  THEN [enable |-> enable, count |-> 0, limit |-> limit]
                  ELSE rule[r]]
    /\ last_rowid' = inserted'
    /\ http' = [http EXCEPT ![c] = inserted']
    /\ UNCHANGED <<channelVars, database, event, event_rule, event_record, workerVars,
                   answers, history>>

\* insert_rule, PostExecute: read the rowid of the connection and answer it.  (There
\* is no connection to read it of once the database is closed.)
AnswerRowid(c) ==
    /\ db_open
    /\ http[c] # Idle
    /\ answers' = answers \cup {<<http[c], last_rowid>>}
    /\ http' = [http EXCEPT ![c] = Idle]
    /\ UNCHANGED <<channelVars, tables, workerVars, commands, history>>

\* A statement that writes row r of rule tells the history that it did.
Touch(r) ==
    /\ touched' = (touched \/ r = script)
    /\ cut_off' = cut_off \ {r}

\* update_rule overwrites every column; what the request leaves out takes its
\* default: enabled, count 0, no limit.
UpdateRule(r, enable, count, limit) ==
    /\ Command
    /\ rule' = [x \in DOMAIN rule |->
                  IF x = r THEN [enable |-> enable, count |-> count, limit |-> limit]
                           ELSE rule[x]]
    /\ Touch(r)
    /\ UNCHANGED <<channelVars, database, event, inserted, event_rule, event_record,
                   last_rowid, workerVars, http, answers, arrived>>

SetRuleEnable(r, enable) ==
    /\ Command
    /\ rule' = [x \in DOMAIN rule |->
                  IF x = r THEN [rule[x] EXCEPT !.enable = enable] ELSE rule[x]]
    /\ Touch(r)
    /\ UNCHANGED <<channelVars, database, event, inserted, event_rule, event_record,
                   last_rowid, workerVars, http, answers, arrived>>

\* Slip: foreign keys are not switched on.
DeleteRuleAnyway(r) ==
    /\ Command
    /\ rule' = [x \in DOMAIN rule \ {r} |-> rule[x]]
    /\ Touch(r)
    /\ UNCHANGED <<channelVars, database, event, inserted, event_rule, event_record,
                   last_rowid, workerVars, http, answers, arrived>>

\* delete_rule fails while an event is bound to the rule (foreign key).
DeleteRule(r) ==
    /\ Command
    /\ \A e \in Task : <<e, r>> \notin event_rule
    /\ rule' = [x \in DOMAIN rule \ {r} |-> rule[x]]
    /\ Touch(r)
    /\ UNCHANGED <<channelVars, database, event, inserted, event_rule, event_record,
                   last_rowid, workerVars, http, answers, arrived>>

\* insert_event_rule fails unless both rows exist (foreign keys).
BindRule(e, r) ==
    /\ Command
    /\ e \in event
    /\ r \in DOMAIN rule
    /\ event_rule' = event_rule \cup {<<e, r>>}
    /\ last_rowid' = IF <<e, r>> \in event_rule THEN last_rowid ELSE OtherRow
    /\ UNCHANGED <<channelVars, database, event, rule, inserted, event_record, workerVars,
                   http, answers, history>>

\* delete_event_rule, delete_event_rules_by_event, delete_event_rules_by_rule.
Unbind(E, R) ==
    /\ Command
    /\ event_rule' = event_rule \ (E \X R)
    /\ UNCHANGED <<channelVars, database, event, rule, inserted, event_record, last_rowid,
                   workerVars, http, answers, history>>

------------------------------------------------------------------------------
WorkerStep ==
    \/ TakeEvent \/ LookUpEvent \/ RecordEvent \/ FindRules
    \/ \E r \in RuleId : VisitRule(r)
    \/ ScriptSucceeds \/ ScriptFails \/ ScriptTimesOut
    \/ FinishEvent

\* One SQL write command from the HTTP service.
CommandStep ==
    \/ \E c \in Client, enable \in BOOLEAN, l \in Limit : InsertRule(c, enable, l)
    \/ \E r \in RuleId, enable \in BOOLEAN, l \in Limit :
           \E n \in 0..l : UpdateRule(r, enable, n, l)
    \/ \E r \in RuleId, enable \in BOOLEAN : SetRuleEnable(r, enable)
    \/ \E r \in RuleId : DeleteRule(r)
    \/ \E e \in Task, r \in RuleId : BindRule(e, r) \/ Unbind({e}, {r})
    \/ \E e \in Task : Unbind({e}, RuleId)
    \/ \E r \in RuleId : Unbind(Task, {r})

Next ==
    \/ \E e \in Task : OnDeviceEvent(e) \/ RegisterEvent(e)
    \/ OnDeviceData
    \/ WorkerStep
    \/ StopBegins \/ WorkerLeaves \/ StopReturns \/ CloseDatabase
    \/ CommandStep
    \/ \E c \in Client : AnswerRowid(c)

\* The worker thread is scheduled, and a script ends: the hook cuts it off.
Fairness == WF_vars(WorkerStep)

Spec == Init /\ [][Next]_vars /\ Fairness

------------------------------------------------------------------------------
(* Properties.                                                             *)

\* The events whose records have been written or have failed to be.
InHand  == IF worker \in {"lookup", "known", "unknown"} THEN current ELSE <<>>
Handled == Len(arrived) - Len(pending) - Len(InHand)

\* The history table is the input: it holds events that arrived, known or not, none
\* twice and in the order of arrival.  On a disk that works it holds all of them
\* before their rules run, from the first on; only of those that the worker takes
\* after main has closed the database there is no record (ProcessEvent steps 1 and
\* 2, EventRecordTable::Insert, DBTable::Shutdown).
RecordsKeepOrder ==
    /\ \E place \in [1..Len(event_record) -> 1..Handled] :
         /\ \A i, k \in 1..Len(event_record) : i < k => place[i] < place[k]
         /\ \A i \in 1..Len(event_record) : event_record[i] = arrived[place[i]]
    /\ ~faulty => /\ \A i \in 1..Len(event_record) : event_record[i] = arrived[i]
                  /\ db_open => Len(event_record) = Handled

\* A binding refers to a registered event and an existing rule, whatever order
\* the HTTP requests come in (the foreign keys of event_rule).
BindingsRefer ==
    \A b \in event_rule : b[1] \in event /\ b[2] \in DOMAIN rule

\* While a rule's script runs the rule exists, is enabled and is below its
\* limit, unless a command changed that very rule after ProcessEvent read its
\* row: an earlier rule of the same event, however long its script takes, does
\* not leave a later one running on an old row.
RunIsAllowed ==
    script # NoRule /\ ~touched
        => /\ script \in DOMAIN rule
           /\ rule[script].enable
           /\ rule[script].limit > 0 => rule[script].count < rule[script].limit

\* "limit" bounds the successful runs counted since count was last given, and
\* one more when an update_rule or set_rule_enable raced with the script.  (The
\* commands give counts within the limit.)
LimitHolds ==
    \A r \in DOMAIN rule :
        rule[r].limit > 0 => rule[r].count <= rule[r].limit + 1

\* A rule whose script timed out twice is off and its script does not run until
\* somebody updates, enables or deletes the rule, unless the UPDATE that turns it
\* off has failed, which nobody looks at (LuaSandbox::Execute).
TimedOutRuleIsOff ==
    \A r \in cut_off : /\ r \in DOMAIN rule => ~rule[r].enable
                       /\ script # r

\* The worker never undoes a command that raced with a script: it does not
\* bring back a deleted rule, enable a disabled one, or change a limit.
UndoesNoCommand ==
    commands' = commands =>
        /\ DOMAIN rule' = DOMAIN rule
        /\ \A r \in DOMAIN rule : /\ rule'[r].limit = rule[r].limit
                                  /\ rule'[r].enable => rule[r].enable
                                  /\ rule'[r].count - rule[r].count \in 0..1
WorkerKeepsCommands == [][UndoesNoCommand]_vars

\* An event that arrived is taken and done with, its rules visited, however their
\* scripts end and whatever statements fail, as long as the engine is not being
\* stopped.
EveryEventHandled ==
    \A n \in 1..MaxArrivals :
        (Len(arrived) >= n) ~> (~open \/ (Handled >= n /\ current = <<>>))

\* insert_rule answers the rule_id of the row that the same request inserted.
AnswersOwnRule == \A a \in answers : a[1] = a[2]
==============================================================================
