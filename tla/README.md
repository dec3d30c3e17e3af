# CortexLink in TLA+

CortexLink is a smart-home hub: a C++17 program that listens to devices over
MQTT, runs Lua rules on their events, keeps its state in one SQLite file, and
lets apps (over MQTT) and a language model (over HTTP) query and edit it.  Two
Python programs, the cron device and the speaker device, play devices.

This directory models its concurrent core, its algorithms, its start and
shutdown and its two devices, checks them with TLC on small instances and proves
the main results with TLAPS for all instances.

## The system

`main.cpp` opens the database, creates the tables, connects the MQTT client and
starts the components one after the other; at shutdown it closes the database
and lets the destructors stop the components in reverse order.

| Thread | Runs |
|---|---|
| MQTT loop | every MQTT callback, one at a time, under the client's mutex |
| rule worker | `RuleEngine::WorkerLoop`: one event at a time, scripts included |
| heartbeat check | `DeviceManager::HeartbeatCheckLoop`, every 5 s |
| cleanup | `AppManager::CleanupLoop`, every 1 s |
| LLM worker | `AppManager::LlmWorkerLoop`: one request at a time |
| HTTP threads | `LlmSqlProxy::HandleRequest`, several at once |
| main | starts, waits, shuts down |
| cron device | an MQTT thread and a scheduler, which wakes every 30 s |
| speaker device | an MQTT thread and one thread per accepted speak |

Those of the hub share one SQLite connection.  `DBTable` serialises statements with
a mutex and uses no transaction, so a statement is atomic and two statements
are not.

### Inventory

| Component | State | Operations | What makes it correct | Here |
|---|---|---|---|---|
| Worker queues (`RuleEngine`, `AppManager`) | `running_`, queue, mutex, condition variable | callback pushes, worker pops, `Stop()` | nothing lost or reordered, no lost wakeup, `Stop()` returns and leaves nothing running | `WorkerQueue`, `TaskChannel` |
| Rule engine | tables event, rule, event_rule, event_record | events arrive, are recorded, rules are visited, scripts run | the audit trail is what arrived, in order; only rules that may run do; limits; two timeouts disable | `RuleEngine` |
| Lua sandbox | one Lua state per attempt | execute, retry, count, disable; host functions | bounded attempts; the rule's row tells what happened | attempts: `RuleEngine`; host functions: not modelled |
| LLM SQL proxy | HTTP server, table rows | 21 commands | commands survive the worker, bindings refer to rows, answers are about one's own row | `SqlRequest`, `SqlGuides`, `RuleEngine`, `Lifecycle` |
| Device registry | column dev_state, `last_heartbeat_` | register, heartbeat, check, restart | silent devices go offline in time, live ones do not stay offline | `DeviceRegistry` |
| Device configuration | one column of a row | copy a device's announcement | one statement, one thread | not modelled |
| Device replies | `pending_requests_` | send and wait, answer, time out, reject | one outcome per request | not modelled |
| File upload | `transfers_`, files | fragment, complete, clean up | no mixtures on disk, honest answers, nothing lingers | `FileTransfer` |
| LLM requests | queue, HTTP client | enqueue, poll, answer | every request gets one answer | `LlmRequest`, `WorkerQueue` |
| MQTT client | pending and confirmed subscriptions | subscribe, SUBACK, reconnect, dispatch | what is subscribed is dispatched and renewed | `Lifecycle`, `TopicFilter` |
| App SQL proxy | none of its own | 9 commands | one reply per request with the right code | `SqlRequest`, `SqlGuides`, `Lifecycle` |
| Condition parser | none | parse, evaluate | a condition means what its text says | `CondLine`, `CondLexer`, `CondParser`, `CondEvaluator` |
| Startup and shutdown | order of starts and stops | start, stop | nothing uses what is gone | `Lifecycle` |
| Cron device | entries, last fired minutes, crontab file | add, remove, fire, save, load | fires once per matching minute, counts survive | `CronDevice`, `CronParser` |
| Speaker device | speaking flag, player process | speak, stop | one playback at a time, stop stops | `Speaker` |
| Database layer | connection | one statement | one statement is one step, foreign keys on | as the unit of steps; failures in `SqlRequest` |

Interactions: MQTT callbacks push into the worker queues; the rule engine reads
the tables that the device manager (events), the HTTP commands (rules and
bindings) and itself (records, counts) write; scripts send to devices through
the device manager; everything that touches the database meets in `DBTable`.
Main starts and stops all of them while the client's loop thread runs their
callbacks.  The devices share nothing with the hub but the broker.

What is hard is the concurrency (callbacks against workers, checkers and HTTP
threads, with a statement or a critical section as the unit), the timeouts
(heartbeats, fragments, scripts, replies), repeated delivery, and restarts that
keep the database and lose the memory; and start and shutdown, where callbacks
meet objects that do not exist yet or any more.  `PROJECT.json` lists the hazards at
their lines.

## The modules

| Module | Models | Depends on |
|---|---|---|
| `TaskChannel` | what a worker queue promises | |
| `WorkerQueue` | the queue, mutex, condition variable and `Stop()` of `RuleEngine` and of `AppManager` | implements `TaskChannel` |
| `RuleEngine` | event processing, the sandbox's attempts, SQL commands | built on `TaskChannel` |
| `DeviceRegistry` | registrations, heartbeats, the check, restarts | |
| `FileTransfer` | uploads in fragments | |
| `MCFileTransfer` | symmetry and a bound of `FileTransfer` for TLC | `FileTransfer` |
| `Lifecycle` | main's starts and stops and the MQTT client beside them | |
| `CronDevice` | the jobs of the cron device, its scheduler, its file | |
| `Speaker` | speak and stop of the speaker device, the player program | |
| `MCThreads` | one of three components per behaviour, for TLC | `WorkerQueue`, `DeviceRegistry`, `Speaker` |
| `CondLine` | `ParseCondition`: the search for an event's condition in `cond_expr` | |
| `CondLexer` | a condition's text to its tokens | |
| `CondParser` | the recursive-descent parser, and what a sentence and its tree are | |
| `CondEvaluator` | the tree to its truth value | `CondParser`, `CondLexer` |
| `TopicFilter` | a message finds its subscription: the loops of `on_message` and `TopicMatches` | |
| `SqlRequest` | the commands of both SQL proxies, from the parameters to the answer | |
| `SqlGuides` | what the guides promise of them, and a request being handled | `SqlRequest` |
| `LlmRequest` | a prompt, its polls, the walk down a history, its answers | |
| `CronParser` | cron fields, expressions and offsets | |
| `MCAlgorithms` | inputs of the nine above, reference definitions for conditions and cron texts, and the cron device beside them | the nine above, `CronDevice` |
| `WorkerQueueProofs`, `RuleEngineProofs`, `DeviceRegistryProofs`, `FileTransferProofs`, `LifecycleProofs` | theorems | the module they are named after |
| `DeviceProofs` | theorems | `CronDevice`, `Speaker` |
| `ConditionProofs` | theorems | `CondLine`, `CondParser` |
| `MessageProofs` | theorems | `TopicFilter`, `SqlGuides`, `LlmRequest` |

Operators marked "Slip" in a module are plausible mistakes in the action that
follows them.  No specification uses them: they are there to confirm that each
property notices a mistake in the code it is about (`PROJECT.json`, "mutants").

### TaskChannel and WorkerQueue

A step of `WorkerQueue` is one access to the atomic `running_` or one critical
section.  `cv.wait(lock, pred)` is `EvaluatePredicate`, `Block` (release the
mutex and wait, atomically) and `LockQueue`, because `Stop()` writes `running_`
between them.  Spurious wakeups are allowed at any time.  `StopLocks` chooses
between `RuleEngine::Stop`, which takes and releases the queue mutex before it
notifies, and `AppManager::Stop`, which does not.  `TaskChannel` is the same
with the threads and the mutex abstracted away; the refinement mapping is
`Channel` in `WorkerQueue`.  Its `grace` is the one task a worker that is past
its loop test may still take after `Stop()` has begun: with a backlog at
shutdown one more event is processed and the rest is dropped.

### RuleEngine

The queue is `TaskChannel`.  The worker's steps are those of `ProcessEvent`:
`LookUpEvent`, `RecordEvent`, `FindRules`, one `VisitRule` per rule, and
`ScriptSucceeds`, `ScriptFails` or `ScriptTimesOut` for what `Execute` does.
The tables are `event`, `rule` (`rule_id` to its enable, count and limit),
`event_rule` and `event_record`.  `inserted` is the AUTOINCREMENT counter and
`last_rowid` the connection's last inserted rowid, of which only matters
whether it is a rule's.  HTTP commands are single statements; `insert_rule` is
`InsertRule` and then `AnswerRowid`.  Conditions, missing script files and what
a script does are free choices.  `touched` and `cut_off` are history variables
for the properties.

`db_open` is the connection, which `CloseDatabase` closes before the engine is
stopped, as main does, or after it where a start has failed.  `faulty` is a
disk on which any statement may fail.  A statement that can fail (`Fails`)
changes nothing then, and the worker goes on as `ProcessEvent` and `Execute` do,
which look at the result of no write: an event is handled without its record, a
read finds nothing or a part of the rows, a count or a disabling is lost.  The
steps of the HTTP and MQTT threads that would change nothing are left out.

`update_rule` overwrites every column and gives what the request leaves out its
default (limit 0, count 0, enabled); the model does the same.

### DeviceRegistry

`last_heartbeat` holds the age of an entry instead of a time point.  The MQTT
thread's callbacks and the check are split at every statement and critical
section, so a heartbeat can come between the check's read of a row and its
write.  `Restart` keeps the column and loses everything else, at any point.

Time assumption: a callback or a check takes less than a unit of time, so `Tick`
happens when neither is under way; the checking thread wakes when its sleep is
over.  In the code a unit is 5 seconds and a callback a few SQLite statements.

### FileTransfer

The state of a transfer is its declared total, whose checksum it keeps, whose
data each stored fragment is, and its age.  A saved file is its first fragments,
the app whose checksum it was saved under, and that checksum.  `FirstFragment`, `RefuseFragment`
and `StoreFragment` are the branches of `HandleFragment`, each with its answer;
`TryComplete` runs outside the mutex but on the same thread, so it is the next
step of that thread, and the cleanup thread can run before it.  The environment
follows the guide for apps (the next fragment after an ok) with fragments
numbered from 0 as the code wants them; it may start over, its fragments may be
delivered again from an earlier one on, and answers may be lost.  A fragment
that is lost is one that is never delivered before the app starts over; a loss
in the middle of a redelivery is not modelled.  A callback takes less than a
unit of time (1 second).

`Written` is what the code does with a disk that fails: a file that cannot be
opened stays as it was and the app is refused; one that was opened has been
emptied and keeps what was written of it under its name, and the app is refused
if the write fails but answered with ok if only `close()` would find out.

### Lifecycle

`main` is main.cpp's program counter: what it does (`mode`: start the
components, undo a start that failed, wait for a signal, leave), its next step,
with which component and with which of its subscriptions.  The components are
started in the order of `Component`; each `Subscribe()` is `SubscribeSend` (the
library's call) and `SubscribeRecord` (the entry in `pending_subscriptions_`),
because the SUBACK can come between them.  `Stop()` of the components differs and
so do their steps: `DeviceManager` unsubscribes nothing, `RuleEngine` and
`AppManager` join and then unsubscribe, in opposite orders, `AppSqlProxy` has no
thread, and `LlmSqlProxy` does nothing when its server has stopped by itself.
`AppManager` notifies its worker without the mutex of the queue, so its worker
may be `"asleep"` after `StopBegin`, for good or until something wakes it
(`WorkerWakes`); what happens inside the queue is `WorkerQueue` (run `llm_stop`).
Leaving destroys the objects, last one first; destroying a joinable thread
terminates the program.

The loop thread is `OnConnect`, `Renew`, `OnSubscribe`, `OnMessage` and
`OnMessageReturns`: a callback runs under the client's mutex, and every other
holder keeps it for one step only.  The broker is external: it handles packets at
once and in order, forgets a connection's subscriptions with it
(`clean_session`), and its answers are lost with the connection.  What a callback
does to its component is the subject of the other modules.

### CronDevice and Speaker

`CronDevice` splits the scheduler where the lock is released: the snapshot, then
for each job the check, the mark, the publish and the count.  `lock` says for
whom the list is being saved; `OpenFile` empties the file and `CloseFile` writes
all of it, or a part if it fails.  The process can die between any two steps and
loads the file again.  The clock is read twice per wakeup, and may have gone on
in between.

The file does not give back every text, so a job has a kind of text (`TextKind`).
The file has a job on a line, with its fields between bars.  With a `|` in its
params the line is read with a part of the params for its count, which may be any
number or none, and none is for ever; a newline in its expression, which `parse`
takes for a space, makes two lines that are both skipped (`ReadAs`, `ReadBack`).
Half of a surrogate pair in its params can neither be written (`SaveThrows`) nor
published (`PublishThrows`): the handler ends without an answer and the job stays
in the list, where it makes every later save end at its line, and ends the
scheduler's thread.  A line that was cut in its count is read with the digits that
are left, or as for ever.  A file that cannot be read is taken for no jobs, and the
next save writes over it (`LoadCrontab`).  One that cannot be decoded ends the
start: it is a process that stays down.

`Speaker` splits each thread where another thread can change `_speaking`,
`_stop_playback` or `_process`: none of the three is read and written under one
lock.  Every failure of the synthesis and of the player program is a choice.
`HandleSpeak` sets the flag and `StartThread` starts the thread, or throws:
`int()` of an infinite volume is an `OverflowError`, which is not caught there,
and a thread may fail to start.  `_on_message` logs the exception and the flag
stays set; `stuck` remembers that.

### Messages: TopicFilter, SqlRequest, SqlGuides, LlmRequest

`TopicFilter` is the loop of `on_message` over the subscriptions, which come in any
order because the map has none, and in it the loop of `TopicMatches` over the
levels; a topic or a filter is the sequence of its levels.  A step is one turn of
a loop.  The components' own filters are listed there.

`SqlRequest` has the commands of both routers with what each checks, binds and
executes; a JSON value is its kind, and a request is handled in one step
(`HandleSqlRequest`).  A thrown exception ends the program over MQTT, where
nothing catches it, and is answered with status 500 over HTTP.  `SqlGuides` is
written from the two guides and not from the code; where the two part, the
definition is the guide's and the property names the exemption (`GivesRuleFields`,
`ThrowsOverMqtt`).  A request is anything that can be sent: a payload that is no
JSON or no object, a `msg_id`, a `cmd` and `params` of any kind or absent.

`LlmRequest` goes from `OnLlmRequest` to the answer, with a step for each attempt,
each reply and each object that `IsHistoryComplete` looks at; `running_` may be
cleared between any two.  A history is a map from paths to objects: `<<>>` is the
root and `<<"result", "data">>` the `data` of its `result`.

### Conditions: CondLine, CondLexer, CondParser, CondEvaluator

`CondLine` is `ParseCondition` up to the call of the parser: a step reads a line or
one symbol of the line that names the event, where a symbol is a parenthesis, a
space or a whole word.  `CondParser` is the parser with a step for each token that
is taken and each function that returns.  C++'s call stack is `stack`, with an
entry for each open parenthesis: which operator each of `ParseComparison`,
`ParseAndExpr` and `ParseOrExpr` has in hand there.  A node is the position of its
token, and the tree the two maps from operators to operands.  What the parser
should do is said without a grammar and without recursion: a `Sentence` alternates
operands and operators, closes what it opens and chains no comparisons, and in its
tree (`IsTree`) the root of every part is the loosest operator of that part, of
equals the last.  `CondLexer` and `CondEvaluator` are functions, with recursive
operators, translated branch by branch.

`MCAlgorithms` evaluates an assumption that ties the two ways to say it together
(`GrammarAssumption`): for every token sequence up to length 5 the sentences are
those for which the grammar, tried with every split of the tokens, has a tree;
and that tree is the only one and is the one `IsRoot` says.

### Cron texts: CronParser

A function of the text too; a text is a sequence of characters.  `MCAlgorithms`
compares it with the union of the items of a field, for every field of bounded size.
It also gives the conditions and the messages above to their modules.

## The checks

| Run | Instance | Shows |
|---|---|---|
| `threads` | 2 tasks, 3 arrivals, `RuleEngine`'s Stop; 2 devices, timeout 2, period 1, 1 restart; 3 speaks, 1 stop | `QueueTypeOK`, `FirstInFirstOut`, `NoLostWakeup`, `ImplementsChannel`, `StopReturns`, `EveryTaskTaken`; `TypeOK`, `OnlineIsWatched`, `OfflineInTime`, `HeardStaysOnline`, `OfflineIsRepaired`; `SpeakingIsExclusive`, `BusyEnds` |
| `rule_engine` | 1 event id, 2 rules, 2 arrivals, 2 commands, a disk that works or not | `TypeOK`, `RecordsKeepOrder`, `BindingsRefer`, `RunIsAllowed`, `LimitHolds`, `TimedOutRuleIsOff`, `WorkerKeepsCommands`, `EveryEventHandled` |
| `file_transfer` | 2 apps, 2 types, 1 name, 1 or 3 fragments, timeout 1, period 1, a good or a bad disk | `TypeOK`, `SavedIsWhole`, `LastOkIsTrue`, `NothingLingers` |
| `algorithms` | the inputs and messages named in `MCAlgorithms`, 3 polls; 2 jobs, 2 minutes, 1 crash or failed save | `SentencesMeanWhatTheySay`, `LongestSentenceCounts`, `LineOfEvent`, `TopicsFindTheirHandler`, `RequestsAreServed`, `PromptIsAnswered`, `CronTextsMeanWhatTheySay`; `FiringIsBounded`, `JobsSurvive` |
| `lifecycle` | 1, 2 and 2 subscriptions, 2 lost connections | `TypeOK`, `ConfirmedIsRenewed`, `NoCallbackAfterRemoval`, `FailedStartIsClean`, `DeafOnlyByRace`, `ProgramEnds` |
| `llm_stop` | 1 task, `AppManager`'s Stop | violates `StopReturns` |
| `insert_rule` | 2 requests | violates `AnswersOwnRule` |
| `restart_offline` | 1 device, 1 restart | violates `SilentIsOffline` |
| `last_ok` | 1 app, 2 fragments | violates `LastOkMeansSaved` |
| `shutdown` | 1, 1 and 2 subscriptions, 1 lost connection | violates `CallbacksAreLive` |
| `reading_order` | the sentences of `algorithms` | violates `ConditionsReadLeftToRight` |
| `update_rule` | the SQL requests of `algorithms` | violates `UpdateTakesTheFieldsGiven` |

Bounds.  In `threads` (57 000 states) the components share nothing but the
broker, so a behaviour is one of the three.  Three arrivals let two tasks queue
behind the one in hand and one arrive after `Stop()` has begun.  Two devices let
one be marked while the other sends; timeout 2 and period 1 keep "younger than
the timeout", "at it" and "late by up to a period" apart, ages beyond `Longest`
behave alike, and one restart can fall between any two steps.  Three speaks and
one stop let an old thread, a stopped one and a new one overlap.

In `rule_engine` (724 000 states) two rules and two commands are enough to race an
update with a script and then delete or disable the rule, since rules are bound or
not from the start; two arrivals and a limit of 1 let a rule reach its limit and
be visited again.  The disk is good or bad for a whole behaviour, and a bad one
fails in any statement or in none.  In `file_transfer` (1.9 million states) two apps
on one name, with equal or different types, totals and checksums, give every way
in which uploads can get into each other; three fragments give a middle one, one
the short path; on a disk that fails both apps give a checksum (`SumsOnBadDisk`),
and `LastOkIsTrue`, which speaks of a good disk, is not cut by that.

In `lifecycle` (535 000 states) two subscriptions of `RuleEngine` and of
`AppManager` are what it takes for the first to be undone when the second fails
and for the orders of unsubscribing to differ; `DeviceManager` never
unsubscribes, and one of its four stands for all.  Two lost connections let one
be lost while the last one is being renewed.

`algorithms` (3.8 million states) has all disjunctions of
conjunctions of up to three atoms, with and without parentheses, each
comparison of every two kinds of values, all token sequences up to length 5, every
`cond_expr` of one line of up to 6 symbols or two lines of up to 3 (a nested, a
missing and an early parenthesis, and another event's line before), all
filters and topics up to three levels, the hub's ten filters together with the
topics for them and in every order of the map (most of the states), every
documented request with one parameter dropped, added or of another kind and every
shape of a payload, and all field and offset texts up to four characters; 3 polls
instead of 30 are enough for a failed, an unfinished and a last one, with histories
that report at the root, one or two levels down, or nowhere.  Of the cron device, two
jobs let one be removed, added or counted down while the scheduler has the other
in hand; counts of 2 and "for ever" let a job be counted down and then be removed;
jobs have any of the four kinds of text (`FewJobs`: one that is not plain is endless and
matches every minute), and a count that is read from the params is 0, 1 or 2 (`AnyCount`);
one fault at any step is a crash, which may leave the file empty, or a failed save, which
may leave it half written; two minutes let the clock go on between its two
readings.

No run but `file_transfer`, `last_ok` and `restart_offline` checks for deadlock,
because elsewhere the behaviour may end: a `Stop()` has returned or the program has ended
(`threads`, `llm_stop`, `lifecycle`, `shutdown`), the bounds on arrivals, commands, speaks,
jobs and minutes are used up (`threads`, `rule_engine`, `insert_rule`, `algorithms`), or an
algorithm has run or a message was handled (`algorithms`, `reading_order`,
`update_rule`).

Fairness.  `WorkerQueue`: threads that can run do (weak), a mutex that is free
again and again is granted (strong, for the worker and for `Stop()`), tasks
end: a script is cut off after two attempts and polling after 30.  Nothing
obliges a task to arrive or `Stop()` to be called, and no fairness on spurious
wakeups is assumed.  `RuleEngine`: weak fairness of the worker thread only; that
a script which is cut off ends is part of it, so one that catches the error of the
cut-off with `pcall` and goes on for ever is outside the model.
`DeviceRegistry`: both threads and time go on, and a device that is alive goes
on sending heartbeats that find the MQTT thread idle again and again (strong).
`Speaker`: the threads run, a synthesis returns and a player program ends
(weak); requests need not come.  `MCThreads` states the fairness of these three
(`FairQueue`, `FairRegistry`, `FairSpeaker`) for its composition.
`FileTransfer` and `CronDevice` have safety properties only.  `Lifecycle`: main's
steps are strongly fair, because the loop thread may take the
client's mutex again and again and main still gets it in the end; callbacks and
renewals return (they block on nothing main holds) and the components' threads
see `running_` (weak), but for the worker of `AppManager` that has missed the
wakeup: nothing is assumed to wake it.  Nobody has to send the signal, to lose a
connection or to repair one.

### What the violations say

* `llm_stop`: `AppManager::Stop` notifies without the queue mutex.  The
  notification can fall between the worker's test of the predicate and its
  wait; `join()` then waits for ever, and so does the program's shutdown.
* `insert_rule`: the rowid is read after the lock on the connection was
  released.  A data message of any device in between makes `insert_rule` answer
  a wrong `rule_id`, and the caller binds its event to it.
* `restart_offline`: `last_heartbeat_` is empty after a start.  A device that
  died while the hub was down stays online in the database until it speaks.
* `last_ok`: every stored fragment is answered with ok at once, the last one
  too, and the verdict of `TryComplete` is a second answer.  An app that stops
  at the ok for its last fragment, as the guide says, misses it.
* `shutdown`: main.cpp says that every destructor unsubscribes before the client
  closes the connection.  `DeviceManager::Stop()` does not, so a device's message
  can run a callback of the destroyed `DeviceManager` until the loop is stopped.
* `reading_order`: `openclaw_skill.md` says that conditions are read with parentheses
  first and then from left to right.  The parser has the usual precedence, so
  `a || b && c` is true when `a` is and `c` is not; read from left to right it is
  false.  `SentencesMeanWhatTheySay` and `LongestSentenceCounts` speak of the grammar
  in the code.
* `update_rule`: `openclaw_skill.md` gives the parameters of `update_rule` as "`rule_id`
  and the fields to update".  The code wants name, type and action each time and
  answers `InvalidParams` without them; what else is left out is reset.

### What the properties leave out

Several properties hold with an exemption, which is what the code does:

* `DeafOnlyByRace`: a SUBACK that comes before its entry is pending is taken for
  a renewal, and one that is lost with its connection is never asked for again.
  Either leaves the component without that subscription, and without an error.
* `NoCallbackAfterRemoval` speaks of confirmed subscriptions.  One that is
  unsubscribed before its SUBACK stays pending, and the late SUBACK confirms it.
* `RecordsKeepOrder`: an event that the worker takes after main has closed the
  database has no record, nor has one whose INSERT fails: the result is ignored.  A
  statement that is being executed in the moment of the closing is not modelled.
* `TimedOutRuleIsOff`: the UPDATE that turns the rule off may fail, which nobody looks at.
* `SavedIsWhole`: on a disk that fails the name is left with a beginning of the file,
  and with a failure that only `close()` finds the app is told ok.  A kill in the
  middle of a write is not modelled.
* `ProgramEnds`: unless `AppManager`'s worker misses the wakeup of `Stop()` and sleeps
  for ever, which is what `llm_stop` finds in its queue.
* `RequestsAreServed`: a `msg_id` that is not a text, or a payload that is JSON but no
  object, throws in the MQTT callback, where nothing catches it, so there is no
  answer; and `update_rule` needs all the fields that `insert_rule` needs.
* `FiringIsBounded`: a `|` in the params of a job spoils its count in the file, a
  failed save is ignored when a job fires or is removed, and a crash after the
  publish fires it again.  A removed job may fire twice in a minute, because
  removing it forgets the minute it fired in.
* `JobsSurvive`: a crash while the file is open loses all jobs, a failed save those
  behind the cut, a file that cannot be read all of them at the next save.  Over a
  restart a newline in the expression loses the job, and a `|` in the params gives it
  another count.  It says nothing of jobs whose add was not answered, which half of a
  surrogate pair does to its own and every later job.  The list is taken to fit the
  file's buffer; a longer one could also be cut by a crash.
* `SpeakingIsExclusive` holds until the first stop.  After it, the `finally` of
  the stopped thread clears the busy flag of a new speak, and two sounds play at
  once; and a stop during the synthesis is lost, since the thread clears the event
  before it plays.
* `BusyEnds`: a speak that throws between the flag and the start of its thread leaves
  the device busy until somebody sends a stop.
* `CronTextsMeanWhatTheySay`: Python's `int()` takes the second minus of `1--0`.
* `LongestSentenceCounts`: what follows a condition that is complete is only
  warned about.  A condition with an error has no tree, and its rule always runs.

Differences between code and texts met on the way, without a run of their own:

* `docs/app_dev_guide.md` numbers fragments from 1 and asks for an MD5 checksum;
  the code needs 0 first and compares SHA-256.
* `docs/mqtt-protocol.md` and both devices send the key `event` in their
  announcement; `OnBroadcastOnline` reads `events`.
* `cron_device.py` says a job fires at most once per minute; after a restart in
  the same minute it may fire again, and a minute that passes between the two
  readings of the clock may be missed.
* An LLM SQL server that stops listening by itself leaves a joinable thread that
  `Stop()` does not join; destroying it terminates the program.

## The proofs

For every value of the constants, from the assumptions on them that the modules
state:

| Theorem | Says |
|---|---|
| `WorkerQueueProofs!TypeCorrect` | `QueueSpec => []QueueTypeOK` |
| `WorkerQueueProofs!Fifo` | `QueueSpec => []FirstInFirstOut` |
| `WorkerQueueProofs!WakeupNotLost` | with `StopLocks`: `QueueSpec => []NoLostWakeup` |
| `WorkerQueueProofs!Refinement` | `QueueSpec => ImplementsChannel`, for both ways to stop |
| `RuleEngineProofs!TypeCorrect` | `Spec => []TypeOK` |
| `RuleEngineProofs!RecordsInOrder` | `Spec => []RecordsKeepOrder` |
| `RuleEngineProofs!BindingsExist` | `Spec => []BindingsRefer` |
| `RuleEngineProofs!RunAllowed` | `Spec => []RunIsAllowed` |
| `RuleEngineProofs!LimitBound` | `Spec => []LimitHolds` |
| `RuleEngineProofs!TimedOutOff` | `Spec => []TimedOutRuleIsOff` |
| `RuleEngineProofs!CommandsKept` | `Spec => WorkerKeepsCommands` |
| `DeviceRegistryProofs!TypeCorrect` | `Spec => []TypeOK` |
| `DeviceRegistryProofs!OnlineWatched` | `Spec => []OnlineIsWatched` |
| `DeviceRegistryProofs!OfflineBound` | `Spec => []OfflineInTime` |
| `DeviceRegistryProofs!HeardOnline` | `Spec => []HeardStaysOnline` |
| `FileTransferProofs!TypeCorrect` | `Spec => []TypeOK` |
| `FileTransferProofs!SavedWhole` | `Spec => []SavedIsWhole` |
| `FileTransferProofs!LastOkHolds` | `Spec => []LastOkIsTrue` |
| `FileTransferProofs!NoneLingers` | `Spec => []NothingLingers` |
| `LifecycleProofs!TypeCorrect` | `Spec => []TypeOK` |
| `LifecycleProofs!Renewed` | `Spec => []ConfirmedIsRenewed` |
| `LifecycleProofs!NoLateCallback` | `Spec => []NoCallbackAfterRemoval` |
| `LifecycleProofs!CleanUndo` | `Spec => []FailedStartIsClean` |
| `LifecycleProofs!OnlyRacesDeafen` | `Spec => []DeafOnlyByRace` |
| `DeviceProofs!OneAtATime` | `SpeakerSpec => []SpeakingIsExclusive` |
| `DeviceProofs!FiringBounded` | `CronSpec => []FiringIsBounded` |
| `DeviceProofs!JobsKept` | `CronSpec => []JobsSurvive` |
| `ConditionProofs!LongestSentence` | `ParseSpec => []LongestSentenceCounts` |
| `ConditionProofs!LineFound` | `LineSpec => []LineOfEvent` |
| `MessageProofs!HandlerFound` | `DispatchSpec => []TopicsFindTheirHandler` |
| `MessageProofs!RequestsServed` | `RequestSpec => []RequestsAreServed` |
| `MessageProofs!PromptAnswered` | `LlmSpec => []PromptIsAnswered` |

`WorkerQueue`.  The types alone are not inductive: that the pop finds a task
needs to know that a worker that got through the predicate while `running_`
holds left a non-empty queue, and only the worker removes tasks.
`Coordination` states how the mutex, the worker's position, the task in hand
and `Stop()`'s position go together; with the types it is inductive.  The
refinement proof shows for each action which action of `TaskChannel` it is, or
that it changes nothing there.  For the wakeup the invariant is strengthened
with what a worker about to block knows: between its test and its wait the
mutex is held, so a task cannot have arrived and `Stop()` cannot have passed
its critical section.  This is where `StopLocks` is needed, and `llm_stop` is
the counterexample without it.

`RuleEngine`.  The types, the foreign keys, which rules run and what two
timeouts do are one inductive invariant with `WorkerOK`: the worker has an event
in hand unless it is idle, has rules to visit only while it visits them, and the
rule it runs and the rules it cut off have ids that were given out before.  The
last part is why a rule that is inserted meanwhile cannot be taken for one of
them (AUTOINCREMENT gives no id twice).  For the audit trail, `QueueIsInput` says
that what is pending and in hand are the last events that arrived; a new record is
put at the place of the event in hand, behind those that have one (`StepRecords`).
The limit is strengthened with
`ScriptWithinLimit`: the rule whose script runs has not counted beyond its limit
yet, so a success counts at most one run too many.

`DeviceRegistry`.  The inductive invariant relates the age of an entry to the
time since the device was heard (`AgesOK`: equal, except between the row and
the timestamp of a registration, and never above the timeout and the time
slept), ties a callback to its device (`CallbackOK`), says that only a running
check has devices to mark (`CheckOK`), and that a device heard between two
checks is not about to be marked (`HeardOK`).  No relation between the timeout
and the period is assumed: a check that runs seldom is late by its own period.

`FileTransfer`.  What is saved was complete: the invariant says that a transfer
that waits is not complete and has fragment 0, and that every fragment it holds
was sent by an app for that path (`TransfersOK`, `CompletedOK`, `FilesOK`); a disk
that fails cuts the fragments and keeps that, and a right checksum is that of all of
them before the cut.  An
app that sends on has a fragment left (`AppsOK`).  That the last ok is true needs
a second invariant, `LoneInv`, about an app whose topic and path nobody else uses:
its transfer holds a beginning of its file, which reaches at least to the
fragment that is delivered next; so the last fragment completes it, and an app
that is done has its file completed or saved.  A fragment 0 that is delivered
again is the hard case: it restarts the transfer, and the fragments that were
answered before are delivered again after it.

`Lifecycle`.  The properties depend on where main is: `PlaceOK` says which steps
go with which mode, `ThreadsOK` that only a started component has a thread, asleep or
not, and that main is not past its join, `LoopOK` that a stopped loop holds nothing.
`SubsOK` keeps pending, confirmed and removed apart; its core is that nothing is
subscribed any more once main unsubscribes, so no entry can come back.
`BrokerOK` ties the confirmed subscriptions to the broker through the SUBACKs
still on their way, and `AcksOK` says that a pending entry has its SUBACK ahead
of it unless one of the two races took it.

`Speaker`.  Until a stop, the busy flag is the right to play: who is active holds
it alone (`FlagOK`), what plays is the program the player knows (`PlayerOK`), and
nothing plays when a thread is about to start or to forget one (`ThreadsOK`).

`CronDevice`.  `Base` says that the list, the file and the scheduler's snapshot hold
jobs that were added, each at most once, and what the lock and the scheduler's step
imply.  `TextsOK` says what the texts do: a job with plain texts keeps them, the file
has no line that cannot be written, and who was answered with ok stands in the list
before every job whose line cannot (`OrderOK`), so a save that throws writes all of
those.  The rest bounds from both sides what a job has left to fire (`CountOK`).
`BoundOK`: fired and left together are at most the count that was asked and one per
crash, with one firing that is published and not counted yet set aside, unless the
job has a bar; the file may be behind the list by exactly that one, which is what a
crash costs.  `EnoughOK`: they are not less either, as long as there was no crash, or
no save failed and the texts are plain.  `OnceOK` says of
each pair of a job and a minute it fired in why it does not fire so again: it is
remembered with a key that is not older, or the job is in no list from which it
could fire, or it is being removed.  `KeptOK` says where a job with firings left must
be: in the list, and in the file unless that is open for writing.  A cut file keeps
a beginning of the list and what is read back keeps the lines of plain jobs in their
order (`LineIsRead`), so only a failed save, a crash with the file open or a file that
cannot be read loses such a job.

`TopicFilter`.  `DispatchInv` is the invariant of two loops: the subscriptions
that were tried do not match, and the levels before the one in hand let the
topic pass (`Passes`).  Three lemmas say what leaving the inner loop there means:
at a `#`, at a level that differs, at an end.  That at most one of the hub's own
filters matches (`HubFiltersApart`) is a fact about the ten of them and topics
of any length.  Assumed of the environment: a topic has no wildcard in it, as MQTT
has it.

`SqlRequest`.  Nothing is left to a loop here; the work is in what the guides and
the routers have to do with each other.  A command `Fits` its entry in the guide
if it needs the same parameters, of kinds that include the documented ones, and
each of its bindings takes a needed parameter, or an optional one with a
default; `AppFits` and `SkillFits` show it of every entry.  From that a request that
follows its entry binds every parameter (`Followed`), whatever else it has.
`BindAll` says what a list of bindings comes to; the first one that is not bound
exists because a set of naturals has a least element (`Least`, from the
well-foundedness of `<`).  That the MQTT proxy throws on nothing but the payload and
the `msg_id` is `AppTotal`: nothing it binds can.  Assumed is nothing but the kinds
of JSON values; the guide's `update_rule` fits the code's only for requests that give
the fields of `insert_rule` (`GivesRuleFields`).

`LlmRequest`.  That no complete reply is missed is an invariant over the polls
(`LlmInv`); that the walk finds what the definition `IsComplete` says is the
larger part.  The object in hand lies on the way (`result` before `data`) and
nothing above it reports.  `OneWay` shows that two objects on the way lie one
above the other, by the first key at which they would part; so the first object
that reports is the only one that counts (`FirstReportCounts`), and where the way
ends without a report none does (`NoReport`).  Histories may be of any depth and
`messages` of any length.

`CondParser`.  The invariant (`ParseInv`) speaks of every entry of the stack, for
any number of open parentheses.  Each operator that waits has the tree of its left
operand, which begins behind what waits further out and is as tight as the
function that made it (`StackOK`, `EntryOK`); `node` is the tree of all that was
read since (`NodeOK`), with a bound on its tightness that falls by one from
function to function (`Floor`).  What was read alternates, is not chained and has as
many open parentheses as the stack has entries (`ReadOK`).  `TreeJoin` is the heart
of it: two trees with an operator between them that is not tighter than the left
one and looser than the right one are one tree.  When a function returns, the
token behind is none of its operators (`ReturnedOK`), so where the parser stops
nothing longer is a sentence (`Returned`, `Stuck`): the next token does not fit, or
closes what was not opened, or would chain a comparison.  That no sentence is
refused follows from the same: where the parser fails, some token does not fit
(`UnreadFits`, `UnreadChained`).  The induction over the tokens is that of the
steps of the parser, so no recursion over the tree is needed.

`CondLine`.  `depth` is the number of parentheses open between the first one and
`cond_end`, and it has been positive all the way (`ScanOK`), so the parenthesis at
which it reaches 0 closes the first, and at the end of the line none does.

Only model-checked: `SentencesMeanWhatTheySay` and `CronTextsMeanWhatTheySay`, whose
operators are recursive (the value of a tree, numbers and cron texts digit by
digit), where neither the operators nor induction over data are within the
provers' reach; and everything that depends on fairness (`StopReturns`,
`EveryTaskTaken`, `EveryEventHandled`, `OfflineIsRepaired`, `ProgramEnds`,
`BusyEnds`), which they cannot do either.

## Not modelled

* `SendWithReply` with its promises, timeouts and safety net: nothing in the
  repository calls it, so nobody ever waits for a reply.
* The configuration path of `DeviceManager` (`broadcast/config`): one statement on
  one thread, read by nothing else.
* What a Lua script does and its host functions: each is one statement or one
  publish, in an order the user's script chooses.
* The text of SQL statements, and SQLite itself: a statement is one step that
  works or fails.
* Exponents, hexadecimal numbers and infinities in conditions, which `strtod`
  takes; numbers are told apart to one digit after the dot.
* Command line and configuration files, logging, utilities (identifiers, time and
  text conversions), vendored libraries, and the synthesis service.

## What could come next

A model of a script as a sequence of the sandbox's host functions; the lexer and
`ParsePart` of the cron device as loops with an invariant, like the parser.
