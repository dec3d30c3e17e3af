-------------------------- MODULE RuleEngineProofs --------------------------
(***************************************************************************)
(* What RuleEngine guarantees for every set of events and requests and     *)
(* every bound: its types, its foreign keys, which rules run, what two     *)
(* timeouts do, and that the worker undoes no command.                     *)
(***************************************************************************)
EXTENDS RuleEngine, SequenceTheorems, TLAPS

\* Where the worker is says what it has in hand, and the rule_ids that the
\* engine remembers were given out before.
WorkerOK ==
    /\ (current = <<>>) <=> (worker = "idle")
    /\ worker # "rules" => todo = {} /\ script = NoRule
    /\ script \in {NoRule} \cup 1..inserted
    /\ cut_off \subseteq 1..inserted

IInv == TypeOK /\ WorkerOK /\ BindingsRefer /\ RunIsAllowed /\ TimedOutRuleIsOff

\* A row that an earlier run left is a row.
LEMMA StoredRow ==
  ASSUME NEW row \in [enable : BOOLEAN, count : {0}, limit : Limit]
  PROVE  row \in Row
<1>1. Limit \subseteq Nat /\ {0} \subseteq Nat
  BY RuleEngineAssumption
<1> QED BY <1>1, Zenon DEF Row

LEMMA InitIInv == Init => IInv
<1> SUFFICES ASSUME Init PROVE IInv
  OBVIOUS
<1> USE RuleEngineAssumption DEF Init, ChannelInit
<1>1. TypeOK
  <2>1. ChannelTypeOK
    <3>1. pending \in Seq(Task)
      BY EmptySeq
    <3>2. current \in {<<>>} \cup {<<t>> : t \in Task}
      OBVIOUS
    <3>3. open \in BOOLEAN /\ grace \in BOOLEAN /\ sealed \in BOOLEAN
      OBVIOUS
    <3> QED BY <3>1, <3>2, <3>3 DEF ChannelTypeOK
  <2>2. DOMAIN rule \subseteq 1..inserted /\ \A r \in DOMAIN rule : rule[r] \in Row
    <3>1. DOMAIN rule = 1..Stored
      OBVIOUS
    <3>2. ASSUME NEW r \in DOMAIN rule PROVE rule[r] \in Row
      <4>1. rule[r] \in [enable : BOOLEAN, count : {0}, limit : Limit]
        BY <3>1
      <4> QED BY <4>1, StoredRow
    <3> QED BY <3>1, <3>2
  <2>3. event_rule \subseteq Task \X RuleId
    BY DEF RuleId
  <2>4. /\ event \subseteq Task
        /\ inserted \in 0..MaxRules
        /\ event_record \in Seq(Task)
        /\ arrived \in Seq(Task)
        /\ http \in [Client -> RuleId \cup {Idle}]
    BY DEF Idle
  <2>5. /\ last_rowid \in RuleId \cup {OtherRow}
        /\ worker \in {"idle", "lookup", "unknown", "known", "bindings", "rules"}
        /\ todo \subseteq RuleId
        /\ script \in RuleId \cup {NoRule}
        /\ attempt \in 1..2
        /\ answers \subseteq RuleId \X (RuleId \cup {OtherRow})
        /\ commands \in 0..MaxCommands
        /\ cut_off \subseteq RuleId
    BY DEF NoRule
  <2>6. touched \in BOOLEAN
    OBVIOUS
  <2> QED
    BY <2>1, <2>2, <2>3, <2>4, <2>5, <2>6 DEF TypeOK
<1>2. WorkerOK /\ BindingsRefer /\ RunIsAllowed /\ TimedOutRuleIsOff
  BY DEF WorkerOK, BindingsRefer, RunIsAllowed, TimedOutRuleIsOff, NoRule
<1> QED BY <1>1, <1>2 DEF IInv

\* What IncrementCount and SetEnable make of a row.
LEMMA CountedRow ==
  ASSUME NEW row \in Row
  PROVE  /\ [row EXCEPT !.count = @ + 1] \in Row
         /\ [row EXCEPT !.count = @ + 1].enable = row.enable
         /\ [row EXCEPT !.count = @ + 1].limit = row.limit
         /\ [row EXCEPT !.count = @ + 1].count = row.count + 1
BY DEF Row

LEMMA SwitchedRow ==
  ASSUME NEW row \in Row, NEW enable \in BOOLEAN
  PROVE  /\ [row EXCEPT !.enable = enable] \in Row
         /\ [row EXCEPT !.enable = enable].enable = enable
         /\ [row EXCEPT !.enable = enable].limit = row.limit
         /\ [row EXCEPT !.enable = enable].count = row.count
BY DEF Row

LEMMA StepIInv == IInv /\ [Next]_vars => IInv'
<1> SUFFICES ASSUME IInv, [Next]_vars PROVE IInv'
  OBVIOUS
<1> USE RuleEngineAssumption
        DEF IInv, TypeOK, ChannelTypeOK, WorkerOK, BindingsRefer, RunIsAllowed,
            TimedOutRuleIsOff, Row, RuleId, OtherRow, NoRule, Idle, channelVars,
            database, tables, workerVars, httpVars, history
<1>1. ASSUME NEW e \in Task, OnDeviceEvent(e) PROVE IInv'
  BY <1>1 DEF OnDeviceEvent, Accept
<1>2. ASSUME NEW e \in Task, RegisterEvent(e) PROVE IInv'
  BY <1>2 DEF RegisterEvent
<1>3. CASE OnDeviceData
  BY <1>3 DEF OnDeviceData
<1>4. CASE TakeEvent
  BY <1>4 DEF TakeEvent, Take
<1>5. CASE LookUpEvent
  BY <1>5 DEF LookUpEvent
<1>6. CASE RecordEvent
  <2>0. event_record \o current \in Seq(Task)
    <3>1. current \in Seq(Task)
      <4>1. CASE current = <<>>
        BY <4>1, EmptySeq
      <4>2. CASE \E t \in Task : current = <<t>>
        BY <4>2
      <4> QED BY <4>1, <4>2
    <3> QED BY <3>1, ConcatProperties
  <2>1. TypeOK'
    BY <1>6, <2>0 DEF RecordEvent
  <2>2. WorkerOK'
    BY <1>6, <2>0 DEF RecordEvent
  <2>3. BindingsRefer'
    BY <1>6, <2>0 DEF RecordEvent
  <2>4. RunIsAllowed'
    BY <1>6, <2>0 DEF RecordEvent
  <2>5. TimedOutRuleIsOff'
    BY <1>6, <2>0 DEF RecordEvent
  <2> QED BY <2>1, <2>2, <2>3, <2>4, <2>5
<1>7. CASE FindRules
  BY <1>7 DEF FindRules
<1>8. ASSUME NEW r \in RuleId, VisitRule(r) PROVE IInv'
  <2>1. CASE UNCHANGED <<script, attempt, touched>>
    BY <1>8, <2>1 DEF VisitRule
  <2>2. CASE MayRun(r) /\ script' = r /\ attempt' = 1 /\ touched' = FALSE
    <3>1. r \in 1..inserted /\ r \notin cut_off
      BY <2>2 DEF MayRun
    <3>2. TypeOK'
      <4>0. touched' \in BOOLEAN
        BY <2>2
      <4>1. script' \in RuleId /\ attempt' \in 1..2
        BY <2>2
      <4>2. /\ UNCHANGED <<pending, current, open, grace, sealed>>
            /\ UNCHANGED <<db_open, faulty, event, rule, inserted, event_rule,
                           event_record, last_rowid, worker, http, answers,
                           commands, arrived, cut_off>>
            /\ todo' \subseteq RuleId
        BY <1>8 DEF VisitRule
      <4> QED BY <4>0, <4>1, <4>2
    <3>3. WorkerOK' /\ BindingsRefer'
      BY <1>8, <2>2, <3>1 DEF VisitRule
    <3>4. RunIsAllowed' /\ TimedOutRuleIsOff'
      BY <1>8, <2>2, <3>1 DEF VisitRule, MayRun
    <3> QED BY <3>2, <3>3, <3>4
  <2> QED BY <1>8, <2>1, <2>2 DEF VisitRule
<1>9. CASE ScriptSucceeds
  <2>0. /\ DOMAIN rule' = DOMAIN rule
        /\ \A r \in DOMAIN rule :
              /\ rule'[r] \in Row
              /\ rule'[r].enable = rule[r].enable
    <3>1. CASE UNCHANGED rule
      BY <3>1
    <3>2. CASE rule' = [r \in DOMAIN rule |->
                          IF r = script THEN [rule[r] EXCEPT !.count = @ + 1]
                                        ELSE rule[r]]
      BY <3>2, CountedRow
    <3> QED BY <1>9, <3>1, <3>2 DEF ScriptSucceeds
  <2>1. TypeOK'
    BY <1>9, <2>0 DEF ScriptSucceeds
  <2>2. WorkerOK'
    BY <1>9, <2>0 DEF ScriptSucceeds
  <2>3. BindingsRefer'
    BY <1>9, <2>0 DEF ScriptSucceeds
  <2>4. RunIsAllowed'
    BY <1>9, <2>0 DEF ScriptSucceeds
  <2>5. TimedOutRuleIsOff'
    BY <1>9, <2>0 DEF ScriptSucceeds
  <2> QED BY <2>1, <2>2, <2>3, <2>4, <2>5
<1>10. CASE ScriptFails
  BY <1>10 DEF ScriptFails
<1>11. CASE ScriptTimesOut
  <2>1. CASE attempt = 1 /\ attempt' = 2 /\ UNCHANGED <<rule, script, cut_off>>
    BY <1>11, <2>1 DEF ScriptTimesOut
  <2>2. CASE /\ attempt = 2 /\ script' = NoRule /\ cut_off' = cut_off \cup {script}
             /\ rule' = [r \in DOMAIN rule |->
                           IF r = script THEN [rule[r] EXCEPT !.enable = FALSE]
                                         ELSE rule[r]]
    <3>1. /\ DOMAIN rule' = DOMAIN rule
          /\ \A r \in DOMAIN rule :
                /\ rule'[r] \in Row
                /\ r # script => rule'[r] = rule[r]
                /\ r = script => ~rule'[r].enable
      <4>1. rule' = [r \in DOMAIN rule |->
                       IF r = script THEN [rule[r] EXCEPT !.enable = FALSE]
                                     ELSE rule[r]]
        BY <2>2
      <4>2. ASSUME NEW r \in DOMAIN rule
            PROVE  [rule[r] EXCEPT !.enable = FALSE] \in Row
                   /\ [rule[r] EXCEPT !.enable = FALSE].enable = FALSE
        BY SwitchedRow
      <4> QED BY <4>1, <4>2
    <3>2. TypeOK'
      BY <1>11, <2>2, <3>1 DEF ScriptTimesOut
    <3>3. WorkerOK' /\ BindingsRefer' /\ RunIsAllowed'
      BY <1>11, <2>2, <3>1 DEF ScriptTimesOut
    <3>4. TimedOutRuleIsOff'
      BY <1>11, <2>2, <3>1 DEF ScriptTimesOut
    <3> QED BY <3>2, <3>3, <3>4
  <2>3. CASE attempt = 2 /\ script' = NoRule /\ UNCHANGED <<rule, cut_off>>
    BY <1>11, <2>3 DEF ScriptTimesOut
  <2> QED BY <1>11, <2>1, <2>2, <2>3 DEF ScriptTimesOut
<1>12. CASE FinishEvent
  BY <1>12 DEF FinishEvent, Complete
<1>13. CASE StopBegins \/ WorkerLeaves \/ StopReturns \/ CloseDatabase
  BY <1>13 DEF StopBegins, WorkerLeaves, StopReturns, CloseDatabase, Close, Expire, Seal
<1>14. ASSUME NEW c \in Client, NEW enable \in BOOLEAN, NEW l \in Limit,
              InsertRule(c, enable, l)
       PROVE  IInv'
  BY <1>14 DEF InsertRule, Command
<1>15. ASSUME NEW c \in Client, AnswerRowid(c) PROVE IInv'
  <2>1. TypeOK'
    <3>1. /\ answers' \subseteq RuleId \X (RuleId \cup {OtherRow})
          /\ http' \in [Client -> RuleId \cup {Idle}]
      BY <1>15 DEF AnswerRowid
    <3>2. UNCHANGED <<pending, current, open, grace, sealed, tables, workerVars,
                      commands, history>>
      BY <1>15 DEF AnswerRowid
    <3> QED BY <3>1, <3>2
  <2>2. WorkerOK'
    BY <1>15 DEF AnswerRowid
  <2>3. BindingsRefer'
    BY <1>15 DEF AnswerRowid
  <2>4. RunIsAllowed'
    BY <1>15 DEF AnswerRowid
  <2>5. TimedOutRuleIsOff'
    BY <1>15 DEF AnswerRowid
  <2> QED BY <2>1, <2>2, <2>3, <2>4, <2>5
<1>16. ASSUME NEW r \in RuleId, NEW enable \in BOOLEAN, NEW l \in Limit,
              NEW n \in 0..l, UpdateRule(r, enable, n, l)
       PROVE  IInv'
  <2>1. TypeOK'
    <3>1. /\ DOMAIN rule' = DOMAIN rule
          /\ \A x \in DOMAIN rule : rule'[x] \in Row
      <4>1. [enable |-> enable, count |-> n, limit |-> l] \in Row
        OBVIOUS
      <4> QED BY <1>16, <4>1 DEF UpdateRule
    <3>2. touched' \in BOOLEAN
      BY <1>16, Zenon DEF UpdateRule, Touch
    <3>3. cut_off' \subseteq RuleId /\ commands' \in 0..MaxCommands
      BY <1>16 DEF UpdateRule, Touch, Command
    <3> QED BY <1>16, <3>1, <3>2, <3>3 DEF UpdateRule
  <2>2. WorkerOK'
    BY <1>16 DEF UpdateRule, Command, Touch
  <2>3. BindingsRefer'
    BY <1>16 DEF UpdateRule, Command, Touch
  <2>4. RunIsAllowed'
    BY <1>16 DEF UpdateRule, Command, Touch
  <2>5. TimedOutRuleIsOff'
    BY <1>16 DEF UpdateRule, Command, Touch
  <2> QED BY <2>1, <2>2, <2>3, <2>4, <2>5
<1>17. ASSUME NEW r \in RuleId, NEW enable \in BOOLEAN, SetRuleEnable(r, enable)
       PROVE  IInv'
  <2>0. /\ DOMAIN rule' = DOMAIN rule
        /\ \A x \in DOMAIN rule : /\ rule'[x] \in Row
                                  /\ x # r => rule'[x] = rule[x]
    BY <1>17, SwitchedRow DEF SetRuleEnable
  <2>1. TypeOK'
    <3>1. touched' \in BOOLEAN
      BY <1>17, Zenon DEF SetRuleEnable, Touch
    <3>2. cut_off' \subseteq RuleId /\ commands' \in 0..MaxCommands
      BY <1>17 DEF SetRuleEnable, Touch, Command
    <3> QED BY <1>17, <2>0, <3>1, <3>2 DEF SetRuleEnable
  <2>2. WorkerOK'
    BY <1>17, <2>0 DEF SetRuleEnable, Command, Touch
  <2>3. BindingsRefer'
    BY <1>17, <2>0 DEF SetRuleEnable, Command, Touch
  <2>4. RunIsAllowed'
    BY <1>17, <2>0 DEF SetRuleEnable, Command, Touch
  <2>5. TimedOutRuleIsOff'
    BY <1>17, <2>0 DEF SetRuleEnable, Command, Touch
  <2> QED BY <2>1, <2>2, <2>3, <2>4, <2>5
<1>18. ASSUME NEW r \in RuleId, DeleteRule(r) PROVE IInv'
  <2>1. TypeOK'
    BY <1>18 DEF DeleteRule, Command, Touch
  <2>2. WorkerOK'
    BY <1>18 DEF DeleteRule, Command, Touch
  <2>3. BindingsRefer'
    BY <1>18 DEF DeleteRule, Command, Touch
  <2>4. RunIsAllowed'
    BY <1>18 DEF DeleteRule, Command, Touch
  <2>5. TimedOutRuleIsOff'
    BY <1>18 DEF DeleteRule, Command, Touch
  <2> QED BY <2>1, <2>2, <2>3, <2>4, <2>5
<1>19. ASSUME NEW e \in Task, NEW r \in RuleId, BindRule(e, r) PROVE IInv'
  <2>1. TypeOK'
    <3>1. event_rule' \subseteq Task \X RuleId /\ last_rowid' \in RuleId \cup {OtherRow}
      BY <1>19 DEF BindRule
    <3>2. /\ UNCHANGED <<pending, current, open, grace, sealed, db_open, faulty, event,
                         rule, inserted, event_record, worker, todo, script, attempt,
                         http, answers, arrived, touched, cut_off>>
      BY <1>19 DEF BindRule
    <3>3. commands' \in 0..MaxCommands
      BY <1>19 DEF BindRule, Command
    <3> QED BY <3>1, <3>2, <3>3
  <2>2. WorkerOK'
    BY <1>19 DEF BindRule, Command
  <2>3. BindingsRefer'
    BY <1>19 DEF BindRule, Command
  <2>4. RunIsAllowed'
    BY <1>19 DEF BindRule, Command
  <2>5. TimedOutRuleIsOff'
    BY <1>19 DEF BindRule, Command
  <2> QED BY <2>1, <2>2, <2>3, <2>4, <2>5
<1>20. ASSUME NEW E \in SUBSET Task, NEW R \in SUBSET RuleId, Unbind(E, R)
       PROVE  IInv'
  BY <1>20 DEF Unbind, Command
<1>21. CASE UNCHANGED vars
  BY <1>21 DEF vars
<1> QED
  BY <1>1, <1>2, <1>3, <1>4, <1>5, <1>6, <1>7, <1>8, <1>9, <1>10, <1>11, <1>12,
     <1>13, <1>14, <1>15, <1>16, <1>17, <1>18, <1>19, <1>20, <1>21
     DEF Next, WorkerStep, CommandStep

LEMMA AlwaysIInv == Spec => []IInv
BY InitIInv, StepIInv, PTL DEF Spec

\* Type correctness: in particular a script is never attempted a third time
\* (LuaSandbox::Execute) and the tables never hold an id that was not given out.
THEOREM TypeCorrect == Spec => []TypeOK
<1>1. IInv => TypeOK
  BY DEF IInv
<1> QED BY <1>1, AlwaysIInv, PTL

\* The foreign keys of event_rule, under any order of requests and worker steps.
THEOREM BindingsExist == Spec => []BindingsRefer
<1>1. IInv => BindingsRefer
  BY DEF IInv
<1> QED BY <1>1, AlwaysIInv, PTL

\* ProcessEvent reads every row just before it runs the rule, so no script runs
\* on a row that only an earlier script of the same event made stale.
THEOREM RunAllowed == Spec => []RunIsAllowed
<1>1. IInv => RunIsAllowed
  BY DEF IInv
<1> QED BY <1>1, AlwaysIInv, PTL

\* The second timeout of LuaSandbox::Execute keeps a rule off, whatever runs next
\* and whatever commands are given for other rules.
THEOREM TimedOutOff == Spec => []TimedOutRuleIsOff
<1>1. IInv => TimedOutRuleIsOff
  BY DEF IInv
<1> QED BY <1>1, AlwaysIInv, PTL

------------------------------------------------------------------------------
(* The history table is the input.                                         *)

\* The event in hand and the ones pending are the last ones that arrived, and no
\* more records are written than events are handled.
QueueIsInput ==
    /\ Len(pending) + Len(InHand) <= Len(arrived)
    /\ \A i \in 1..Len(pending) : pending[i] = arrived[Len(arrived) - Len(pending) + i]
    /\ InHand # <<>> => InHand[1] = arrived[Len(arrived) - Len(pending)]
    /\ Len(event_record) <= Handled

RecordsInv == QueueIsInput /\ RecordsKeepOrder

LEMMA HandIsSequence ==
  ASSUME IInv
  PROVE  /\ InHand \in Seq(Task) /\ Len(InHand) \in 0..1
         /\ InHand # <<>> => Len(InHand) = 1
         /\ arrived \in Seq(Task) /\ pending \in Seq(Task) /\ event_record \in Seq(Task)
<1>1. CASE current = <<>>
  BY <1>1, EmptySeq DEF InHand, IInv, TypeOK, ChannelTypeOK
<1>2. CASE \E t \in Task : current = <<t>>
  BY <1>2, EmptySeq DEF InHand, IInv, TypeOK, ChannelTypeOK
<1> QED BY <1>1, <1>2 DEF IInv, TypeOK, ChannelTypeOK

LEMMA StepRecords == IInv /\ RecordsInv /\ [Next]_vars => RecordsInv'
<1> SUFFICES ASSUME IInv, RecordsInv, [Next]_vars PROVE RecordsInv'
  OBVIOUS
<1>0. /\ InHand \in Seq(Task) /\ Len(InHand) \in 0..1
      /\ InHand # <<>> => Len(InHand) = 1
      /\ arrived \in Seq(Task) /\ pending \in Seq(Task) /\ event_record \in Seq(Task)
  BY HandIsSequence
<1>a. /\ (current = <<>>) <=> (worker = "idle")
      /\ faulty \in BOOLEAN /\ db_open \in BOOLEAN
  BY DEF IInv, WorkerOK, TypeOK
\* Most actions leave the queue and the records alone, and worker on its side of the
\* first three places; at most they close the database.
<1>b. ASSUME UNCHANGED <<arrived, event_record, current, pending, faulty>>,
             db_open' => db_open,
             \/ UNCHANGED worker
             \/ worker \in {"lookup", "known", "unknown"}
                /\ worker' \in {"lookup", "known", "unknown"}
             \/ worker \notin {"lookup", "known", "unknown"}
                /\ worker' \notin {"lookup", "known", "unknown"}
      PROVE  RecordsInv'
  <2>1. InHand' = InHand /\ Handled' = Handled
    BY <1>b DEF InHand, Handled
  <2>2. QueueIsInput'
    BY <1>b, <2>1 DEF RecordsInv, QueueIsInput
  <2>3. RecordsKeepOrder'
    BY <1>b, <2>1 DEF RecordsInv, RecordsKeepOrder
  <2> QED BY <2>2, <2>3 DEF RecordsInv
<1>1. ASSUME NEW e \in Task, OnDeviceEvent(e) PROVE RecordsInv'
  <2>1. /\ arrived' = Append(arrived, e) /\ pending' = Append(pending, e)
        /\ InHand' = InHand
        /\ UNCHANGED <<event_record, faulty, db_open>>
    BY <1>1 DEF OnDeviceEvent, Accept, tables, database, workerVars, InHand
  <2>2. /\ Len(arrived') = Len(arrived) + 1 /\ Len(pending') = Len(pending) + 1
        /\ arrived'[Len(arrived) + 1] = e /\ pending'[Len(pending) + 1] = e
        /\ \A i \in 1..Len(arrived) : arrived'[i] = arrived[i]
        /\ \A i \in 1..Len(pending) : pending'[i] = pending[i]
    BY <1>0, <2>1
  <2>3. Handled' = Handled /\ Handled \in 0..Len(arrived)
    BY <1>0, <2>1, <2>2 DEF Handled, RecordsInv, QueueIsInput
  <2>4. QueueIsInput'
    <3>1. Len(pending') + Len(InHand') <= Len(arrived')
      BY <1>0, <2>1, <2>2 DEF RecordsInv, QueueIsInput
    <3>2. ASSUME NEW i \in 1..Len(pending')
          PROVE  pending'[i] = arrived'[Len(arrived') - Len(pending') + i]
      <4>1. Len(arrived') - Len(pending') + i = Len(arrived) - Len(pending) + i
        BY <1>0, <2>2
      <4>2. CASE i = Len(pending) + 1
        BY <1>0, <2>2, <4>1, <4>2
      <4>3. CASE i \in 1..Len(pending)
        <5>1. Len(arrived) - Len(pending) + i \in 1..Len(arrived)
          BY <1>0, <4>3 DEF RecordsInv, QueueIsInput
        <5> QED BY <2>2, <4>1, <4>3, <5>1 DEF RecordsInv, QueueIsInput
      <4> QED BY <1>0, <2>2, <4>2, <4>3
    <3>3. InHand' # <<>> => InHand'[1] = arrived'[Len(arrived') - Len(pending')]
      <4> SUFFICES ASSUME InHand # <<>>
                   PROVE  InHand[1] = arrived'[Len(arrived') - Len(pending')]
        BY <2>1
      <4>1. Len(arrived) - Len(pending) \in 1..Len(arrived)
        BY <1>0 DEF RecordsInv, QueueIsInput
      <4>2. Len(arrived') - Len(pending') = Len(arrived) - Len(pending)
        BY <1>0, <2>2
      <4> QED BY <2>2, <4>1, <4>2 DEF RecordsInv, QueueIsInput
    <3> QED BY <2>1, <2>3, <3>1, <3>2, <3>3 DEF RecordsInv, QueueIsInput
  <2>5. RecordsKeepOrder'
    <3>1. PICK place \in [1..Len(event_record) -> 1..Handled] :
            /\ \A i, k \in 1..Len(event_record) : i < k => place[i] < place[k]
            /\ \A i \in 1..Len(event_record) : event_record[i] = arrived[place[i]]
      BY DEF RecordsInv, RecordsKeepOrder
    <3>2. \A i \in 1..Len(event_record) :
            event_record[i] = arrived'[place[i]] /\ arrived'[i] = arrived[i]
      <4> TAKE i \in 1..Len(event_record)
      <4>0. place[i] \in 1..Handled
        BY <3>1
      <4>1. place[i] \in 1..Len(arrived)
        BY <1>0, <2>3, <4>0
      <4>2. i \in 1..Len(arrived)
        BY <1>0, <2>3 DEF RecordsInv, QueueIsInput
      <4> QED BY <2>2, <3>1, <4>1, <4>2
    <3> QED BY <2>1, <2>3, <3>1, <3>2 DEF RecordsInv, RecordsKeepOrder
  <2> QED BY <2>4, <2>5 DEF RecordsInv
<1>2. CASE TakeEvent
  <2>1. /\ InHand = <<>> /\ pending # <<>>
        /\ InHand' = <<Head(pending)>>
        /\ pending' = Tail(pending)
        /\ UNCHANGED <<arrived, event_record, faulty, db_open>>
    BY <1>2 DEF TakeEvent, Take, tables, database, history, InHand
  <2>2. /\ Len(pending') = Len(pending) - 1 /\ Len(InHand') = 1 /\ Len(InHand) = 0
        /\ InHand'[1] = pending[1] /\ Len(pending) >= 1
        /\ \A i \in 1..Len(pending') : pending'[i] = pending[i + 1]
    BY <1>0, <2>1
  <2>3. Handled' = Handled
    BY <1>0, <2>1, <2>2 DEF Handled
  <2>4. QueueIsInput'
    <3>1. ASSUME NEW i \in 1..Len(pending')
          PROVE  pending'[i] = arrived'[Len(arrived') - Len(pending') + i]
      <4>1. i + 1 \in 1..Len(pending)
        BY <1>0, <2>2
      <4>2. Len(arrived') - Len(pending') + i = Len(arrived) - Len(pending) + (i + 1)
        BY <1>0, <2>1, <2>2
      <4> QED BY <2>1, <2>2, <4>1, <4>2 DEF RecordsInv, QueueIsInput
    <3>2. InHand'[1] = arrived'[Len(arrived') - Len(pending')]
      <4>1. Len(arrived') - Len(pending') = Len(arrived) - Len(pending) + 1
        BY <1>0, <2>1, <2>2
      <4>2. 1 \in 1..Len(pending)
        BY <1>0, <2>2
      <4> QED BY <2>1, <2>2, <4>1, <4>2 DEF RecordsInv, QueueIsInput
    <3>3. Len(pending') + Len(InHand') <= Len(arrived')
      BY <1>0, <2>1, <2>2 DEF RecordsInv, QueueIsInput
    <3> QED BY <2>1, <2>3, <3>1, <3>2, <3>3 DEF RecordsInv, QueueIsInput
  <2> QED BY <2>1, <2>3, <2>4 DEF RecordsInv, RecordsKeepOrder
<1>3. CASE RecordEvent
  <2>1. /\ InHand = current /\ current # <<>>
        /\ InHand' = <<>>
        /\ UNCHANGED <<arrived, pending, faulty, db_open>>
        /\ \/ db_open /\ event_record' = event_record \o current
           \/ (faulty \/ ~db_open) /\ event_record' = event_record
    BY <1>a, <1>3 DEF RecordEvent, Fails, InHand, channelVars, database, history
  <2>2. Handled' = Handled + 1 /\ Handled \in Nat /\ Handled + 1 = Len(arrived) - Len(pending)
    <3>1. Len(InHand) = 1 /\ Len(InHand') = 0
      BY <1>0, <2>1
    <3> QED BY <1>0, <2>1, <3>1 DEF Handled, RecordsInv, QueueIsInput
  <2>3. CASE event_record' = event_record /\ (faulty \/ ~db_open)
    <3>1. QueueIsInput'
      BY <1>0, <2>1, <2>2, <2>3 DEF RecordsInv, QueueIsInput
    <3>2. PICK place \in [1..Len(event_record) -> 1..Handled] :
            /\ \A i, k \in 1..Len(event_record) : i < k => place[i] < place[k]
            /\ \A i \in 1..Len(event_record) : event_record[i] = arrived[place[i]]
      BY DEF RecordsInv, RecordsKeepOrder
    <3>3. place \in [1..Len(event_record) -> 1..(Handled + 1)]
      BY <2>2, <3>2
    <3>4. RecordsKeepOrder'
      BY <2>1, <2>2, <2>3, <3>2, <3>3 DEF RecordsInv, RecordsKeepOrder
    <3> QED BY <3>1, <3>4 DEF RecordsInv
  <2>4. CASE event_record' = event_record \o current /\ db_open
    <3> DEFINE n == Len(event_record)
    <3>0. n \in Nat /\ n <= Handled
      BY <1>0 DEF RecordsInv, QueueIsInput
    <3>1. /\ Len(event_record') = n + 1
          /\ event_record'[n + 1] = arrived[Handled + 1]
          /\ \A i \in 1..n : event_record'[i] = event_record[i]
      <4>1. current \in Seq(Task) /\ Len(current) = 1
        BY <1>0, <2>1
      <4>2. current[1] = arrived[Handled + 1]
        BY <2>1, <2>2 DEF RecordsInv, QueueIsInput
      <4>3. /\ Len(event_record \o current) = n + Len(current)
            /\ \A i \in 1..(n + Len(current)) :
                  (event_record \o current)[i] =
                      IF i <= n THEN event_record[i] ELSE current[i - n]
        BY <1>0, <4>1, ConcatProperties
      <4> QED BY <2>4, <3>0, <4>1, <4>2, <4>3
    <3>2. QueueIsInput'
      BY <1>0, <2>1, <2>2, <3>0, <3>1 DEF RecordsInv, QueueIsInput
    <3>3. PICK place \in [1..n -> 1..Handled] :
            /\ \A i, k \in 1..n : i < k => place[i] < place[k]
            /\ \A i \in 1..n : event_record[i] = arrived[place[i]]
      BY DEF RecordsInv, RecordsKeepOrder
    <3> DEFINE next == [i \in 1..(n + 1) |-> IF i <= n THEN place[i] ELSE Handled + 1]
    <3>4. next \in [1..(n + 1) -> 1..(Handled + 1)]
      BY <2>2, <3>0, <3>3
    <3>5. \A i, k \in 1..(n + 1) : i < k => next[i] < next[k]
      BY <2>2, <3>0, <3>3
    <3>6. \A i \in 1..(n + 1) : event_record'[i] = arrived[next[i]]
      BY <3>0, <3>1, <3>3
    <3>7. ~faulty => /\ \A i \in 1..(n + 1) : event_record'[i] = arrived[i]
                     /\ n + 1 = Handled'
      BY <2>2, <2>4, <3>0, <3>1 DEF RecordsInv, RecordsKeepOrder
    <3> HIDE DEF next
    <3>8. RecordsKeepOrder'
      BY <2>1, <2>2, <3>1, <3>4, <3>5, <3>6, <3>7 DEF RecordsKeepOrder
    <3> QED BY <3>2, <3>8 DEF RecordsInv
  <2> QED BY <2>1, <2>3, <2>4
<1>4. CASE LookUpEvent \/ FindRules
  BY <1>4, <1>b DEF LookUpEvent, FindRules, channelVars, database, tables, history
<1>5. CASE FinishEvent
  <2>1. /\ UNCHANGED <<arrived, event_record, pending, faulty, db_open>>
        /\ InHand' = InHand
    BY <1>5 DEF FinishEvent, Complete, InHand, database, tables, history
  <2>2. Handled' = Handled
    BY <2>1 DEF Handled
  <2> QED BY <2>1, <2>2 DEF RecordsInv, QueueIsInput, RecordsKeepOrder
<1>6. ASSUME NEW r \in RuleId, VisitRule(r) PROVE RecordsInv'
  BY <1>6, <1>b DEF VisitRule, channelVars, database, tables
<1>7. CASE ScriptSucceeds \/ ScriptFails \/ ScriptTimesOut
  BY <1>7, <1>b DEF ScriptSucceeds, ScriptFails, ScriptTimesOut, channelVars,
     database, tables, history
<1>8. CASE OnDeviceData \/ StopBegins \/ WorkerLeaves \/ StopReturns \/ CloseDatabase
  BY <1>8, <1>b DEF OnDeviceData, StopBegins, WorkerLeaves, StopReturns, CloseDatabase,
     Close, Expire, Seal, channelVars, database, tables, workerVars, history
<1>9. ASSUME NEW e \in Task, RegisterEvent(e) PROVE RecordsInv'
  BY <1>9, <1>b DEF RegisterEvent, channelVars, database, workerVars, history
<1>10. CASE CommandStep
  <2>1. UNCHANGED <<arrived, event_record, current, pending, faulty, db_open, worker>>
    BY <1>10 DEF CommandStep, InsertRule, UpdateRule, SetRuleEnable, DeleteRule,
       BindRule, Unbind, channelVars, database, workerVars, history
  <2> QED BY <2>1, <1>b
<1>11. ASSUME NEW c \in Client, AnswerRowid(c) PROVE RecordsInv'
  BY <1>11, <1>b DEF AnswerRowid, channelVars, database, tables, workerVars, history
<1>12. CASE UNCHANGED vars
  BY <1>12, <1>b DEF vars, channelVars, database, tables, workerVars, history
<1> QED
  BY <1>1, <1>2, <1>3, <1>4, <1>5, <1>6, <1>7, <1>8, <1>9, <1>10, <1>11, <1>12
     DEF Next, WorkerStep

\* What ProcessEvent writes into the history table is a part of what arrived, in the
\* order of arrival and nothing twice, however the statements fail; and on a disk
\* that works it is all of what was handled before the database was closed.
THEOREM RecordsInOrder == Spec => []RecordsKeepOrder
<1>1. Init => RecordsInv
  <2> SUFFICES ASSUME Init PROVE RecordsInv
    OBVIOUS
  <2>1. /\ Len(arrived) = 0 /\ Len(pending) = 0 /\ InHand = <<>> /\ Len(InHand) = 0
        /\ Len(event_record) = 0
    BY EmptySeq DEF Init, ChannelInit, InHand
  <2>0. /\ arrived \in Seq(Task) /\ pending \in Seq(Task) /\ InHand \in Seq(Task)
        /\ event_record \in Seq(Task)
    BY InitIInv, HandIsSequence
  <2>b. Len(arrived) = 0 /\ Len(pending) = 0 /\ Len(InHand) = 0
    BY <2>1
  <2>2. Handled = 0
    BY <2>b DEF Handled
  <2>3. QueueIsInput
    BY <2>0, <2>1, <2>2 DEF QueueIsInput
  <2>a. 1..Len(event_record) = {}
    BY <2>0, <2>1
  <2>4. [i \in {} |-> 1] \in [{} -> 1..Handled]
    OBVIOUS
  <2>5. RecordsKeepOrder
    BY <2>0, <2>1, <2>2, <2>4, <2>a DEF RecordsKeepOrder
  <2> QED BY <2>3, <2>5 DEF RecordsInv
<1>2. RecordsInv => RecordsKeepOrder
  BY DEF RecordsInv
<1> QED BY <1>1, <1>2, AlwaysIInv, StepRecords, PTL DEF Spec

------------------------------------------------------------------------------
(* The worker undoes no command.                                           *)

LEMMA StepUndoesNoCommand == IInv /\ [Next]_vars => [UndoesNoCommand]_vars
<1> SUFFICES ASSUME IInv, Next, commands' = commands PROVE UndoesNoCommand
  BY DEF UndoesNoCommand
<1>0. \A r \in DOMAIN rule : rule[r] \in Row
  BY DEF IInv, TypeOK
<1>a. commands \in Nat
  BY RuleEngineAssumption DEF IInv, TypeOK
<1>b. ASSUME rule' = rule PROVE UndoesNoCommand
  BY <1>0, <1>b DEF UndoesNoCommand, Row
<1>1. CASE ScriptSucceeds /\ rule' # rule
  <2>1. rule' = [r \in DOMAIN rule |->
                   IF r = script THEN [rule[r] EXCEPT !.count = @ + 1] ELSE rule[r]]
    BY <1>1 DEF ScriptSucceeds
  <2>2. ASSUME NEW r \in DOMAIN rule
        PROVE  /\ rule'[r].limit = rule[r].limit
               /\ rule'[r].enable => rule[r].enable
               /\ rule'[r].count - rule[r].count \in 0..1
    <3>1. rule[r].count \in Nat
      BY <1>0 DEF Row
    <3>2. CASE r = script
      <4>1. rule'[r] = [rule[r] EXCEPT !.count = @ + 1]
        BY <2>1, <3>2
      <4>2. rule[r] \in Row
        BY <1>0
      <4>3. /\ [rule[r] EXCEPT !.count = @ + 1].limit = rule[r].limit
            /\ [rule[r] EXCEPT !.count = @ + 1].enable => rule[r].enable
            /\ [rule[r] EXCEPT !.count = @ + 1].count - rule[r].count \in 0..1
        BY <4>2, <3>1, CountedRow
      <4> QED BY <4>1, <4>3
    <3>3. CASE r # script
      BY <2>1, <3>1, <3>3
    <3> QED BY <3>2, <3>3
  <2> QED BY <2>1, <2>2 DEF UndoesNoCommand
<1>2. CASE ScriptTimesOut /\ rule' # rule
  <2>1. rule' = [r \in DOMAIN rule |->
                   IF r = script THEN [rule[r] EXCEPT !.enable = FALSE] ELSE rule[r]]
    BY <1>2 DEF ScriptTimesOut
  <2>2. ASSUME NEW r \in DOMAIN rule
        PROVE  /\ rule'[r].limit = rule[r].limit
               /\ rule'[r].enable => rule[r].enable
               /\ rule'[r].count - rule[r].count \in 0..1
    <3>1. rule[r].count \in Nat
      BY <1>0 DEF Row
    <3>2. CASE r = script
      <4>1. rule'[r] = [rule[r] EXCEPT !.enable = FALSE]
        BY <2>1, <3>2
      <4>2. rule[r] \in Row
        BY <1>0
      <4>3. /\ [rule[r] EXCEPT !.enable = FALSE].limit = rule[r].limit
            /\ [rule[r] EXCEPT !.enable = FALSE].enable => rule[r].enable
            /\ [rule[r] EXCEPT !.enable = FALSE].count - rule[r].count \in 0..1
        BY <4>2, <3>1, SwitchedRow
      <4> QED BY <4>1, <4>3
    <3>3. CASE r # script
      BY <2>1, <3>1, <3>3
    <3> QED BY <3>2, <3>3
  <2> QED BY <2>1, <2>2 DEF UndoesNoCommand
<1>3. CASE CommandStep
  <2>1. Command
    BY <1>3 DEF CommandStep, InsertRule, UpdateRule, SetRuleEnable, DeleteRule,
       BindRule, Unbind
  <2> QED BY <2>1, <1>a DEF Command
<1>4. CASE WorkerStep /\ (ScriptSucceeds \/ ScriptTimesOut => rule' = rule)
  <2>1. rule' = rule
    BY <1>4 DEF WorkerStep, TakeEvent, LookUpEvent, RecordEvent, FindRules, VisitRule,
       ScriptFails, FinishEvent, tables
  <2> QED BY <2>1, <1>b
<1>5. CASE OnDeviceData \/ StopBegins \/ WorkerLeaves \/ StopReturns \/ CloseDatabase
  BY <1>5, <1>b DEF OnDeviceData, StopBegins, WorkerLeaves, StopReturns, CloseDatabase,
     tables
<1>6. ASSUME NEW e \in Task, OnDeviceEvent(e) \/ RegisterEvent(e) PROVE UndoesNoCommand
  BY <1>6, <1>b DEF OnDeviceEvent, RegisterEvent, tables
<1>7. ASSUME NEW c \in Client, AnswerRowid(c) PROVE UndoesNoCommand
  BY <1>7, <1>b DEF AnswerRowid, tables
<1> QED BY <1>1, <1>2, <1>3, <1>4, <1>5, <1>6, <1>7 DEF Next

\* IncrementCount and SetEnable change one column each, and only of a row that is
\* still there: between two write commands the worker brings back no deleted rule,
\* enables none, changes no limit, and counts at most one run at a time.
THEOREM CommandsKept == Spec => WorkerKeepsCommands
BY AlwaysIInv, StepUndoesNoCommand, PTL DEF Spec, WorkerKeepsCommands
------------------------------------------------------------------------------
(* The limit of a rule.                                                    *)

\* A script is begun below the limit, and the commands that race with it give a
\* count within the limit: at most one run is counted beyond it.
ScriptWithinLimit ==
    script \in DOMAIN rule /\ rule[script].limit > 0
        => rule[script].count <= rule[script].limit

LEMMA StepLimit ==
  IInv /\ ScriptWithinLimit /\ LimitHolds /\ [Next]_vars
      => ScriptWithinLimit' /\ LimitHolds'
<1> SUFFICES ASSUME IInv, ScriptWithinLimit, LimitHolds, [Next]_vars
             PROVE  ScriptWithinLimit' /\ LimitHolds'
  OBVIOUS
<1>0. /\ \A r \in DOMAIN rule :
            rule[r] \in Row /\ rule[r].count \in Nat /\ rule[r].limit \in Nat
      /\ DOMAIN rule \subseteq 1..inserted
      /\ script \in {NoRule} \cup 1..inserted
      /\ inserted \in Nat
      /\ NoRule \notin DOMAIN rule
  BY RuleEngineAssumption DEF IInv, TypeOK, WorkerOK, Row, NoRule
<1>a. ASSUME rule' = rule, script' = script \/ script' = NoRule
      PROVE  ScriptWithinLimit' /\ LimitHolds'
  BY <1>0, <1>a DEF ScriptWithinLimit, LimitHolds
<1>1. CASE ScriptSucceeds /\ rule' # rule
  <2>1. /\ DOMAIN rule' = DOMAIN rule
        /\ script' = NoRule
        /\ \A r \in DOMAIN rule :
              rule'[r] = IF r = script THEN [rule[r] EXCEPT !.count = @ + 1] ELSE rule[r]
    BY <1>1 DEF ScriptSucceeds
  <2>2. ASSUME NEW r \in DOMAIN rule, rule'[r].limit > 0
        PROVE  rule'[r].count <= rule'[r].limit + 1
    <3>1. CASE r = script
      <4>1. rule'[r] = [rule[r] EXCEPT !.count = @ + 1] /\ rule[r] \in Row
        BY <1>0, <2>1, <3>1
      <4>2. rule'[r].count = rule[r].count + 1 /\ rule'[r].limit = rule[r].limit
        BY <4>1, CountedRow
      <4> QED BY <1>0, <2>2, <3>1, <4>2 DEF ScriptWithinLimit
    <3>2. CASE r # script
      BY <2>1, <2>2, <3>2 DEF LimitHolds
    <3> QED BY <3>1, <3>2
  <2> QED BY <1>0, <2>1, <2>2 DEF ScriptWithinLimit, LimitHolds
\* SetEnable, by the worker or by a command, changes neither count nor limit.
<1>b. ASSUME DOMAIN rule' = DOMAIN rule,
             \A r \in DOMAIN rule : /\ rule'[r].count = rule[r].count
                                    /\ rule'[r].limit = rule[r].limit,
             script' = script \/ script' = NoRule
      PROVE  ScriptWithinLimit' /\ LimitHolds'
  BY <1>0, <1>b DEF ScriptWithinLimit, LimitHolds
<1>2. CASE ScriptTimesOut
  <2>1. CASE rule' = rule
    BY <1>2, <1>a, <2>1 DEF ScriptTimesOut
  <2>2. CASE rule' # rule
    <3>1. /\ rule' = [r \in DOMAIN rule |->
                        IF r = script THEN [rule[r] EXCEPT !.enable = FALSE]
                                      ELSE rule[r]]
          /\ script' = NoRule
      BY <1>2, <2>2 DEF ScriptTimesOut
    <3>2. ASSUME NEW r \in DOMAIN rule
          PROVE  rule'[r].count = rule[r].count /\ rule'[r].limit = rule[r].limit
      <4>1. rule[r] \in Row
        BY <1>0
      <4>2. /\ [rule[r] EXCEPT !.enable = FALSE].count = rule[r].count
            /\ [rule[r] EXCEPT !.enable = FALSE].limit = rule[r].limit
        BY <4>1, SwitchedRow
      <4> QED BY <3>1, <4>2
    <3> QED BY <3>1, <3>2, <1>b
  <2> QED BY <2>1, <2>2
<1>3. ASSUME NEW r \in RuleId, VisitRule(r) PROVE ScriptWithinLimit' /\ LimitHolds'
  BY <1>0, <1>3 DEF VisitRule, MayRun, ScriptWithinLimit, LimitHolds, tables
<1>4. ASSUME NEW c \in Client, NEW enable \in BOOLEAN, NEW l \in Limit,
             InsertRule(c, enable, l)
      PROVE  ScriptWithinLimit' /\ LimitHolds'
  <2>1. /\ DOMAIN rule' = DOMAIN rule \cup {inserted + 1}
        /\ script' = script /\ script # inserted + 1
        /\ \A r \in DOMAIN rule : rule'[r] = rule[r]
        /\ rule'[inserted + 1].count = 0 /\ rule'[inserted + 1].limit = l
    BY <1>0, <1>4 DEF InsertRule, workerVars, NoRule
  <2>2. l \in Nat
    BY RuleEngineAssumption
  <2> QED BY <1>0, <2>1, <2>2 DEF ScriptWithinLimit, LimitHolds
<1>5. ASSUME NEW r \in RuleId, NEW enable \in BOOLEAN, NEW l \in Limit, NEW n \in 0..l,
             UpdateRule(r, enable, n, l)
      PROVE  ScriptWithinLimit' /\ LimitHolds'
  <2>1. /\ DOMAIN rule' = DOMAIN rule
        /\ script' = script
        /\ \A x \in DOMAIN rule : x # r => rule'[x] = rule[x]
        /\ r \in DOMAIN rule => rule'[r].count = n /\ rule'[r].limit = l
    BY <1>5 DEF UpdateRule, workerVars
  <2>2. l \in Nat /\ n \in Nat /\ n <= l
    BY RuleEngineAssumption
  <2> QED BY <1>0, <2>1, <2>2 DEF ScriptWithinLimit, LimitHolds
<1>6. ASSUME NEW r \in RuleId, NEW enable \in BOOLEAN, SetRuleEnable(r, enable)
      PROVE  ScriptWithinLimit' /\ LimitHolds'
  <2>1. /\ rule' = [x \in DOMAIN rule |->
                      IF x = r THEN [rule[x] EXCEPT !.enable = enable] ELSE rule[x]]
        /\ script' = script
    BY <1>6 DEF SetRuleEnable, workerVars
  <2>2. ASSUME NEW x \in DOMAIN rule
        PROVE  rule'[x].count = rule[x].count /\ rule'[x].limit = rule[x].limit
    <3>1. rule[x] \in Row
      BY <1>0
    <3>2. /\ [rule[x] EXCEPT !.enable = enable].count = rule[x].count
          /\ [rule[x] EXCEPT !.enable = enable].limit = rule[x].limit
      BY <3>1, SwitchedRow
    <3> QED BY <2>1, <3>2
  <2> QED BY <2>1, <2>2, <1>b
<1>7. ASSUME NEW r \in RuleId, DeleteRule(r) PROVE ScriptWithinLimit' /\ LimitHolds'
  BY <1>0, <1>7 DEF DeleteRule, ScriptWithinLimit, LimitHolds, workerVars
<1>8. CASE TakeEvent \/ LookUpEvent \/ RecordEvent \/ FindRules \/ ScriptFails
           \/ FinishEvent
  BY <1>8, <1>a DEF TakeEvent, LookUpEvent, RecordEvent, FindRules, ScriptFails,
     FinishEvent, tables
<1>9. CASE \/ OnDeviceData \/ StopBegins \/ WorkerLeaves
           \/ StopReturns \/ CloseDatabase
           \/ ScriptSucceeds /\ rule' = rule
  BY <1>9, <1>a DEF OnDeviceData, StopBegins, WorkerLeaves, StopReturns, CloseDatabase,
     ScriptSucceeds, tables, workerVars
<1>10. ASSUME NEW e \in Task, OnDeviceEvent(e) \/ RegisterEvent(e)
       PROVE  ScriptWithinLimit' /\ LimitHolds'
  BY <1>10, <1>a DEF OnDeviceEvent, RegisterEvent, tables, workerVars
<1>11. ASSUME NEW c \in Client, AnswerRowid(c) PROVE ScriptWithinLimit' /\ LimitHolds'
  BY <1>11, <1>a DEF AnswerRowid, tables, workerVars
<1>12. ASSUME NEW e \in Task, NEW r \in RuleId, BindRule(e, r)
       PROVE  ScriptWithinLimit' /\ LimitHolds'
  BY <1>12, <1>a DEF BindRule, workerVars
<1>13. ASSUME NEW E \in SUBSET Task, NEW R \in SUBSET RuleId, Unbind(E, R)
       PROVE  ScriptWithinLimit' /\ LimitHolds'
  BY <1>13, <1>a DEF Unbind, workerVars
<1>14. CASE UNCHANGED vars
  BY <1>14, <1>a DEF vars, tables, workerVars
<1> QED
  BY <1>1, <1>2, <1>3, <1>4, <1>5, <1>6, <1>7, <1>8, <1>9, <1>10, <1>11, <1>12,
     <1>13, <1>14 DEF Next, WorkerStep, CommandStep

\* "limit" bounds the counted runs of a rule, and one more when a command raced
\* with its script (ProcessEvent step 4, IncrementCount).
THEOREM LimitBound == Spec => []LimitHolds
<1>1. Init => ScriptWithinLimit /\ LimitHolds
  <2>1. ASSUME Init PROVE NoRule \notin DOMAIN rule /\ script = NoRule
    BY <2>1, RuleEngineAssumption DEF Init, NoRule
  <2>2. ASSUME Init, NEW r \in DOMAIN rule
        PROVE  rule[r].count = 0 /\ rule[r].limit \in Nat
    BY <2>2, RuleEngineAssumption DEF Init
  <2> QED BY <2>1, <2>2 DEF ScriptWithinLimit, LimitHolds
<1> QED BY <1>1, AlwaysIInv, StepLimit, PTL DEF Spec
==============================================================================
