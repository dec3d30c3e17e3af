------------------------------ MODULE SqlRequest ------------------------------
(***************************************************************************)
(* The requests of AppSqlProxy (MQTT) and LlmSqlProxy (HTTP): what is      *)
(* checked, what is bound, what is executed and what is answered.          *)
(*                                                                         *)
(* A JSON value is its kind: "int", "float", "bool", "digits" (a text that *)
(* starts like an integer), "text" (another one), "empty", "other".  The   *)
(* parameters of a request map names to kinds; params that are no object   *)
(* contain none.  The statements themselves are left out: that one works   *)
(* is a choice.                                                            *)
(***************************************************************************)
EXTENDS Integers, Sequences

Str  == {"digits", "text", "empty"}
Kind == Str \cup {"int", "float", "bool", "other"}

Given(params, key, kinds) == key \in DOMAIN params /\ params[key] \in kinds

------------------------------------------------------------------------------
(* ValidateParams: which kinds each parameter must have.                   *)

Text    == Str                \* contains and is_string
Full    == Str \ {"empty"}    \* and not empty
Present == Kind               \* contains

ValidateParams(needs, params) == \A key \in DOMAIN needs : Given(params, key, needs[key])

------------------------------------------------------------------------------
(* BindParams: each helper binds, fails or throws.                         *)

BindText(params, key) == IF Given(params, key, Str) THEN "bound" ELSE "failed"
BindUuid(params, key) == BindText(params, key)
BindInt(params, key) ==
    IF Given(params, key, {"int", "float", "digits"}) THEN "bound" ELSE "failed"
BindBool(params, key) ==
    CASE key \notin DOMAIN params -> "failed"
      [] Given(params, key, {"bool"}) -> "bound"
      [] OTHER -> "thrown"

\* params.value(key, default): a value of the wrong kind throws.
BindDefault(params, key, kinds) ==
    IF key \in DOMAIN params => params[key] \in kinds THEN "bound" ELSE "thrown"

Bind(params, step) ==
    LET key == step[2]
    IN  CASE step[1] = "uuid" -> BindUuid(params, key)
          [] step[1] = "text" -> BindText(params, key)
          [] step[1] = "int"  -> BindInt(params, key)
          [] step[1] = "bool" -> BindBool(params, key)
          [] step[1] = "textOrDefault" -> BindDefault(params, key, Str)
          [] step[1] = "boolOrDefault" -> BindDefault(params, key, {"bool"})
          [] step[1] = "intOrDefault"  -> BindDefault(params, key, {"int", "float", "bool"})
          [] step[1] = "any" -> "bound"

\* The first parameter that is not bound decides.
BindParams(binds, params) ==
    LET unbound == {i \in DOMAIN binds : Bind(params, binds[i]) # "bound"}
    IN  IF unbound = {} THEN "bound"
        ELSE Bind(params, binds[CHOOSE i \in unbound : \A j \in unbound : i <= j])

------------------------------------------------------------------------------
(* The commands: needed parameters, parameters of GetSql, bindings.        *)

NoParams == <<>>
One(key, kinds) == [k \in {key} |-> kinds]
\* Two maps without a common key.
Both(f, g) == [x \in DOMAIN f \cup DOMAIN g |-> IF x \in DOMAIN f THEN f[x] ELSE g[x]]

Cmd(needs, binds)         == [needs |-> needs, sql |-> <<>>, binds |-> binds]
Limited(needs, binds)     == [needs |-> needs, binds |-> binds,
                              sql |-> <<<<"intOrDefault", "limit">>>>]
ByUuid(key) == Cmd(One(key, Full), <<<<"uuid", key>>>>)
ByInt(key)  == Cmd(One(key, Present), <<<<"int", key>>>>)
All         == Cmd(NoParams, <<>>)

AppReads ==
    [get_device_list |-> All, get_rules |-> All, get_user_profiles |-> All,
     get_device_detail |-> ByUuid("dev_id"), get_device_data |-> ByUuid("dev_id"),
     get_rule_detail |-> ByInt("rule_id")]

AppProfileWrites ==
    [insert_user_profile |->
        Cmd([user_id |-> Full, user_name |-> Full],
            <<<<"uuid", "user_id">>, <<"text", "user_name">>, <<"any", "preference">>>>),
     update_user_profile |->
        Cmd([user_id |-> Full, user_name |-> Full],
            <<<<"text", "user_name">>, <<"any", "preference">>, <<"uuid", "user_id">>>>),
     delete_user_profile |-> ByUuid("user_id")]

AppCmd == Both(AppReads, AppProfileWrites)

LlmRowReads ==
    [get_device_properties |-> All, get_events |-> All, get_rules |-> All,
     get_device_property |-> ByUuid("dev_id"), get_event |-> ByUuid("evt_id"),
     get_rule |-> ByInt("rule_id")]

LlmRecordReads ==
    [get_event_records |-> Limited(NoParams, <<>>),
     get_event_records_by_device |-> Limited([dev_id |-> Full], <<<<"uuid", "dev_id">>>>),
     get_event_records_by_time |->
        Cmd([start |-> Full, end |-> Full], <<<<"text", "start">>, <<"text", "end">>>>),
     get_user_profiles |-> All]

RuleColumns == <<<<"text", "rule_name">>, <<"text", "rule_type">>,
                 <<"boolOrDefault", "enable">>, <<"intOrDefault", "count">>,
                 <<"intOrDefault", "limit">>, <<"textOrDefault", "cond_expr">>,
                 <<"text", "action">>>>
InsertRule == Cmd([rule_name |-> Full, rule_type |-> Full, action |-> Full], RuleColumns)
UpdateRule == Cmd([rule_id |-> Present, rule_name |-> Text, rule_type |-> Text,
                   action |-> Text], Append(RuleColumns, <<"int", "rule_id">>))
SetRuleEnable == Cmd([rule_id |-> Present, enable |-> Present],
                     <<<<"bool", "enable">>, <<"int", "rule_id">>>>)
DeleteRule == ByInt("rule_id")
EventRule == Cmd([evt_id |-> Full, rule_id |-> Present],
                 <<<<"uuid", "evt_id">>, <<"int", "rule_id">>>>)

EventRuleReads ==
    [get_event_rules |-> All, get_event_rules_by_event |-> ByUuid("evt_id"),
     get_event_rules_by_rule |-> ByInt("rule_id")]

EventRuleWrites ==
    [insert_event_rule |-> EventRule, delete_event_rule |-> EventRule,
     delete_event_rules_by_event |-> ByUuid("evt_id"),
     delete_event_rules_by_rule |-> ByInt("rule_id")]

LlmRuleWrites ==
    [insert_rule |-> InsertRule, update_rule |-> UpdateRule, delete_rule |-> DeleteRule,
     set_rule_enable |-> SetRuleEnable]

LlmReads  == Both(LlmRowReads, Both(LlmRecordReads, EventRuleReads))
LlmWrites == Both(LlmRuleWrites, EventRuleWrites)
LlmCmd    == Both(LlmReads, LlmWrites)

------------------------------------------------------------------------------
(* A request and its outcome: what was answered, whether the statement was *)
(* executed, and whether a prepared statement was left behind.             *)

Outcome(answers, executed, left) ==
    [answers |-> answers, executed |-> executed, left |-> left]
Refused(code) == Outcome(<<code>>, FALSE, FALSE)

\* ExecuteWrite and ExecuteRead: an exception of the binder passes through with
\* the statement prepared.
Execute(command, params, works) ==
    LET bound == BindParams(command.binds, params)
    IN  CASE bound = "failed" -> Refused("SqlError")
          [] bound = "thrown" -> Outcome(<<"thrown">>, FALSE, TRUE)
          [] bound = "bound" -> Outcome(<<IF works THEN "ok" ELSE "SqlError">>, TRUE, FALSE)

\* Slip: parameters that the check refused are executed all the same.
ProcessUnchecked(router, req) ==
    IF req.cmd \notin DOMAIN router THEN Refused("UnknownCmd")
    ELSE Execute(router[req.cmd], req.params, req.works)

ProcessRequest(router, req) ==
    IF req.cmd \in {"absent", "noText"} THEN Refused("MissingField")
    ELSE IF req.cmd \notin DOMAIN router THEN Refused("UnknownCmd")
    ELSE IF ~ValidateParams(router[req.cmd].needs, req.params) THEN Refused("InvalidParams")
    ELSE IF router[req.cmd].sql # <<>> /\ ~req.object THEN Refused("thrown")
    ELSE IF BindParams(router[req.cmd].sql, req.params) # "bound" THEN Refused("thrown")
    ELSE Execute(router[req.cmd], req.params, req.works)

\* Over MQTT an exception leaves the callback and ends the program: there is no
\* answer.  The msg_id is read again, as a text, after the test that it is none;
\* reading it from a payload that is no object throws as well.
OnSqlRequest(req) ==
    LET out == ProcessRequest(AppCmd, req)
    IN  IF req.payload = "broken" THEN Refused("InvalidJson")
        ELSE IF req.payload = "noObject" \/ req.msg_id = "noText" THEN Outcome(<<>>, FALSE, FALSE)
        ELSE IF req.msg_id = "absent" THEN Refused("MissingField")
        ELSE IF out.answers = <<"thrown">> THEN Outcome(<<>>, FALSE, out.left)
        ELSE out

\* Over HTTP the server answers an exception with status 500; the log line reads
\* cmd as a text, of an object, before either is checked.
HandleRequest(req) ==
    LET out == ProcessRequest(LlmCmd, req)
    IN  IF req.payload = "broken" THEN Refused("InvalidJson")
        ELSE IF req.payload = "noObject" \/ req.cmd = "noText" THEN Refused("500")
        ELSE IF out.answers = <<"thrown">> THEN Outcome(<<"500">>, FALSE, out.left)
        ELSE out
==============================================================================
