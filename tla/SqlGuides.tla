------------------------------- MODULE SqlGuides -------------------------------
(***************************************************************************)
(* What the guides for apps (docs/app_dev_guide.md) and for the language   *)
(* model (openclaw_skill.md) promise of a request, and a request that is   *)
(* handled by the proxy it was sent to.                                    *)
(***************************************************************************)
EXTENDS SqlRequest

Id    == {"text"}
Whole == {"int"}

\* What a guide names of a command: the parameters that are needed and those that
\* are optional, with the kinds they may have.
Doc(needed, optional) == [needed |-> needed, optional |-> optional]
Plain == Doc(NoParams, NoParams)
Needs(needed) == Doc(needed, NoParams)

RuleFields == [rule_name |-> Id, rule_type |-> Id, action |-> Id]
RuleExtras == [enable |-> {"bool"}, count |-> Whole, limit |-> Whole,
               cond_expr |-> {"text", "empty"}]

AppGuide ==
    [get_device_list |-> Plain, get_device_detail |-> Needs([dev_id |-> Id]),
     get_device_data |-> Needs([dev_id |-> Id]), get_rules |-> Plain,
     get_rule_detail |-> Needs([rule_id |-> Whole]), get_user_profiles |-> Plain]

SkillReads ==
    [get_device_properties |-> Plain, get_events |-> Plain, get_rules |-> Plain,
     get_event_rules |-> Plain, get_user_profiles |-> Plain,
     get_device_property |-> Needs([dev_id |-> Id]),
     get_event |-> Needs([evt_id |-> Id]), get_rule |-> Needs([rule_id |-> Whole]),
     get_event_rules_by_event |-> Needs([evt_id |-> Id]),
     get_event_rules_by_rule |-> Needs([rule_id |-> Whole]),
     get_event_records |-> Doc(NoParams, [limit |-> Whole]),
     get_event_records_by_device |-> Doc([dev_id |-> Id], [limit |-> Whole])]

SkillWrites ==
    [insert_rule |-> Doc(RuleFields, RuleExtras),
     update_rule |-> Doc([rule_id |-> Whole], Both(RuleFields, RuleExtras)),
     delete_rule |-> Needs([rule_id |-> Whole]),
     set_rule_enable |-> Needs([rule_id |-> Whole, enable |-> {"bool"}]),
     insert_event_rule |-> Needs([evt_id |-> Id, rule_id |-> Whole]),
     delete_event_rule |-> Needs([evt_id |-> Id, rule_id |-> Whole]),
     delete_event_rules_by_event |-> Needs([evt_id |-> Id]),
     delete_event_rules_by_rule |-> Needs([rule_id |-> Whole])]

SkillGuide == Both(SkillReads, SkillWrites)

------------------------------------------------------------------------------
(* A request is handled.                                                   *)

CONSTANT SqlRequests  \* pairs of a proxy and a request to it

\* Whatever was sent: a payload that is no JSON, or JSON but no object; a msg_id of
\* any kind, or none; params of any kind, or none.
IsRequest(req) ==
    /\ req.payload \in {"object", "noObject", "broken"}
    /\ req.msg_id \in {"text", "absent", "noText"}
    /\ req.works \in BOOLEAN /\ req.object \in BOOLEAN
    /\ \A key \in DOMAIN req.params : req.object /\ req.params[key] \in Kind

ASSUME RequestAssumption ==
    \A r \in SqlRequests : r[1] \in {"app", "llm"} /\ IsRequest(r[2])

VARIABLES
    proxy,    \* which of the two
    request,
    outcome   \* its outcome, or NotYet

requestVars == <<proxy, request, outcome>>

NotYet == <<>>

RequestInit ==
    /\ \E r \in SqlRequests : proxy = r[1] /\ request = r[2]
    /\ outcome = NotYet

HandleSqlRequest ==
    /\ outcome = NotYet
    /\ outcome' = <<IF proxy = "app" THEN OnSqlRequest(request) ELSE HandleRequest(request)>>
    /\ UNCHANGED <<proxy, request>>

RequestSpec == RequestInit /\ [][HandleSqlRequest]_requestVars

------------------------------------------------------------------------------
Follows(req, doc) ==
    /\ req.object
    /\ DOMAIN doc.needed \subseteq DOMAIN req.params
    /\ \A key \in DOMAIN doc.needed : req.params[key] \in doc.needed[key]
    /\ \A key \in DOMAIN doc.optional \cap DOMAIN req.params :
         req.params[key] \in doc.optional[key]

\* What OnSqlRequest throws on, and with it the MQTT callback.
ThrowsOverMqtt(req) ==
    req.payload = "noObject" \/ (req.payload = "object" /\ req.msg_id = "noText")

\* The code wants of update_rule what it wants of insert_rule.
GivesRuleFields(req) == req.cmd = "update_rule" => DOMAIN RuleFields \subseteq DOMAIN req.params

Guide == IF proxy = "app" THEN AppGuide ELSE SkillGuide

\* The request reaches a command that the guide names.
Known == /\ request.payload = "object" /\ (proxy = "app" => request.msg_id = "text")
         /\ request.cmd \in DOMAIN Guide

\* A request that follows the guide is executed and answered with what the
\* database says, whatever else it has (update_rule: if it gives every field that
\* insert_rule needs); one that lacks a needed parameter is refused as such and
\* executes nothing; an ok is answered for a statement that worked and for no
\* other; and every request gets one answer, but for what throws in the MQTT
\* callback, which gets none and executes nothing (OnSqlRequest, HandleRequest and
\* the strategies).
RequestsAreServed ==
    outcome # NotYet =>
        LET out == outcome[1]
            doc == Guide[request.cmd]
        IN  /\ IF proxy = "app" /\ ThrowsOverMqtt(request)
               THEN out.answers = <<>> /\ ~out.executed
               ELSE Len(out.answers) = 1
            /\ out.answers = <<"ok">> <=> out.executed /\ request.works
            /\ Known /\ Follows(request, doc) /\ GivesRuleFields(request) =>
                 out.executed /\ ~out.left /\ out.answers \in {<<"ok">>, <<"SqlError">>}
            /\ Known /\ ~(DOMAIN doc.needed \subseteq DOMAIN request.params) =>
                 ~out.executed /\ out.answers = <<"InvalidParams">>

\* openclaw_skill.md: the parameters of update_rule are "rule_id and the fields to
\* update".  A request that gives its rule_id and a field to update is executed.
UpdateTakesTheFieldsGiven ==
    /\ outcome # NotYet /\ Known /\ request.cmd = "update_rule"
    /\ Follows(request, Guide["update_rule"])
    /\ DOMAIN Both(RuleFields, RuleExtras) \cap DOMAIN request.params # {}
    => outcome[1].executed
==============================================================================
