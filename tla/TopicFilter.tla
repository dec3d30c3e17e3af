------------------------------ MODULE TopicFilter ------------------------------
(***************************************************************************)
(* How MqttClient finds the subscription for a message: the loop of        *)
(* on_message over the subscriptions and, within it, the loop of           *)
(* TopicMatches over the levels.  Topics and filters are sequences of      *)
(* levels (SplitTopic).  on_message holds mutex_ throughout.               *)
(***************************************************************************)
EXTENDS Integers, Sequences

CONSTANTS
    Topics,           \* of the messages that arrive
    SubscriptionSets  \* which filters may be subscribed together

IsTopic(t)  == t \in Seq(STRING) /\ t # <<>> /\ \A i \in DOMAIN t : t[i] \notin {"+", "#"}
IsFilter(f) == f \in Seq(STRING) /\ f # <<>>

\* A broker delivers no topic with a wildcard in it, and a text has a level at least.
ASSUME TopicAssumption ==
    /\ \A t \in Topics : IsTopic(t)
    /\ \A subs \in SubscriptionSets : \A f \in subs : IsFilter(f)

VARIABLES
    subscriptions,  \* the confirmed ones, by filter
    topic,          \* of the message
    untried,        \* the subscriptions on_message has not come to yet
    filter,         \* the one TopicMatches is called with, or NoFilter
    level,          \* si and ti, which are equal; 0 before the loop
    receiver        \* whose callback is called, or NoFilter

dispatchVars == <<subscriptions, topic, untried, filter, level, receiver>>

NoFilter == <<>>

DispatchInit ==
    /\ subscriptions \in SubscriptionSets /\ topic \in Topics
    /\ untried = subscriptions
    /\ filter = NoFilter /\ level = 0 /\ receiver = NoFilter

\* The map has no order.
NextSubscription ==
    /\ receiver = NoFilter /\ filter = NoFilter
    /\ \E f \in untried : filter' = f /\ untried' = untried \ {f}
    /\ UNCHANGED <<subscriptions, topic, level, receiver>>

\* TopicMatches returns: the first match gets the message.
Return(matches) ==
    /\ filter' = NoFilter /\ level' = 0
    /\ receiver' = IF matches THEN filter ELSE NoFilter
    /\ UNCHANGED <<subscriptions, topic, untried>>

NextLevel ==
    /\ level' = level + 1
    /\ UNCHANGED <<subscriptions, topic, untried, filter, receiver>>

Matching == filter # NoFilter /\ level > 0
InBoth   == level <= Len(filter) /\ level <= Len(topic)

\* The two fast paths.
CompareTexts ==
    /\ filter # NoFilter /\ level = 0
    /\ IF filter = topic \/ filter = <<"#">> THEN Return(TRUE) ELSE NextLevel

\* "#" is for all that is left, and must be last.
MultiLevel == Matching /\ InBoth /\ filter[level] = "#" /\ Return(level = Len(filter))

\* "+" is for any one level.
SingleLevel ==
    /\ Matching /\ InBoth /\ filter[level] # "#"
    /\ IF filter[level] \in {"+", topic[level]} THEN NextLevel ELSE Return(FALSE)

\* Slip: "#" stands for one level at least.
LevelsEndTogether ==
    Matching /\ ~InBoth /\ Return(level > Len(filter) /\ level > Len(topic))

\* Both are at their end, or only a "#" is left.
LevelsEnd ==
    /\ Matching /\ ~InBoth
    /\ Return(\/ level > Len(filter) /\ level > Len(topic)
              \/ level = Len(filter) /\ filter[level] = "#")

DispatchNext == NextSubscription \/ CompareTexts \/ MultiLevel \/ SingleLevel \/ LevelsEnd

DispatchSpec == DispatchInit /\ [][DispatchNext]_dispatchVars

------------------------------------------------------------------------------
(* What the components subscribe to.                                       *)

DeviceManagerFilters ==
    {<<"broadcast", "online">>, <<"device", "+", "heartbeat">>,
     <<"device", "+", "resp", "s2m">>, <<"broadcast", "config">>}
RuleEngineFilters == {<<"device", "+", "event", "#">>, <<"device", "+", "data", "+">>}
AppManagerFilters ==
    {<<"app", "face", "trans">>, <<"app", "voice", "trans">>, <<"app", "llm", "trans">>}
AppSqlProxyFilters == {<<"app", "sql", "trans">>}
HubFilters == UNION {DeviceManagerFilters, RuleEngineFilters,
                     AppManagerFilters, AppSqlProxyFilters}

------------------------------------------------------------------------------
\* As MQTT defines it: "#" stands last, for any number of levels, and "+" for one.
Matches(f, t) ==
    LET multi == f[Len(f)] = "#"
        named == IF multi THEN Len(f) - 1 ELSE Len(f)
    IN  /\ IF multi THEN named <= Len(t) ELSE named = Len(t)
        /\ \A i \in 1..named : f[i] # "#" /\ f[i] \in {"+", t[i]}

Dispatched == receiver # NoFilter \/ (filter = NoFilter /\ untried = {})

\* A message is given to the handler of a subscription whose filter matches its
\* topic as MQTT defines it, and to nobody only if no filter does; and of the hub's
\* own filters no other one matches, so the order of the map takes no message away
\* from a handler (on_message, TopicMatches).
TopicsFindTheirHandler ==
    LET fitting == {f \in subscriptions : Matches(f, topic)}
    IN  /\ receiver # NoFilter => receiver \in fitting
        /\ (Dispatched /\ receiver = NoFilter) => fitting = {}
        /\ (Dispatched /\ subscriptions \subseteq HubFilters) => fitting \subseteq {receiver}
==============================================================================
