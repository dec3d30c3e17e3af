------------------------------ MODULE MessageProofs ------------------------------
(***************************************************************************)
(* What holds for every message: the subscription of a topic is found,     *)
(* whatever the topic and the filters are and however many levels they     *)
(* have, a request to the SQL proxies gets what the guides promise, and a  *)
(* prompt is answered.                                                     *)
(***************************************************************************)
EXTENDS TopicFilter, SqlGuides, LlmRequest, SequenceTheorems, WellFoundedInduction, TLAPS

------------------------------------------------------------------------------
(* Facts about filters.                                                    *)

\* A topic matches itself, and "#" matches every topic (the two fast paths).
LEMMA FastPaths ==
  ASSUME NEW t, IsTopic(t)
  PROVE  Matches(t, t) /\ Matches(<<"#">>, t)
<1>1. /\ t \in Seq(STRING) /\ Len(t) \in Nat \ {0} /\ DOMAIN t = 1..Len(t)
      /\ \A i \in 1..Len(t) : t[i] \notin {"+", "#"}
  BY DEF IsTopic
<1>2. Matches(t, t)
  BY <1>1 DEF Matches
<1>3. Matches(<<"#">>, t)
  BY <1>1 DEF Matches
<1> QED
  BY <1>2, <1>3

\* The first n levels of a filter let a topic pass.
Passes(f, t, n) ==
    /\ n <= Len(f) /\ n <= Len(t)
    /\ \A i \in 1..n : f[i] # "#" /\ f[i] \in {"+", t[i]}

\* Where the loop leaves: at a "#", at a level that differs, at the end.
LEMMA AtMultiLevel ==
  ASSUME NEW f, NEW t, IsFilter(f), IsTopic(t), NEW n \in Nat \ {0},
         Passes(f, t, n - 1), n <= Len(f), n <= Len(t) + 1, f[n] = "#"
  PROVE  Matches(f, t) <=> n = Len(f)
<1>1. Len(f) \in Nat \ {0} /\ Len(t) \in Nat
  BY DEF IsFilter, IsTopic
<1>2. CASE n = Len(f)
  BY <1>1, <1>2 DEF Matches, Passes
<1>3. CASE n # Len(f)
  BY <1>1, <1>3 DEF Matches
<1> QED
  BY <1>2, <1>3

LEMMA AtOtherLevel ==
  ASSUME NEW f, NEW t, IsFilter(f), IsTopic(t), NEW n \in Nat \ {0},
         n <= Len(f), f[n] # "#", f[n] \notin {"+", t[n]}
  PROVE  ~Matches(f, t)
<1>1. Len(f) \in Nat \ {0} /\ Len(t) \in Nat
  BY DEF IsFilter, IsTopic
<1> QED
  BY <1>1 DEF Matches

LEMMA AtEnd ==
  ASSUME NEW f, NEW t, IsFilter(f), IsTopic(t), NEW n \in Nat \ {0},
         Passes(f, t, n - 1), n > Len(f) \/ n > Len(t),
         n <= Len(f) => f[n] # "#"
  PROVE  Matches(f, t) <=> n > Len(f) /\ n > Len(t)
<1>1. Len(f) \in Nat \ {0} /\ Len(t) \in Nat
  BY DEF IsFilter, IsTopic
<1>2. n - 1 <= Len(f) /\ n - 1 <= Len(t) /\ \A i \in 1..n - 1 : f[i] # "#" /\ f[i] \in {"+", t[i]}
  BY DEF Passes
<1>3. CASE n > Len(f) /\ n > Len(t)
  BY <1>1, <1>2, <1>3 DEF Matches
<1>4. CASE n > Len(f) /\ n <= Len(t)
  BY <1>1, <1>2, <1>4 DEF Matches
<1>5. CASE n <= Len(f) /\ n > Len(t)
  BY <1>1, <1>2, <1>5 DEF Matches
<1> QED
  BY <1>1, <1>3, <1>4, <1>5

------------------------------------------------------------------------------
(* The loop.                                                               *)

\* The filter in hand is a subscription that fits so far; those that were tried do
\* not match; who receives the message does.
DispatchInv ==
    /\ \A f \in subscriptions : IsFilter(f)
    /\ IsTopic(topic)
    /\ untried \subseteq subscriptions
    /\ level \in Nat
    /\ filter = NoFilter => level = 0
    /\ filter # NoFilter =>
         /\ filter \in subscriptions \ untried /\ receiver = NoFilter
         /\ level > 0 => Passes(filter, topic, level - 1)
    /\ receiver # NoFilter => receiver \in subscriptions /\ Matches(receiver, topic)
    /\ \A f \in subscriptions \ untried : f \in {filter, receiver} \/ ~Matches(f, topic)

LEMMA DispatchInitOK == DispatchInit => DispatchInv
BY TopicAssumption DEF DispatchInit, DispatchInv, NoFilter

\* TopicMatches returns what MQTT says.
LEMMA ReturnOK ==
  ASSUME DispatchInv, filter # NoFilter, NEW matches \in BOOLEAN, Return(matches),
         matches <=> Matches(filter, topic)
  PROVE  DispatchInv'
BY DEF DispatchInv, Return, NoFilter

LEMMA DispatchStepOK == DispatchInv /\ [DispatchNext]_dispatchVars => DispatchInv'
<1> SUFFICES ASSUME DispatchInv, [DispatchNext]_dispatchVars PROVE DispatchInv'
  OBVIOUS
<1>1. /\ IsTopic(topic) /\ level \in Nat
      /\ filter # NoFilter => IsFilter(filter) /\ Len(filter) \in Nat /\ Len(topic) \in Nat
  BY DEF DispatchInv, IsFilter, IsTopic
<1>2. CASE NextSubscription
  <2>1. /\ receiver = NoFilter /\ filter = NoFilter /\ filter' \in untried
        /\ untried' = untried \ {filter'} /\ UNCHANGED <<subscriptions, topic, level, receiver>>
    BY <1>2 DEF NextSubscription
  <2> QED
    BY <2>1 DEF DispatchInv, IsFilter, NoFilter
<1>3. CASE CompareTexts
  <2>1. CASE filter = topic \/ filter = <<"#">>
    <3>1. Matches(filter, topic)
      BY <1>1, <2>1, FastPaths
    <3> QED
      BY <1>3, <2>1, <3>1, ReturnOK DEF CompareTexts
  <2>2. CASE ~(filter = topic \/ filter = <<"#">>)
    <3>1. level' = 1 /\ UNCHANGED <<subscriptions, topic, untried, filter, receiver>>
      BY <1>3, <2>2 DEF CompareTexts, NextLevel
    <3>2. filter # NoFilter => Passes(filter, topic, 0)
      BY <1>1 DEF Passes
    <3> QED
      BY <1>3, <3>1, <3>2 DEF CompareTexts, DispatchInv
  <2> QED
    BY <2>1, <2>2
<1>4. CASE MultiLevel
  <2>1. Matches(filter, topic) <=> level = Len(filter)
    BY <1>1, <1>4, AtMultiLevel DEF MultiLevel, Matching, InBoth, DispatchInv
  <2> QED
    BY <1>4, <2>1, ReturnOK DEF MultiLevel, Matching
<1>5. CASE SingleLevel
  <2>1. CASE filter[level] \in {"+", topic[level]}
    <3>1. level' = level + 1 /\ UNCHANGED <<subscriptions, topic, untried, filter, receiver>>
      BY <1>5, <2>1 DEF SingleLevel, NextLevel
    <3>2. Passes(filter, topic, level)
      BY <1>1, <1>5, <2>1 DEF SingleLevel, Matching, InBoth, DispatchInv, Passes
    <3> QED
      BY <1>1, <1>5, <3>1, <3>2 DEF SingleLevel, Matching, DispatchInv
  <2>2. CASE filter[level] \notin {"+", topic[level]}
    <3>1. ~Matches(filter, topic)
      BY <1>1, <1>5, <2>2, AtOtherLevel DEF SingleLevel, Matching, InBoth
    <3> QED
      BY <1>5, <2>2, <3>1, ReturnOK DEF SingleLevel, Matching
  <2> QED
    BY <2>1, <2>2
<1>6. CASE LevelsEnd
  <2> DEFINE ends == \/ level > Len(filter) /\ level > Len(topic)
                     \/ level = Len(filter) /\ filter[level] = "#"
  <2>1. filter # NoFilter /\ level > 0 /\ (level > Len(filter) \/ level > Len(topic))
    BY <1>1, <1>6 DEF LevelsEnd, Matching, InBoth
  <2>4. Return(ends)
    BY <1>6 DEF LevelsEnd
  <2>2. Passes(filter, topic, level - 1)
    BY <2>1 DEF DispatchInv
  <2>3. Matches(filter, topic) <=> ends
    <3>1. CASE level <= Len(filter) /\ filter[level] = "#"
      <4>1. level <= Len(topic) + 1
        BY <1>1, <2>2 DEF Passes
      <4>2. Matches(filter, topic) <=> level = Len(filter)
        BY <1>1, <2>1, <2>2, <3>1, <4>1, AtMultiLevel
      <4> QED
        BY <1>1, <2>1, <3>1, <4>2
    <3>2. CASE ~(level <= Len(filter) /\ filter[level] = "#")
      <4>1. Matches(filter, topic) <=> level > Len(filter) /\ level > Len(topic)
        BY <1>1, <2>1, <2>2, <3>2, AtEnd
      <4> QED
        BY <1>1, <2>1, <3>2, <4>1
    <3> QED
      BY <3>1, <3>2
  <2> QED
    BY <2>1, <2>3, <2>4, ReturnOK
<1>7. CASE UNCHANGED dispatchVars
  BY <1>7 DEF dispatchVars, DispatchInv
<1> QED
  BY <1>2, <1>3, <1>4, <1>5, <1>6, <1>7 DEF DispatchNext

------------------------------------------------------------------------------
\* Of the hub's filters at most one matches a topic.
LEMMA HubFiltersApart ==
  ASSUME NEW t, IsTopic(t), NEW f \in HubFilters, NEW g \in HubFilters,
         Matches(f, t), Matches(g, t)
  PROVE  f = g
<1>1. Len(t) \in Nat
  BY DEF IsTopic
<1>2. HubFilters =
        {<<"broadcast", "online">>, <<"broadcast", "config">>,
         <<"device", "+", "heartbeat">>, <<"device", "+", "resp", "s2m">>,
         <<"device", "+", "event", "#">>, <<"device", "+", "data", "+">>,
         <<"app", "face", "trans">>, <<"app", "voice", "trans">>,
         <<"app", "llm", "trans">>, <<"app", "sql", "trans">>}
  BY DEF HubFilters, DeviceManagerFilters, RuleEngineFilters, AppManagerFilters, AppSqlProxyFilters
<1>3. ASSUME NEW h \in HubFilters
      PROVE  /\ Len(h) \in 2..4 /\ h[1] \in {"broadcast", "device", "app"} /\ h[2] # "#"
             /\ h[1] = "device" => Len(h) >= 3 /\ h[3] \notin {"+", "#"}
             /\ h[1] # "device" => h[2] \notin {"+", "#"}
  BY <1>2
<1>4. ASSUME NEW h \in HubFilters, Matches(h, t)
      PROVE  /\ h[1] = t[1]
             /\ h[1] = "device" => h[3] = t[3]
             /\ h[1] # "device" => h[2] = t[2]
  <2>1. Len(h) \in 2..4
    BY <1>3
  <2>2. \A i \in 1..Len(h) : h[i] # "#" => h[i] \in {"+", t[i]}
    BY <1>1, <1>4, <2>1 DEF Matches
  <2> QED
    BY <1>3, <2>1, <2>2
<1>5. /\ f[1] = g[1]
      /\ f[1] = "device" => f[3] = g[3]
      /\ f[1] # "device" => f[2] = g[2]
  BY <1>4
<1> QED
  BY <1>2, <1>5

\* on_message and TopicMatches find, for filters and topics of any length, the
\* subscription whose filter matches as MQTT defines it, and among the hub's own
\* filters the only one.
THEOREM HandlerFound == DispatchSpec => []TopicsFindTheirHandler
<1>1. DispatchInv => TopicsFindTheirHandler
  <2> SUFFICES ASSUME DispatchInv PROVE TopicsFindTheirHandler
    OBVIOUS
  <2> DEFINE fitting == {f \in subscriptions : Matches(f, topic)}
  <2>1. receiver # NoFilter => receiver \in fitting
    BY DEF DispatchInv
  <2>2. Dispatched /\ receiver = NoFilter => fitting = {}
    <3>1. ASSUME NEW f \in fitting, Dispatched, receiver = NoFilter PROVE FALSE
      <4>1. f # NoFilter
        BY DEF DispatchInv, IsFilter, NoFilter
      <4> QED
        BY <3>1, <4>1 DEF DispatchInv, Dispatched
    <3> QED
      BY <3>1
  <2>3. Dispatched /\ subscriptions \subseteq HubFilters => fitting \subseteq {receiver}
    BY <2>1, <2>2, HubFiltersApart DEF DispatchInv
  <2> QED
    BY <2>1, <2>2, <2>3 DEF TopicsFindTheirHandler
<1> QED
  BY <1>1, DispatchInitOK, DispatchStepOK, PTL DEF DispatchSpec

------------------------------------------------------------------------------
(* The requests.  Binding a parameter.                                     *)

\* A set of naturals has a least element.
LEMMA Least ==
  ASSUME NEW S, S \subseteq Nat, S # {}
  PROVE  \E i \in S : \A j \in S : i <= j
<1> DEFINE R == OpToRel(<, Nat)
<1>1. R = {ss \in Nat \X Nat : ss[1] < ss[2]}
  BY Zenon DEF OpToRel
<1>2. IsWellFoundedOn(R, Nat)
  BY NatLessThanWellFounded
<1> HIDE DEF R
<1>3. PICK i \in S : \A j \in S : ~(<<j, i>> \in R)
  BY <1>2, WFMin
<1>4. ASSUME NEW j \in S, j < i PROVE FALSE
  <2>1. <<j, i>> \in Nat \X Nat /\ <<j, i>>[1] = j /\ <<j, i>>[2] = i
    OBVIOUS
  <2>2. <<j, i>> \in {ss \in Nat \X Nat : ss[1] < ss[2]}
    BY <1>4, <2>1
  <2> QED
    BY <1>1, <1>3, <2>2
<1> QED
  BY <1>4

Total     == {"uuid", "text", "int", "any"}
StepKind  == {"uuid", "text", "int", "bool", "any",
              "textOrDefault", "boolOrDefault", "intOrDefault"}
OrDefault == {"textOrDefault", "boolOrDefault", "intOrDefault"}

\* The kinds of values that a step binds.
Binds(kind) ==
    CASE kind \in {"uuid", "text", "textOrDefault"} -> Str
      [] kind = "int" -> {"int", "float", "digits"}
      [] kind \in {"bool", "boolOrDefault"} -> {"bool"}
      [] kind = "intOrDefault" -> {"int", "float", "bool"}
      [] kind = "any" -> Kind

LEMMA BindOne ==
  ASSUME NEW params, NEW step, step[1] \in StepKind
  PROVE  /\ Bind(params, step) \in {"bound", "failed", "thrown"}
         /\ step[1] \in Total => Bind(params, step) # "thrown"
         /\ Given(params, step[2], Binds(step[1])) => Bind(params, step) = "bound"
         /\ step[2] \notin DOMAIN params /\ step[1] \in OrDefault => Bind(params, step) = "bound"
BY DEF StepKind, Total, OrDefault, Binds, Bind, BindUuid, BindText, BindInt, BindBool,
       BindDefault, Given

\* A list of steps.
Steps(binds) == \A i \in DOMAIN binds : i \in Nat /\ binds[i][1] \in StepKind

LEMMA BindAll ==
  ASSUME NEW params, NEW binds, Steps(binds)
  PROVE  /\ BindParams(binds, params) \in {"bound", "failed", "thrown"}
         /\ (\A i \in DOMAIN binds : binds[i][1] \in Total) => BindParams(binds, params) # "thrown"
         /\ (\A i \in DOMAIN binds : Bind(params, binds[i]) = "bound") =>
              BindParams(binds, params) = "bound"
<1> DEFINE unbound == {i \in DOMAIN binds : Bind(params, binds[i]) # "bound"}
<1>1. \A i \in DOMAIN binds : i \in Nat /\ binds[i][1] \in StepKind
  BY DEF Steps
<1>2. CASE unbound = {}
  BY <1>2 DEF BindParams
<1>3. CASE unbound # {}
  <2>1. \E i \in unbound : \A j \in unbound : i <= j
    BY <1>1, <1>3, Least
  <2> DEFINE first == CHOOSE i \in unbound : \A j \in unbound : i <= j
  <2>2. first \in DOMAIN binds
    BY <2>1
  <2>3. BindParams(binds, params) = Bind(params, binds[first])
    BY <1>3 DEF BindParams
  <2> QED
    BY <1>1, <1>3, <2>2, <2>3, BindOne
<1> QED
  BY <1>2, <1>3

\* Commands.
IsCommand(c) == Steps(c.binds) /\ Steps(c.sql)

LEMMA OneStep ==
  ASSUME NEW kind \in StepKind, NEW key
  PROVE  Steps(<<<<kind, key>>>>) /\ Steps(<<>>)
BY DEF Steps

LEMMA SmallCommands ==
  ASSUME NEW key
  PROVE  IsCommand(ByUuid(key)) /\ IsCommand(ByInt(key)) /\ IsCommand(All)
<1>1. {"uuid", "int"} \subseteq StepKind
  BY DEF StepKind
<1>2. Steps(<<>>) /\ Steps(<<<<"uuid", key>>>>) /\ Steps(<<<<"int", key>>>>)
  BY <1>1, OneStep
<1> QED
  BY <1>2 DEF IsCommand, ByUuid, ByInt, All, Cmd

LEMMA LimitedCommands ==
  ASSUME NEW needs
  PROVE  IsCommand(Limited(needs, <<>>)) /\ IsCommand(Limited(needs, <<<<"uuid", "dev_id">>>>))
<1>1. {"uuid", "intOrDefault"} \subseteq StepKind
  BY DEF StepKind
<1>2. Steps(<<>>) /\ Steps(<<<<"uuid", "dev_id">>>>) /\ Steps(<<<<"intOrDefault", "limit">>>>)
  BY <1>1, OneStep
<1> QED
  BY <1>2 DEF IsCommand, Limited

LEMMA AppendIndexed ==
  ASSUME NEW C, NEW s \in Seq(C), NEW e \in C
  PROVE  /\ DOMAIN Append(s, e) = 1..Len(s) + 1 /\ Append(s, e)[Len(s) + 1] = e
         /\ \A i \in 1..Len(s) : Append(s, e)[i] = s[i]
OBVIOUS

LEMMA RuleColumnsAppend ==
  LET binds == Append(RuleColumns, <<"int", "rule_id">>)
  IN  /\ DOMAIN binds = 1..8 /\ binds[8] = <<"int", "rule_id">>
      /\ \A i \in 1..7 : binds[i] = RuleColumns[i]
<1> DEFINE C == {RuleColumns[i] : i \in 1..7} \cup {<<"int", "rule_id">>}
           step == <<"int", "rule_id">>
           n == Len(RuleColumns)
           all == Append(RuleColumns, step)
<1>1. RuleColumns \in Seq(C)
  <2>1. RuleColumns = [i \in 1..7 |-> RuleColumns[i]]
    BY DEF RuleColumns
  <2> QED
    BY <2>1
<1>2. step \in C
  OBVIOUS
<1>3. n = 7
  BY DEF RuleColumns
<1> HIDE DEF C, step
<1>4. /\ DOMAIN all = 1..n + 1 /\ all[n + 1] = step
      /\ \A i \in 1..n : all[i] = RuleColumns[i]
  BY ONLY <1>1, <1>2, AppendIndexed
<1> HIDE DEF n, all
<1>5. DOMAIN all = 1..8 /\ all[8] = step /\ \A i \in 1..7 : all[i] = RuleColumns[i]
  BY <1>3, <1>4
<1> QED
  BY <1>5 DEF step, all

LEMMA RuleCommands ==
  IsCommand(InsertRule) /\ IsCommand(UpdateRule) /\ IsCommand(SetRuleEnable)
    /\ IsCommand(DeleteRule) /\ IsCommand(EventRule)
<1>1. Steps(RuleColumns)
  BY DEF RuleColumns, Steps, StepKind
<1>2. Steps(Append(RuleColumns, <<"int", "rule_id">>))
  <2>1. DOMAIN RuleColumns = 1..7
    BY DEF RuleColumns
  <2>2. \A i \in 1..7 : RuleColumns[i][1] \in StepKind
    BY <1>1, <2>1 DEF Steps
  <2> DEFINE all == Append(RuleColumns, <<"int", "rule_id">>)
  <2>3. /\ DOMAIN all = 1..8 /\ all[8] = <<"int", "rule_id">>
        /\ \A i \in 1..7 : all[i] = RuleColumns[i]
    BY RuleColumnsAppend
  <2> HIDE DEF all
  <2>4. \A i \in 1..8 : all[i][1] \in StepKind
    <3>1. all[8][1] \in StepKind
      BY <2>3 DEF StepKind
    <3> QED
      BY <2>2, <2>3, <3>1
  <2>5. Steps(all)
    BY <2>3, <2>4 DEF Steps
  <2> QED
    BY <2>5 DEF all
<1>3. IsCommand(SetRuleEnable) /\ IsCommand(EventRule)
  BY DEF SetRuleEnable, EventRule, IsCommand, Cmd, Steps, StepKind
<1>4. IsCommand(InsertRule) /\ IsCommand(UpdateRule)
  <2>1. Steps(<<>>)
    BY DEF Steps
  <2>2. InsertRule.binds = RuleColumns /\ InsertRule.sql = <<>>
    BY DEF InsertRule, Cmd
  <2>3. UpdateRule.binds = Append(RuleColumns, <<"int", "rule_id">>) /\ UpdateRule.sql = <<>>
    BY DEF UpdateRule, Cmd
  <2> QED
    BY <1>1, <1>2, <2>1, <2>2, <2>3 DEF IsCommand
<1> QED
  BY <1>3, <1>4, SmallCommands DEF DeleteRule

\* Two maps with the same property have it together.
LEMMA BothCommands ==
  ASSUME NEW f, NEW g, \A x \in DOMAIN f : IsCommand(f[x]), \A x \in DOMAIN g : IsCommand(g[x])
  PROVE  \A x \in DOMAIN Both(f, g) : IsCommand(Both(f, g)[x])
BY DEF Both

LEMMA Routers ==
  /\ \A cmd \in DOMAIN AppCmd : IsCommand(AppCmd[cmd])
  /\ \A cmd \in DOMAIN LlmCmd : IsCommand(LlmCmd[cmd])
<1>1. \A cmd \in DOMAIN AppReads : IsCommand(AppReads[cmd])
  BY SmallCommands DEF AppReads
<1>2. \A cmd \in DOMAIN AppProfileWrites : IsCommand(AppProfileWrites[cmd])
  <2>1. \A needs, k1, k2, k3 :
          /\ IsCommand(Cmd(needs, <<<<"uuid", k1>>, <<"text", k2>>, <<"any", k3>>>>))
          /\ IsCommand(Cmd(needs, <<<<"text", k1>>, <<"any", k2>>, <<"uuid", k3>>>>))
    BY DEF IsCommand, Cmd, Steps, StepKind
  <2>2. IsCommand(AppProfileWrites.insert_user_profile) /\ IsCommand(AppProfileWrites.update_user_profile)
    BY <2>1 DEF AppProfileWrites
  <2>3. IsCommand(AppProfileWrites.delete_user_profile)
    BY SmallCommands DEF AppProfileWrites
  <2>4. DOMAIN AppProfileWrites = {"insert_user_profile", "update_user_profile", "delete_user_profile"}
    BY DEF AppProfileWrites
  <2> QED
    BY <2>2, <2>3, <2>4
<1>3. \A cmd \in DOMAIN LlmRowReads : IsCommand(LlmRowReads[cmd])
  BY SmallCommands DEF LlmRowReads
<1>4. \A cmd \in DOMAIN LlmRecordReads : IsCommand(LlmRecordReads[cmd])
  <2>1. \A needs : IsCommand(Cmd(needs, <<<<"text", "start">>, <<"text", "end">>>>))
    BY DEF IsCommand, Cmd, Steps, StepKind
  <2> QED
    BY <2>1, LimitedCommands, SmallCommands DEF LlmRecordReads
<1>5. \A cmd \in DOMAIN EventRuleReads : IsCommand(EventRuleReads[cmd])
  BY SmallCommands DEF EventRuleReads
<1>6. \A cmd \in DOMAIN EventRuleWrites : IsCommand(EventRuleWrites[cmd])
  BY SmallCommands, RuleCommands DEF EventRuleWrites
<1>7. \A cmd \in DOMAIN LlmRuleWrites : IsCommand(LlmRuleWrites[cmd])
  BY RuleCommands DEF LlmRuleWrites
<1>8. \A cmd \in DOMAIN LlmReads : IsCommand(LlmReads[cmd])
  BY <1>3, <1>4, <1>5, BothCommands DEF LlmReads
<1>9. \A cmd \in DOMAIN LlmWrites : IsCommand(LlmWrites[cmd])
  BY <1>6, <1>7, BothCommands DEF LlmWrites
<1> QED
  BY <1>1, <1>2, <1>8, <1>9, BothCommands DEF AppCmd, LlmCmd

------------------------------------------------------------------------------
(* What the guides name is what the commands need and bind.                *)

BindsAll(doc, step) ==
    LET kind == step[1]
        key  == step[2]
    IN  \/ key \in DOMAIN doc.needed /\ doc.needed[key] \subseteq Binds(kind)
        \/ /\ kind \in OrDefault
           /\ key \in DOMAIN doc.optional /\ doc.optional[key] \subseteq Binds(kind)

Fits(doc, command) ==
    /\ DOMAIN command.needs = DOMAIN doc.needed
    /\ \A key \in DOMAIN doc.needed : doc.needed[key] \subseteq command.needs[key]
    /\ \A i \in DOMAIN command.binds : BindsAll(doc, command.binds[i])
    /\ \A i \in DOMAIN command.sql : BindsAll(doc, command.sql[i])

LEMMA FitsSmall ==
  ASSUME NEW key
  PROVE  /\ Fits(Plain, All)
         /\ Fits(Needs(One(key, Id)), ByUuid(key))
         /\ Fits(Needs(One(key, Whole)), ByInt(key))
         /\ Fits(Doc(NoParams, [limit |-> Whole]), Limited(NoParams, <<>>))
<1>1. Fits(Plain, All)
  BY DEF Fits, BindsAll, Plain, All, Cmd, Doc, NoParams
<1>2. Id \subseteq Full /\ Id \subseteq Binds("uuid")
  BY DEF Id, Full, Str, Binds
<1>3. Whole \subseteq Present /\ Whole \subseteq Binds("int") /\ Whole \subseteq Binds("intOrDefault")
  BY DEF Whole, Present, Kind, Str, Binds
<1>4. Fits(Needs(One(key, Id)), ByUuid(key))
  BY <1>2 DEF Fits, BindsAll, Needs, ByUuid, Cmd, Doc, NoParams, One
<1>5. Fits(Needs(One(key, Whole)), ByInt(key))
  BY <1>3 DEF Fits, BindsAll, Needs, ByInt, Cmd, Doc, NoParams, One
<1>6. Fits(Doc(NoParams, [limit |-> Whole]), Limited(NoParams, <<>>))
  BY <1>3 DEF Fits, BindsAll, Limited, Doc, NoParams, OrDefault
<1> QED
  BY <1>1, <1>4, <1>5, <1>6

LEMMA FitsLimited ==
  Fits(Doc([dev_id |-> Id], [limit |-> Whole]), Limited([dev_id |-> Full], <<<<"uuid", "dev_id">>>>))
<1>2. Id \subseteq Full /\ Id \subseteq Binds("uuid")
  BY DEF Id, Full, Str, Binds
<1>3. Whole \subseteq Binds("intOrDefault")
  BY DEF Whole, Binds
<1> QED
  BY <1>2, <1>3 DEF Fits, BindsAll, Limited, Doc, OrDefault

\* What the code wants of update_rule: the fields of insert_rule too.
FullUpdate == Doc(Both([rule_id |-> Whole], RuleFields), RuleExtras)
FullWrites == [SkillWrites EXCEPT !.update_rule = FullUpdate]
FullGuide  == Both(SkillReads, FullWrites)

LEMMA FitsRule ==
  /\ Fits(Doc(RuleFields, RuleExtras), InsertRule)
  /\ Fits(FullUpdate, UpdateRule)
<1>1. /\ Id \subseteq Full /\ Id \subseteq Text /\ Id \subseteq Binds("text") /\ Whole \subseteq Present
      /\ Whole \subseteq Binds("int") /\ Whole \subseteq Binds("intOrDefault")
      /\ {"bool"} \subseteq Binds("boolOrDefault") /\ {"text", "empty"} \subseteq Binds("textOrDefault")
  BY DEF Id, Full, Text, Str, Binds, Whole, Present, Kind
<1> DEFINE Insert == Doc(RuleFields, RuleExtras)
           Update == FullUpdate
<1>2. /\ DOMAIN Update.needed = {"rule_id", "rule_name", "rule_type", "action"}
      /\ Update.needed["rule_id"] = Whole
      /\ \A key \in DOMAIN RuleFields : Update.needed[key] = RuleFields[key]
      /\ Update.optional = RuleExtras
  BY DEF FullUpdate, Doc, Both, RuleFields
<1>3. \A i \in 1..7 : BindsAll(Insert, RuleColumns[i])
  BY <1>1 DEF BindsAll, Doc, RuleColumns, RuleFields, RuleExtras, OrDefault
<1>4. BindsAll(Update, <<"int", "rule_id">>)
  BY <1>1, <1>2 DEF BindsAll
<1>5. DOMAIN RuleColumns = 1..7
  BY DEF RuleColumns
<1>6. Fits(Insert, InsertRule)
  <2>1. /\ InsertRule.binds = RuleColumns /\ InsertRule.sql = <<>>
        /\ InsertRule.needs = [rule_name |-> Full, rule_type |-> Full, action |-> Full]
    BY DEF InsertRule, Cmd
  <2>2. Insert.needed = [rule_name |-> Id, rule_type |-> Id, action |-> Id]
    BY DEF Doc, RuleFields
  <2> HIDE DEF Insert
  <2> QED
    BY <1>1, <1>3, <1>5, <2>1, <2>2 DEF Fits
<1>7. \A i \in 1..7 : BindsAll(Update, RuleColumns[i])
  <2>1. \A step : BindsAll(Insert, step) => BindsAll(Update, step)
    <3>1. Insert.needed = RuleFields /\ Insert.optional = RuleExtras
      BY DEF Doc
    <3>2. DOMAIN RuleFields \subseteq DOMAIN Update.needed
      BY <1>2 DEF RuleFields
    <3> HIDE DEF Insert, Update
    <3> QED
      BY <1>2, <3>1, <3>2 DEF BindsAll
  <2> HIDE DEF Insert, Update
  <2> QED
    BY <1>3, <2>1
<1>8. Fits(Update, UpdateRule)
  <2>1. /\ UpdateRule.binds = Append(RuleColumns, <<"int", "rule_id">>) /\ UpdateRule.sql = <<>>
        /\ UpdateRule.needs = [rule_id |-> Present, rule_name |-> Text, rule_type |-> Text, action |-> Text]
    BY DEF UpdateRule, Cmd
  <2>2. \A key \in DOMAIN RuleFields : RuleFields[key] = Id
    BY DEF RuleFields
  <2>3. DOMAIN RuleFields = {"rule_name", "rule_type", "action"}
    BY DEF RuleFields
  <2>4. /\ DOMAIN UpdateRule.binds = 1..8 /\ UpdateRule.binds[8] = <<"int", "rule_id">>
        /\ \A i \in 1..7 : UpdateRule.binds[i] = RuleColumns[i]
    BY <2>1, RuleColumnsAppend
  <2> HIDE DEF Update
  <2>5. DOMAIN UpdateRule.needs = DOMAIN Update.needed
    BY <1>2, <2>1
  <2>6. \A key \in DOMAIN Update.needed : Update.needed[key] \subseteq UpdateRule.needs[key]
    BY <1>1, <1>2, <2>1, <2>2, <2>3
  <2>7. \A i \in DOMAIN UpdateRule.binds : BindsAll(Update, UpdateRule.binds[i])
    <3>1. \A i \in 1..8 : i \in 1..7 \/ i = 8
      OBVIOUS
    <3> QED
      BY <1>4, <1>7, <2>4, <3>1
  <2>8. \A i \in DOMAIN UpdateRule.sql : BindsAll(Update, UpdateRule.sql[i])
    BY <2>1
  <2> QED
    BY <2>5, <2>6, <2>7, <2>8 DEF Fits
<1> QED
  BY <1>6, <1>8

LEMMA FitsOther ==
  /\ Fits(Needs([rule_id |-> Whole, enable |-> {"bool"}]), SetRuleEnable)
  /\ Fits(Needs([evt_id |-> Id, rule_id |-> Whole]), EventRule)
<1>1. /\ Id \subseteq Full /\ Id \subseteq Binds("uuid") /\ Whole \subseteq Present
      /\ Whole \subseteq Binds("int") /\ {"bool"} \subseteq Binds("bool") /\ {"bool"} \subseteq Present
  BY DEF Id, Full, Str, Binds, Whole, Present, Kind
<1>2. Fits(Needs([rule_id |-> Whole, enable |-> {"bool"}]), SetRuleEnable)
  BY <1>1 DEF Fits, BindsAll, Needs, Doc, NoParams, SetRuleEnable, Cmd
<1>3. Fits(Needs([evt_id |-> Id, rule_id |-> Whole]), EventRule)
  BY <1>1 DEF Fits, BindsAll, Needs, Doc, NoParams, EventRule, Cmd
<1> QED
  BY <1>2, <1>3

------------------------------------------------------------------------------
(* The routers know what the guides name.                                  *)

LEMMA AppFits ==
  /\ DOMAIN AppGuide \subseteq DOMAIN AppCmd
  /\ \A cmd \in DOMAIN AppGuide : Fits(AppGuide[cmd], AppCmd[cmd])
<1>1. /\ One("dev_id", Id) = [dev_id |-> Id]
      /\ One("rule_id", Whole) = [rule_id |-> Whole]
  BY DEF One
<1>2. /\ DOMAIN AppGuide = DOMAIN AppReads
      /\ \A cmd \in DOMAIN AppReads : AppCmd[cmd] = AppReads[cmd] /\ cmd \in DOMAIN AppCmd
  BY DEF AppCmd, AppReads, AppGuide, Both
<1>3. \A cmd \in DOMAIN AppGuide : Fits(AppGuide[cmd], AppReads[cmd])
  BY <1>1, FitsSmall DEF AppReads, AppGuide
<1> QED
  BY <1>2, <1>3

LEMMA SkillFits ==
  /\ DOMAIN FullGuide \subseteq DOMAIN LlmCmd
  /\ \A cmd \in DOMAIN FullGuide : Fits(FullGuide[cmd], LlmCmd[cmd])
<1>1. /\ One("dev_id", Id) = [dev_id |-> Id]
      /\ One("evt_id", Id) = [evt_id |-> Id]
      /\ One("rule_id", Whole) = [rule_id |-> Whole]
  BY DEF One
<1>2. ASSUME NEW cmd \in DOMAIN SkillReads
      PROVE  cmd \in DOMAIN LlmReads /\ Fits(SkillReads[cmd], LlmReads[cmd])
  <2>1. CASE cmd \in DOMAIN LlmRowReads
    <3>1. cmd \in DOMAIN LlmReads /\ LlmReads[cmd] = LlmRowReads[cmd]
      BY <2>1 DEF LlmReads, Both
    <3>2. Fits(SkillReads[cmd], LlmRowReads[cmd])
      BY <1>1, <2>1, FitsSmall DEF LlmRowReads, SkillReads
    <3> QED
      BY <3>1, <3>2
  <2>2. CASE cmd \in DOMAIN LlmRecordReads
    <3>1. cmd \in DOMAIN LlmReads /\ LlmReads[cmd] = LlmRecordReads[cmd]
      BY <2>2 DEF LlmReads, LlmRowReads, LlmRecordReads, Both
    <3>2. Fits(SkillReads[cmd], LlmRecordReads[cmd])
      BY <1>2, <2>2, FitsSmall, FitsLimited DEF LlmRecordReads, SkillReads
    <3> QED
      BY <3>1, <3>2
  <2>3. CASE cmd \in DOMAIN EventRuleReads
    <3>1. cmd \in DOMAIN LlmReads /\ LlmReads[cmd] = EventRuleReads[cmd]
      BY <2>3 DEF LlmReads, LlmRowReads, LlmRecordReads, EventRuleReads, Both
    <3>2. Fits(SkillReads[cmd], EventRuleReads[cmd])
      BY <1>1, <2>3, FitsSmall DEF EventRuleReads, SkillReads
    <3> QED
      BY <3>1, <3>2
  <2> QED
    BY <2>1, <2>2, <2>3 DEF SkillReads, LlmRowReads, LlmRecordReads, EventRuleReads
<1>0. /\ DOMAIN FullWrites = DOMAIN SkillWrites /\ FullWrites["update_rule"] = FullUpdate
      /\ \A cmd \in DOMAIN SkillWrites : cmd # "update_rule" => FullWrites[cmd] = SkillWrites[cmd]
  BY DEF FullWrites, SkillWrites
<1>3. ASSUME NEW cmd \in DOMAIN SkillWrites
      PROVE  cmd \in DOMAIN LlmWrites /\ Fits(FullWrites[cmd], LlmWrites[cmd])
  <2>1. CASE cmd \in DOMAIN LlmRuleWrites
    <3>1. cmd \in DOMAIN LlmWrites /\ LlmWrites[cmd] = LlmRuleWrites[cmd]
      BY <2>1 DEF LlmWrites, Both
    <3>2. CASE cmd = "update_rule"
      <4>1. LlmRuleWrites[cmd] = UpdateRule
        BY <3>2 DEF LlmRuleWrites
      <4> QED
        BY <1>0, <3>1, <3>2, <4>1, FitsRule
    <3>3. CASE cmd # "update_rule"
      <4>1. Fits(SkillWrites[cmd], LlmRuleWrites[cmd])
        BY <1>1, <2>1, <3>3, FitsSmall, FitsRule, FitsOther
           DEF LlmRuleWrites, SkillWrites, DeleteRule
      <4> QED
        BY <1>0, <3>1, <3>3, <4>1
    <3> QED
      BY <3>2, <3>3
  <2>2. CASE cmd \in DOMAIN EventRuleWrites
    <3>1. cmd \in DOMAIN LlmWrites /\ LlmWrites[cmd] = EventRuleWrites[cmd]
      BY <2>2 DEF LlmWrites, LlmRuleWrites, EventRuleWrites, Both
    <3>2. Fits(SkillWrites[cmd], EventRuleWrites[cmd]) /\ cmd # "update_rule"
      BY <1>1, <2>2, FitsSmall, FitsOther DEF EventRuleWrites, SkillWrites
    <3> QED
      BY <1>0, <3>1, <3>2
  <2> QED
    BY <2>1, <2>2 DEF SkillWrites, LlmRuleWrites, EventRuleWrites
<1>4. \A cmd \in DOMAIN SkillReads : FullGuide[cmd] = SkillReads[cmd]
  BY DEF FullGuide, Both
<1>5. \A cmd \in DOMAIN SkillWrites : cmd \notin DOMAIN SkillReads /\ FullGuide[cmd] = FullWrites[cmd]
  BY <1>0 DEF FullGuide, SkillReads, SkillWrites, Both
<1>6. \A cmd \in DOMAIN LlmReads : LlmCmd[cmd] = LlmReads[cmd] /\ cmd \in DOMAIN LlmCmd
  BY DEF LlmCmd, Both
<1>7. \A cmd \in DOMAIN SkillWrites : cmd \notin DOMAIN LlmReads
  BY DEF SkillWrites, LlmReads, LlmRowReads, LlmRecordReads, EventRuleReads, Both
<1>8. \A cmd \in DOMAIN SkillWrites : LlmCmd[cmd] = LlmWrites[cmd] /\ cmd \in DOMAIN LlmCmd
  BY <1>3, <1>7 DEF LlmCmd, Both
<1>9. DOMAIN FullGuide = DOMAIN SkillReads \cup DOMAIN SkillWrites
  BY <1>0 DEF FullGuide, Both
<1> QED
  BY <1>2, <1>3, <1>4, <1>5, <1>6, <1>8, <1>9

\* The guide's own entry, for a request that gives every field.
LEMMA GuideIsFull ==
  /\ DOMAIN SkillGuide = DOMAIN FullGuide
  /\ \A cmd \in DOMAIN SkillGuide : DOMAIN SkillGuide[cmd].needed \subseteq DOMAIN FullGuide[cmd].needed
  /\ \A cmd \in DOMAIN SkillGuide : \A req :
       req.cmd = cmd /\ Follows(req, SkillGuide[cmd]) /\ GivesRuleFields(req)
         => Follows(req, FullGuide[cmd])
<1>1. /\ DOMAIN SkillGuide = DOMAIN FullGuide
      /\ \A cmd \in DOMAIN SkillGuide : cmd # "update_rule" => SkillGuide[cmd] = FullGuide[cmd]
  BY DEF SkillGuide, FullGuide, FullWrites, SkillWrites, Both
<1>2. /\ SkillGuide["update_rule"] = Doc([rule_id |-> Whole], Both(RuleFields, RuleExtras))
      /\ FullGuide["update_rule"] = FullUpdate
  BY DEF SkillGuide, FullGuide, FullWrites, SkillReads, SkillWrites, Both
<1>3. /\ SkillGuide["update_rule"].needed = [rule_id |-> Whole]
      /\ SkillGuide["update_rule"].optional = Both(RuleFields, RuleExtras)
      /\ FullUpdate.needed = Both([rule_id |-> Whole], RuleFields)
      /\ FullUpdate.optional = RuleExtras
  BY <1>2 DEF FullUpdate, Doc
<1>4. DOMAIN SkillGuide["update_rule"].needed \subseteq DOMAIN FullUpdate.needed
  BY <1>3 DEF Both
<1>5. ASSUME NEW req, req.cmd = "update_rule", Follows(req, SkillGuide["update_rule"]),
             GivesRuleFields(req)
      PROVE  Follows(req, FullUpdate)
  <2>1. /\ req.object /\ "rule_id" \in DOMAIN req.params /\ req.params["rule_id"] \in Whole
        /\ \A key \in DOMAIN RuleFields \cup DOMAIN RuleExtras :
             key \in DOMAIN req.params => req.params[key] \in Both(RuleFields, RuleExtras)[key]
    BY <1>3, <1>5 DEF Follows, Both
  <2>2. DOMAIN RuleFields \subseteq DOMAIN req.params
    BY <1>5 DEF GivesRuleFields
  <2>3. /\ \A key \in DOMAIN RuleFields : Both(RuleFields, RuleExtras)[key] = RuleFields[key]
        /\ \A key \in DOMAIN RuleExtras : Both(RuleFields, RuleExtras)[key] = RuleExtras[key]
    BY DEF Both, RuleFields, RuleExtras
  <2>4. /\ DOMAIN FullUpdate.needed = {"rule_id"} \cup DOMAIN RuleFields
        /\ FullUpdate.needed["rule_id"] = Whole
        /\ \A key \in DOMAIN RuleFields : FullUpdate.needed[key] = RuleFields[key]
    BY <1>3 DEF Both, RuleFields
  <2> QED
    BY <1>3, <2>1, <2>2, <2>3, <2>4 DEF Follows
<1> QED
  BY <1>1, <1>2, <1>4, <1>5

\* Nothing that AppSqlProxy binds can throw.
IsTotal(c) == c.sql = <<>> /\ \A i \in DOMAIN c.binds : c.binds[i][1] \in Total

LEMMA AppTotal == \A cmd \in DOMAIN AppCmd : IsTotal(AppCmd[cmd])
<1>1. \A key : IsTotal(ByUuid(key)) /\ IsTotal(ByInt(key)) /\ IsTotal(All)
  BY DEF IsTotal, Total, ByUuid, ByInt, All, Cmd
<1>2. \A cmd \in DOMAIN AppReads : IsTotal(AppReads[cmd])
  BY <1>1 DEF AppReads
<1>3. \A cmd \in DOMAIN AppProfileWrites : IsTotal(AppProfileWrites[cmd])
  <2>1. IsTotal(AppProfileWrites.insert_user_profile) /\ IsTotal(AppProfileWrites.update_user_profile)
    BY DEF AppProfileWrites, IsTotal, Total, Cmd
  <2>2. IsTotal(AppProfileWrites.delete_user_profile)
    BY <1>1 DEF AppProfileWrites
  <2>3. DOMAIN AppProfileWrites = {"insert_user_profile", "update_user_profile", "delete_user_profile"}
    BY DEF AppProfileWrites
  <2> QED
    BY <2>1, <2>2, <2>3
<1> QED
  BY <1>2, <1>3 DEF AppCmd, Both

LEMMA NoSuchCommand == {"absent", "noText"} \cap (DOMAIN AppCmd \cup DOMAIN LlmCmd) = {}
BY DEF AppCmd, AppReads, AppProfileWrites, LlmCmd, LlmReads, LlmRowReads, LlmRecordReads,
       EventRuleReads, LlmWrites, LlmRuleWrites, EventRuleWrites, Both

------------------------------------------------------------------------------
(* Requests.                                                               *)

\* A request that follows the guide has what the command needs, all of it bound.
LEMMA Followed ==
  ASSUME NEW req, NEW doc, NEW command, IsCommand(command), Fits(doc, command), Follows(req, doc)
  PROVE  /\ ValidateParams(command.needs, req.params)
         /\ BindParams(command.sql, req.params) = "bound"
         /\ BindParams(command.binds, req.params) = "bound"
<1>1. ValidateParams(command.needs, req.params)
  BY DEF Fits, Follows, ValidateParams, Given
<1>2. ASSUME NEW step, step[1] \in StepKind, BindsAll(doc, step)
      PROVE  Bind(req.params, step) = "bound"
  <2>1. CASE step[2] \in DOMAIN req.params
    <3>1. Given(req.params, step[2], Binds(step[1]))
      BY <1>2, <2>1 DEF BindsAll, Follows, Given
    <3> QED
      BY <1>2, <3>1, BindOne
  <2>2. CASE step[2] \notin DOMAIN req.params
    <3>1. step[1] \in OrDefault
      BY <1>2, <2>2 DEF BindsAll, Follows
    <3> QED
      BY <1>2, <2>2, <3>1, BindOne
  <2> QED
    BY <2>1, <2>2
<1>3. /\ \A i \in DOMAIN command.binds : Bind(req.params, command.binds[i]) = "bound"
      /\ \A i \in DOMAIN command.sql : Bind(req.params, command.sql[i]) = "bound"
  BY <1>2 DEF IsCommand, Steps, Fits
<1> QED
  BY <1>1, <1>3, BindAll DEF IsCommand

\* One answer, and ok for a statement that worked.
Fair(out, works) ==
    /\ Len(out.answers) = 1
    /\ out.answers = <<"ok">> <=> out.executed /\ works
    /\ out.executed => ~out.left /\ out.answers \in {<<"ok">>, <<"SqlError">>}

LEMMA Executed ==
  ASSUME NEW command, NEW params, NEW works \in BOOLEAN, IsCommand(command)
  PROVE  LET out == Execute(command, params, works)
         IN  /\ Fair(out, works)
             /\ BindParams(command.binds, params) = "bound" => out.executed
             /\ IsTotal(command) => out.answers # <<"thrown">>
<1>1. BindParams(command.binds, params) \in {"bound", "failed", "thrown"}
  BY BindAll DEF IsCommand
<1>2. CASE BindParams(command.binds, params) = "bound"
  BY <1>2 DEF Execute, Outcome, Fair
<1>3. CASE BindParams(command.binds, params) = "failed"
  BY <1>3 DEF Execute, Outcome, Refused, Fair
<1>4. CASE BindParams(command.binds, params) = "thrown"
  <2>1. ~IsTotal(command)
    BY <1>4, BindAll DEF IsTotal, IsCommand
  <2> QED
    BY <1>4, <2>1 DEF Execute, Outcome, Fair
<1> QED
  BY <1>1, <1>2, <1>3, <1>4

LEMMA Processed ==
  ASSUME NEW router, NEW req, IsRequest(req), {"absent", "noText"} \cap DOMAIN router = {},
         \A cmd \in DOMAIN router : IsCommand(router[cmd])
  PROVE  LET out == ProcessRequest(router, req)
         IN  /\ Fair(out, req.works)
             /\ (\A cmd \in DOMAIN router : IsTotal(router[cmd])) => out.answers # <<"thrown">>
             /\ \A doc : req.cmd \in DOMAIN router /\ Fits(doc, router[req.cmd]) =>
                  /\ Follows(req, doc) => out.executed
                  /\ ~(DOMAIN doc.needed \subseteq DOMAIN req.params) => out = Refused("InvalidParams")
<1> DEFINE out == ProcessRequest(router, req)
           command == router[req.cmd]
<1>1. Fair(Refused("MissingField"), req.works) /\ Fair(Refused("UnknownCmd"), req.works)
        /\ Fair(Refused("InvalidParams"), req.works) /\ Fair(Refused("thrown"), req.works)
  BY DEF Fair, Refused, Outcome
<1>2. CASE req.cmd \notin DOMAIN router
  BY <1>1, <1>2 DEF ProcessRequest, Refused, Outcome
<1>3. CASE req.cmd \in DOMAIN router /\ ~ValidateParams(command.needs, req.params)
  <2>1. out = Refused("InvalidParams")
    BY <1>3 DEF ProcessRequest
  <2>2. \A doc : Fits(doc, command) => ~Follows(req, doc)
    BY <1>3, Followed
  <2> QED
    BY <1>1, <2>1, <2>2 DEF Refused, Outcome
<1>4. CASE req.cmd \in DOMAIN router /\ ValidateParams(command.needs, req.params)
  <2>1. \A doc : Fits(doc, command) => DOMAIN doc.needed \subseteq DOMAIN req.params
    BY <1>4 DEF ValidateParams, Given, Fits
  <2>4. CASE command.sql # <<>> /\ ~req.object
    <3>1. out = Refused("thrown")
      BY <1>4, <2>4 DEF ProcessRequest
    <3>2. \A doc : ~Follows(req, doc)
      BY <2>4 DEF Follows
    <3>3. ~IsTotal(command)
      BY <2>4 DEF IsTotal
    <3> QED
      BY <1>1, <1>4, <2>1, <3>1, <3>2, <3>3
  <2>2. CASE BindParams(command.sql, req.params) # "bound"
    <3>1. out = Refused("thrown")
      BY <1>4, <2>2 DEF ProcessRequest
    <3>2. \A doc : Fits(doc, command) => ~Follows(req, doc)
      BY <1>4, <2>2, Followed
    <3>3. ~IsTotal(command)
      <4>1. BindParams(<<>>, req.params) = "bound"
        BY DEF BindParams
      <4> QED
        BY <2>2, <4>1 DEF IsTotal
    <3> QED
      BY <1>1, <1>4, <2>1, <3>1, <3>2, <3>3
  <2>3. CASE ~(command.sql # <<>> /\ ~req.object) /\ BindParams(command.sql, req.params) = "bound"
    <3>1. out = Execute(command, req.params, req.works)
      BY <1>4, <2>3 DEF ProcessRequest
    <3>2. \A doc : Fits(doc, command) /\ Follows(req, doc) => BindParams(command.binds, req.params) = "bound"
      BY <1>4, Followed
    <3> QED
      BY <1>4, <2>1, <3>1, <3>2, Executed DEF IsRequest
  <2> QED
    BY <2>2, <2>3, <2>4
<1> QED
  BY <1>2, <1>3, <1>4

\* What either proxy makes of a request.
Served(guide, known, req, out) ==
    /\ Fair(out, req.works)
    /\ known =>
         LET doc == guide[req.cmd]
         IN  /\ Follows(req, doc) => out.executed
             /\ ~(DOMAIN doc.needed \subseteq DOMAIN req.params) => out = Refused("InvalidParams")

\* What OnSqlRequest throws on, it does not answer.
Unanswered == Outcome(<<>>, FALSE, FALSE)

LEMMA AppServed ==
  ASSUME NEW req, IsRequest(req)
  PROVE  /\ ThrowsOverMqtt(req) => OnSqlRequest(req) = Unanswered
         /\ ~ThrowsOverMqtt(req) =>
              Served(AppGuide, req.payload = "object" /\ req.msg_id = "text" /\ req.cmd \in DOMAIN AppGuide,
                     req, OnSqlRequest(req))
<1> DEFINE out == ProcessRequest(AppCmd, req)
<1>1. /\ Fair(out, req.works) /\ out.answers # <<"thrown">>
      /\ \A doc : req.cmd \in DOMAIN AppCmd /\ Fits(doc, AppCmd[req.cmd]) =>
           /\ Follows(req, doc) => out.executed
           /\ ~(DOMAIN doc.needed \subseteq DOMAIN req.params) => out = Refused("InvalidParams")
  BY Processed, Routers, AppTotal, NoSuchCommand
<1>2. Fair(Refused("InvalidJson"), req.works) /\ Fair(Refused("MissingField"), req.works)
  BY DEF Fair, Refused, Outcome
<1>3. req.msg_id \in {"text", "absent", "noText"} /\ req.payload \in {"object", "noObject", "broken"}
  BY DEF IsRequest
<1>4. ~ThrowsOverMqtt(req) =>
        OnSqlRequest(req) \in {Refused("InvalidJson"), Refused("MissingField"), out}
  BY <1>1, <1>3 DEF OnSqlRequest, ThrowsOverMqtt
<1>5. req.payload = "object" /\ req.msg_id = "text" => OnSqlRequest(req) = out
  BY <1>1 DEF OnSqlRequest
<1>6. ThrowsOverMqtt(req) => OnSqlRequest(req) = Unanswered
  BY DEF OnSqlRequest, ThrowsOverMqtt, Unanswered
<1> HIDE DEF out
<1> QED
  BY <1>1, <1>2, <1>4, <1>5, <1>6, AppFits DEF Served

LEMMA LlmServed ==
  ASSUME NEW req, IsRequest(req)
  PROVE  Served(FullGuide, req.payload = "object" /\ req.cmd \in DOMAIN FullGuide, req,
                HandleRequest(req))
<1> DEFINE out == ProcessRequest(LlmCmd, req)
<1>1. /\ Fair(out, req.works)
      /\ \A doc : req.cmd \in DOMAIN LlmCmd /\ Fits(doc, LlmCmd[req.cmd]) =>
           /\ Follows(req, doc) => out.executed
           /\ ~(DOMAIN doc.needed \subseteq DOMAIN req.params) => out = Refused("InvalidParams")
  BY Processed, Routers, NoSuchCommand
<1>2. /\ Fair(Refused("InvalidJson"), req.works) /\ Fair(Refused("500"), req.works)
      /\ Fair(Outcome(<<"500">>, FALSE, out.left), req.works)
  BY DEF Fair, Refused, Outcome
<1>3. req.cmd \in DOMAIN FullGuide => req.cmd # "noText"
  BY SkillFits, NoSuchCommand
<1>4. out.answers = <<"thrown">> => ~out.executed /\ out # Refused("InvalidParams")
  BY <1>1 DEF Fair, Refused, Outcome
<1>5. HandleRequest(req) \in
        {Refused("InvalidJson"), Refused("500"), Outcome(<<"500">>, FALSE, out.left), out}
  BY DEF HandleRequest
<1>6. req.payload = "object" /\ req.cmd # "noText" /\ out.answers # <<"thrown">> =>
        HandleRequest(req) = out
  BY DEF HandleRequest
<1> HIDE DEF out
<1> QED
  BY <1>1, <1>2, <1>3, <1>4, <1>5, <1>6, SkillFits DEF Served

\* The request is one that a proxy may be sent; its outcome is what the proxy made
\* of it.
RequestInv ==
    /\ proxy \in {"app", "llm"} /\ IsRequest(request)
    /\ outcome # NotYet =>
         outcome = <<IF proxy = "app" THEN OnSqlRequest(request) ELSE HandleRequest(request)>>

\* Both proxies keep RequestsAreServed for every request: whatever is wrong with its
\* payload, its msg_id or its params, whatever parameters it has and whatever other
\* ones it has with them.
THEOREM RequestsServed == RequestSpec => []RequestsAreServed
<1>1. RequestInit => RequestInv
  BY RequestAssumption DEF RequestInit, RequestInv
<1>2. RequestInv /\ [HandleSqlRequest]_requestVars => RequestInv'
  BY DEF RequestInv, HandleSqlRequest, requestVars
<1>3. RequestInv => RequestsAreServed
  <2> SUFFICES ASSUME RequestInv, outcome # NotYet PROVE RequestsAreServed
    BY DEF RequestsAreServed
  <2>1. CASE proxy = "app"
    <3>1. outcome[1] = OnSqlRequest(request)
      BY <2>1 DEF RequestInv
    <3>2. CASE ThrowsOverMqtt(request)
      <4>1. outcome[1] = Unanswered
        BY <3>1, <3>2, AppServed DEF RequestInv
      <4>2. ~Known
        BY <2>1, <3>2 DEF Known, ThrowsOverMqtt
      <4> QED
        BY <2>1, <3>2, <4>1, <4>2 DEF RequestsAreServed, Unanswered, Outcome
    <3>3. CASE ~ThrowsOverMqtt(request)
      <4>1. Served(AppGuide, request.payload = "object" /\ request.msg_id = "text"
                               /\ request.cmd \in DOMAIN AppGuide, request, outcome[1])
        BY <3>1, <3>3, AppServed DEF RequestInv
      <4>2. Guide = AppGuide
        BY <2>1 DEF Guide
      <4> QED
        BY <2>1, <3>3, <4>1, <4>2 DEF RequestsAreServed, Known, Served, Fair, Refused, Outcome
    <3> QED
      BY <3>2, <3>3
  <2>2. CASE proxy = "llm"
    <3>1. outcome[1] = HandleRequest(request)
      BY <2>2 DEF RequestInv
    <3>2. Served(FullGuide, request.payload = "object" /\ request.cmd \in DOMAIN FullGuide, request,
                 outcome[1])
      BY <3>1, LlmServed DEF RequestInv
    <3>3. Guide = SkillGuide /\ proxy # "app"
      BY <2>2 DEF Guide
    <3>4. Known => /\ request.payload = "object" /\ request.cmd \in DOMAIN FullGuide
                   /\ DOMAIN Guide[request.cmd].needed \subseteq DOMAIN FullGuide[request.cmd].needed
                   /\ Follows(request, Guide[request.cmd]) /\ GivesRuleFields(request)
                        => Follows(request, FullGuide[request.cmd])
      BY <3>3, GuideIsFull DEF Known
    <3>5. /\ Known /\ Follows(request, Guide[request.cmd]) /\ GivesRuleFields(request)
               => outcome[1].executed
          /\ Known /\ ~(DOMAIN Guide[request.cmd].needed \subseteq DOMAIN request.params)
               => outcome[1] = Refused("InvalidParams")
      BY <3>2, <3>4 DEF Served
    <3>6. Fair(outcome[1], request.works)
      BY <3>2 DEF Served
    <3> QED
      BY <3>3, <3>5, <3>6 DEF RequestsAreServed, Fair, Refused, Outcome
  <2> QED
    BY <2>1, <2>2 DEF RequestInv
<1> QED
  BY <1>1, <1>2, <1>3, PTL DEF RequestSpec

------------------------------------------------------------------------------
(* Prompts.                                                                *)

\* A bounded set of naturals has a greatest element.
LEMMA Greatest ==
  ASSUME NEW n \in Nat, NEW S, S \subseteq 1..n, S # {}
  PROVE  \E i \in S : \A j \in S : j <= i
<1> DEFINE T == {n - i : i \in S}
<1>1. T \subseteq Nat /\ T # {}
  <2>1. \A i \in S : i \in 1..n
    OBVIOUS
  <2>2. \A i \in 1..n : n - i \in Nat
    OBVIOUS
  <2>3. PICK i \in S : TRUE
    OBVIOUS
  <2> QED
    BY <2>1, <2>2, <2>3
<1>2. PICK t \in T : \A u \in T : t <= u
  <2> HIDE DEF T
  <2> QED
    BY <1>1, Least
<1>3. PICK i \in S : t = n - i
  BY <1>2
<1>4. \A j \in S : n - i <= n - j
  BY <1>2, <1>3
<1>5. \A a, b \in 1..n : n - a <= n - b => b <= a
  OBVIOUS
<1>6. i \in 1..n /\ \A j \in S : j \in 1..n
  OBVIOUS
<1> QED
  BY ONLY <1>4, <1>5, <1>6, n \in Nat, i \in S

\* What IsHistoryComplete reads of an object is what the object reports.
LEMMA ObjectReports ==
  ASSUME NEW h, IsHistory(h), NEW p \in DOMAIN h
  PROVE  /\ Decides(h[p]) <=> Reports(h[p])
         /\ Decides(h[p]) => (IsDone(h[p]) <=> ReportsDone(h[p]))
<1> DEFINE object == h[p]
           messages == object.messages
<1>1. CASE Has(object, "status")
  BY <1>1 DEF Decides, IsDone, Reports, ReportsDone
<1>2. CASE ~Has(object, "status") /\ ~(Has(object, "messages") /\ Said(messages) # {})
  BY <1>2 DEF Decides, Reports, Said, Latest
<1>3. CASE ~Has(object, "status") /\ Has(object, "messages") /\ Said(messages) # {}
  <2> DEFINE said == Said(messages)
             latest == CHOOSE i \in said : \A j \in said : j <= i
  <2>1. Len(messages) \in Nat /\ DOMAIN messages = 1..Len(messages)
    BY <1>3 DEF IsHistory
  <2>2. said \subseteq 1..Len(messages)
    BY <2>1 DEF Said
  <2>3. \E i \in said : \A j \in said : j <= i
    BY <1>3, <2>1, <2>2, Greatest
  <2>4. latest \in said /\ \A j \in said : j <= latest
    BY <2>3
  <2> HIDE DEF latest
  <2>5. \A i : i \in DOMAIN messages /\ Latest(messages, i) <=> i = latest
    <3> DEFINE all == messages
    <3>1. /\ latest \in 1..Len(all) /\ all[latest].role = "assistant"
          /\ \A j \in 1..Len(all) : all[j].role = "assistant" => j <= latest
      BY <2>1, <2>4 DEF Said
    <3>2. DOMAIN all = 1..Len(all) /\ Len(all) \in Nat
      BY <2>1
    <3> HIDE DEF all
    <3>3. Latest(all, latest)
      BY <3>1, <3>2 DEF Latest
    <3>4. \A i \in 1..Len(all) : Latest(all, i) => i = latest
      BY <3>1, <3>2 DEF Latest
    <3> QED
      BY <3>1, <3>2, <3>3, <3>4 DEF all
  <2>6. Decides(object) /\ Reports(object)
    BY <1>3, <2>5 DEF Decides, Reports
  <2>7. IsDone(object) <=> Has(messages[latest], "status") /\ messages[latest].status \in DoneStatus
    BY <1>3 DEF IsDone, latest
  <2> QED
    BY <1>3, <2>5, <2>6, <2>7 DEF ReportsDone
<1> QED
  BY <1>1, <1>2, <1>3

\* Paths.
Path == Seq({"result", "data"})

LEMMA Prefixes ==
  ASSUME NEW p \in Path
  PROVE  /\ Upto(p, 0) = <<>> /\ Upto(p, Len(p)) = p
         /\ \A n \in 1..Len(p) : Append(Upto(p, n - 1), p[n]) = Upto(p, n)
<1>1. Upto(p, 0) = <<>>
  BY DEF Upto
<1>2. Upto(p, Len(p)) = p
  BY DEF Upto, Path
<1>3. ASSUME NEW n \in 1..Len(p)
      PROVE  Append(Upto(p, n - 1), p[n]) = Upto(p, n)
  <2>1. Upto(p, n - 1) \in Path /\ Len(Upto(p, n - 1)) = n - 1
    BY DEF Upto, Path
  <2>2. Upto(p, n) \in Path /\ Len(Upto(p, n)) = n
    BY DEF Upto, Path
  <2>3. p[n] \in {"result", "data"}
    BY DEF Path
  <2>4. \A i \in 1..n - 1 : Upto(p, n - 1)[i] = p[i]
    BY DEF Upto
  <2>5. \A i \in 1..n : Upto(p, n)[i] = p[i]
    BY DEF Upto
  <2>6. Append(Upto(p, n - 1), p[n]) \in Path /\ Len(Append(Upto(p, n - 1), p[n])) = n
    BY <2>1, <2>3 DEF Path
  <2>7. \A i \in 1..n : Append(Upto(p, n - 1), p[n])[i] = Upto(p, n)[i]
    BY <2>1, <2>3, <2>4, <2>5 DEF Path
  <2> QED
    BY <2>2, <2>6, <2>7, SeqEqual DEF Path
<1> QED
  BY <1>1, <1>2, <1>3

\* There is one way down.
LEMMA OneWay ==
  ASSUME NEW h, IsHistory(h), NEW p \in DOMAIN h, NEW q \in DOMAIN h,
         OnTheWay(h, p), OnTheWay(h, q), NEW n \in Nat, n <= Len(p), n <= Len(q)
  PROVE  Upto(p, n) = Upto(q, n)
<1> DEFINE S == {m \in 0..n : Upto(p, m) # Upto(q, m)}
<1>0. p \in Path /\ q \in Path /\ Len(p) \in Nat /\ Len(q) \in Nat
  BY DEF IsHistory, Path
<1>1. ASSUME S # {} PROVE FALSE
  <2>1. PICK m \in S : \A k \in S : m <= k
    <3>1. S \subseteq Nat
      OBVIOUS
    <3> HIDE DEF S
    <3> QED
      BY <1>1, <3>1, Least
  <2>2. m \in 1..n
    BY <1>0, <2>1, Prefixes
  <2>3. Upto(p, m - 1) = Upto(q, m - 1)
    BY <2>1, <2>2
  <2>4. m \in 1..Len(p) /\ m \in 1..Len(q)
    BY <1>0, <2>2
  <2>5. /\ Append(Upto(p, m - 1), p[m]) = Upto(p, m)
        /\ Append(Upto(q, m - 1), q[m]) = Upto(q, m)
    BY <1>0, <2>4, Prefixes
  <2>6. p[m] # q[m]
    BY <2>1, <2>3, <2>5
  <2>7. p[m] \in {"result", "data"} /\ q[m] \in {"result", "data"}
    BY <1>0, <2>4 DEF Path
  <2>8. Upto(p, m) \in DOMAIN h /\ Upto(q, m) \in DOMAIN h
    BY <1>0, <2>4 DEF IsHistory
  <2>9. CASE p[m] = "data" /\ q[m] = "result"
    <3>1. Append(Upto(p, m - 1), "result") = Upto(q, m)
      BY <2>3, <2>5, <2>9
    <3> QED
      BY <2>4, <2>8, <2>9, <3>1 DEF OnTheWay
  <2>10. CASE p[m] = "result" /\ q[m] = "data"
    <3>1. Append(Upto(q, m - 1), "result") = Upto(p, m)
      BY <2>3, <2>5, <2>10
    <3> QED
      BY <2>4, <2>8, <2>10, <3>1 DEF OnTheWay
  <2> QED
    BY <2>6, <2>7, <2>9, <2>10
<1> QED
  BY <1>1

LEMMA Compared ==
  ASSUME NEW h, IsHistory(h), NEW p \in DOMAIN h, NEW q \in DOMAIN h,
         OnTheWay(h, p), OnTheWay(h, q)
  PROVE  \/ q = p
         \/ Len(q) \in 0..Len(p) - 1 /\ q = Upto(p, Len(q))
         \/ Len(p) \in 0..Len(q) - 1 /\ p = Upto(q, Len(p))
<1>1. p \in Path /\ q \in Path /\ Len(p) \in Nat /\ Len(q) \in Nat
  BY DEF IsHistory, Path
<1>2. Upto(p, Len(p)) = p /\ Upto(q, Len(q)) = q
  BY <1>1, Prefixes
<1>3. Len(q) <= Len(p) => q = Upto(p, Len(q))
  BY <1>1, <1>2, OneWay
<1>4. Len(p) <= Len(q) => p = Upto(q, Len(p))
  BY <1>1, <1>2, OneWay
<1> QED
  BY <1>1, <1>2, <1>3, <1>4

\* The first object that reports decides, and nothing below it counts.
LEMMA FirstReportCounts ==
  ASSUME NEW h, IsHistory(h), NEW p \in DOMAIN h, OnTheWay(h, p), SilentAbove(h, p), Reports(h[p])
  PROVE  IsComplete(h) <=> ReportsDone(h[p])
<1>1. ASSUME NEW q \in DOMAIN h, OnTheWay(h, q), SilentAbove(h, q), Reports(h[q])
      PROVE  q = p
  BY <1>1, Compared DEF SilentAbove
<1> QED
  BY <1>1 DEF IsComplete

LEMMA NoReport ==
  ASSUME NEW h, IsHistory(h), NEW p \in DOMAIN h, OnTheWay(h, p), SilentAbove(h, p), ~Reports(h[p]),
         Append(p, "result") \notin DOMAIN h, Append(p, "data") \notin DOMAIN h
  PROVE  ~IsComplete(h)
<1>1. ASSUME NEW q \in DOMAIN h, OnTheWay(h, q), SilentAbove(h, q), Reports(h[q])
      PROVE  FALSE
  <2>1. Len(p) \in 0..Len(q) - 1 /\ p = Upto(q, Len(p))
    BY <1>1, Compared DEF SilentAbove
  <2>2. q \in Path /\ Len(q) \in Nat
    BY DEF IsHistory, Path
  <2> DEFINE n == Len(p) + 1
  <2>3. n \in 1..Len(q) /\ n - 1 = Len(p)
    BY <2>1, <2>2
  <2> HIDE DEF n
  <2>4. Append(p, q[n]) = Upto(q, n)
    <3>1. Append(Upto(q, n - 1), q[n]) = Upto(q, n)
      BY <2>2, <2>3, Prefixes
    <3> QED
      BY <2>1, <2>3, <3>1
  <2>5. Upto(q, n) \in DOMAIN h
    BY <2>2, <2>3 DEF IsHistory
  <2>6. q[n] \in {"result", "data"}
    BY <2>2, <2>3 DEF Path
  <2> QED
    BY <2>4, <2>5, <2>6
<1> QED
  BY <1>1 DEF IsComplete

LEMMA OneDown ==
  ASSUME NEW h, IsHistory(h), NEW p \in DOMAIN h, OnTheWay(h, p), SilentAbove(h, p), ~Reports(h[p]),
         NEW key \in {"result", "data"},
         key = "data" => Append(p, "result") \notin DOMAIN h
  PROVE  OnTheWay(h, Append(p, key)) /\ SilentAbove(h, Append(p, key))
<1> DEFINE q == Append(p, key)
<1>1. p \in Path /\ Len(p) \in Nat /\ Upto(p, Len(p)) = p
  <2>1. p \in Path
    BY DEF IsHistory, Path
  <2> QED
    BY <2>1, Prefixes DEF Path
<1>2. Len(q) = Len(p) + 1 /\ q[Len(p) + 1] = key /\ \A i \in 1..Len(p) : q[i] = p[i]
  BY <1>1 DEF Path
<1>3. \A n \in 0..Len(p) : Upto(q, n) = Upto(p, n)
  BY <1>1, <1>2 DEF Upto
<1> HIDE DEF q
<1>4. ASSUME NEW n \in 1..Len(q), q[n] = "data"
      PROVE  Append(Upto(q, n - 1), "result") \notin DOMAIN h
  <2>1. CASE n <= Len(p)
    <3>1. n \in 1..Len(p) /\ n - 1 \in 0..Len(p)
      BY <1>1, <2>1
    <3> QED
      BY <1>2, <1>3, <1>4, <3>1 DEF OnTheWay
  <2>2. CASE n = Len(p) + 1
    BY <1>1, <1>2, <1>3, <1>4, <2>2
  <2> QED
    BY <1>1, <1>2, <2>1, <2>2
<1>5. ASSUME NEW n \in 0..Len(q) - 1 PROVE ~Reports(h[Upto(q, n)])
  <2>1. n = Len(p) \/ n \in 0..Len(p) - 1
    BY <1>1, <1>2
  <2> QED
    BY <1>1, <1>3, <2>1 DEF SilentAbove
<1> QED
  BY <1>4, <1>5 DEF OnTheWay, SilentAbove, q

\* What a poll returns, and one that IsHistoryComplete must not miss.

Reply == {NoReply} \cup {<<h>> : h \in Histories}

Unnoticed(reply) == reply # NoReply /\ IsComplete(reply[1])

\* A request that is under way was complete and has no answer; no poll that was
\* looked at was complete, and the history that is being looked at says nothing
\* above the object in hand.
LlmTypes ==
    /\ payload.json \in BOOLEAN /\ running \in BOOLEAN
    /\ polls \in Seq(Reply) /\ Len(polls) <= MaxPollAttempts
    /\ stage \in {"arrived", "queued", "polling", "asleep", "looking", "ended"}

StagesOK ==
    /\ stage \in {"arrived", "queued"} => polls = <<>>
    /\ stage \notin {"arrived", "ended"} => payload.json /\ "" \notin {payload.msg_id, payload.prompt}
    /\ stage \in {"polling", "asleep", "looking"} => accepted
    /\ stage = "asleep" => Len(polls) < MaxPollAttempts
    /\ stage \in {"polling", "asleep"} => \A i \in 1..Len(polls) : ~Unnoticed(polls[i])
    /\ stage = "looking" =>
         /\ \A i \in 1..Len(polls) - 1 : ~Unnoticed(polls[i])
         /\ polls # <<>> /\ polls[Len(polls)] # NoReply
         /\ path \in DOMAIN History /\ OnTheWay(History, path) /\ SilentAbove(History, path)

LlmInv == LlmTypes /\ StagesOK /\ PromptIsAnswered

LEMMA LlmInitOK == LlmInit => LlmInv
BY PollAssumption DEF LlmInit, LlmInv, LlmTypes, StagesOK, PromptIsAnswered

LEMMA Counting ==
  ASSUME LlmTypes
  PROVE  /\ MaxPollAttempts \in Nat \ {0} /\ Len(polls) \in Nat /\ DOMAIN polls = 1..Len(polls)
         /\ \A i \in 1..Len(polls) : polls[i] \in Reply
         /\ polls # <<>> => Len(polls) > 0
<1> HIDE DEF Reply
<1> QED
  BY PollAssumption DEF LlmTypes

LEMMA OneMore ==
  ASSUME LlmTypes, NEW reply \in Reply
  PROVE  LET longer == Append(polls, reply)
         IN  /\ longer \in Seq(Reply) /\ Len(longer) = Len(polls) + 1 /\ longer # <<>>
             /\ longer[Len(polls) + 1] = reply
             /\ \A i \in 1..Len(polls) : longer[i] = polls[i]
<1> HIDE DEF Reply
<1> QED
  BY DEF LlmTypes

\* What is known of the history that is being looked at.
LEMMA Looking ==
  ASSUME LlmInv, stage = "looking"
  PROVE  /\ Len(polls) \in Nat \ {0} /\ IsHistory(History)
         /\ polls[Len(polls)] # NoReply
         /\ path \in Path /\ Reports(History[path]) \in BOOLEAN
         /\ Decides(History[path]) => (IsDone(History[path]) <=> IsComplete(History))
         /\ ~Decides(History[path]) /\ {Below("result"), Below("data")} \cap DOMAIN History = {} =>
              ~IsComplete(History)
         /\ \A key \in {"result", "data"} :
              ~Decides(History[path]) /\ (key = "data" => Below("result") \notin DOMAIN History) =>
                OnTheWay(History, Below(key)) /\ SilentAbove(History, Below(key))
<1>1. Len(polls) \in Nat \ {0} /\ polls[Len(polls)] \in Reply /\ polls[Len(polls)] # NoReply
  <2>1. polls # <<>> /\ polls[Len(polls)] # NoReply
    BY DEF LlmInv, StagesOK
  <2>2. Len(polls) \in 1..Len(polls) /\ Len(polls) \in Nat \ {0}
    BY <2>1, Counting DEF LlmInv
  <2> QED
    BY <2>1, <2>2, Counting DEF LlmInv
<1>2. History \in Histories
  BY <1>1 DEF Reply, History
<1>3. IsHistory(History)
  BY <1>2, PollAssumption
<1>4. /\ path \in DOMAIN History /\ OnTheWay(History, path) /\ SilentAbove(History, path)
      /\ Decides(History[path]) <=> Reports(History[path])
      /\ Decides(History[path]) => (IsDone(History[path]) <=> ReportsDone(History[path]))
  BY <1>3, ObjectReports DEF LlmInv, StagesOK
<1>5. path \in Path
  BY <1>3, <1>4 DEF IsHistory, Path
<1>6. Decides(History[path]) => (IsComplete(History) <=> ReportsDone(History[path]))
  BY <1>3, <1>4, FirstReportCounts
<1>7. ~Decides(History[path]) /\ {Below("result"), Below("data")} \cap DOMAIN History = {} =>
        ~IsComplete(History)
  BY <1>3, <1>4, NoReport DEF Below
<1>8. \A key \in {"result", "data"} :
        ~Decides(History[path]) /\ (key = "data" => Below("result") \notin DOMAIN History) =>
          OnTheWay(History, Below(key)) /\ SilentAbove(History, Below(key))
  BY <1>3, <1>4, OneDown DEF Below
<1> QED
  BY <1>1, <1>3, <1>4, <1>5, <1>6, <1>7, <1>8 DEF Reports

LEMMA GoesOn ==
  ASSUME stage' # "ended", answers' = <<>>
  PROVE  PromptIsAnswered'
BY DEF PromptIsAnswered

LEMMA LlmStepOK == LlmInv /\ [LlmNext]_llmVars => LlmInv'
<1> SUFFICES ASSUME LlmInv, [LlmNext]_llmVars PROVE LlmInv'
  OBVIOUS
<1>0. LlmTypes /\ StagesOK /\ PromptIsAnswered
  BY DEF LlmInv
<1>a. /\ MaxPollAttempts \in Nat \ {0} /\ Len(polls) \in Nat /\ DOMAIN polls = 1..Len(polls)
      /\ stage # "ended" => answers = <<>>
  BY <1>0, Counting DEF PromptIsAnswered
<1>b. Append(<<>>, 0) = <<0>> /\ Append(<<>>, 1) = <<1>> /\ Append(<<>>, 2) = <<2>>
        /\ Append(<<>>, 3) = <<3>> /\ Append(<<>>, 4) = <<4>>
  OBVIOUS
<1>c. stage' \in {"polling", "asleep", "looking", "queued"} /\ answers' = <<>> => PromptIsAnswered'
  BY GoesOn
<1>1. CASE StopPolling
  BY <1>0, <1>1 DEF StopPolling, LlmInv, LlmTypes, StagesOK, PromptIsAnswered, History
<1>2. CASE OnLlmRequest
  <2>1. stage = "arrived" /\ UNCHANGED <<payload, running, accepted, polls, path>>
    BY <1>2 DEF OnLlmRequest
  <2>2. CASE stage' = "queued"
    BY <1>0, <1>2, <1>a, <1>c, <2>1, <2>2 DEF OnLlmRequest, SendLlmResponse, NoResponse, LlmInv, LlmTypes, StagesOK
  <2>3. CASE ~payload.json
    BY <1>0, <1>2, <1>a, <1>b, <2>1, <2>3 DEF OnLlmRequest, SendLlmResponse, LlmInv, LlmTypes, StagesOK, PromptIsAnswered
  <2>4. CASE payload.json /\ "" \in {payload.msg_id, payload.prompt}
    BY <1>0, <1>2, <1>a, <1>b, <2>1, <2>4 DEF OnLlmRequest, SendLlmResponse, LlmInv, LlmTypes, StagesOK, PromptIsAnswered
  <2> QED
    BY <1>0, <1>2, <2>2, <2>3, <2>4 DEF OnLlmRequest, LlmTypes
<1>3. CASE SendPrompt
  <2>1. stage = "queued" /\ polls = <<>> /\ UNCHANGED <<payload, running, polls, path>>
    BY <1>0, <1>3 DEF SendPrompt, StagesOK
  <2>2. CASE accepted' = TRUE /\ stage' = "polling" /\ NoResponse
    <3>1. \A i \in 1..Len(polls') : ~Unnoticed(polls'[i])
      BY <2>1
    <3>2. LlmTypes' /\ PromptIsAnswered'
      BY <1>0, <1>a, <1>c, <2>1, <2>2 DEF NoResponse, LlmTypes
    <3> QED
      BY <1>0, <2>1, <2>2, <3>1, <3>2 DEF LlmInv, StagesOK
  <2>3. CASE accepted' = FALSE /\ SendLlmResponse(3)
    BY <1>0, <1>a, <1>b, <2>1, <2>3 DEF SendLlmResponse, LlmInv, LlmTypes, StagesOK, PromptIsAnswered
  <2> QED
    BY <1>3, <2>2, <2>3 DEF SendPrompt
<1>4. CASE NextAttempt
  <2>1. stage = "polling" /\ accepted /\ UNCHANGED <<payload, running, accepted, polls, path>>
    BY <1>0, <1>4 DEF NextAttempt, StagesOK
  <2>2. {i \in DOMAIN polls : Unnoticed(polls[i])} = {}
    BY <1>0, <1>a, <2>1 DEF StagesOK
  <2>3. CASE Len(polls) = MaxPollAttempts /\ SendLlmResponse(4)
    <3>1. LlmTypes' /\ StagesOK'
      BY <1>0, <2>1, <2>3 DEF SendLlmResponse, LlmTypes, StagesOK
    <3>2. PromptIsAnswered'
      BY <1>0, <1>a, <1>b, <2>1, <2>2, <2>3 DEF SendLlmResponse, StagesOK, PromptIsAnswered, Unnoticed
    <3> QED
      BY <3>1, <3>2 DEF LlmInv
  <2>4. CASE Len(polls) < MaxPollAttempts /\ running /\ stage' = "asleep" /\ NoResponse
    BY <1>0, <1>a, <1>c, <2>1, <2>4 DEF NoResponse, LlmInv, LlmTypes, StagesOK
  <2>5. CASE Len(polls) < MaxPollAttempts /\ ~running /\ stage' = "ended" /\ NoResponse
    <3>1. LlmTypes' /\ StagesOK'
      BY <1>0, <2>1, <2>5 DEF LlmTypes, StagesOK
    <3>2. PromptIsAnswered'
      BY <1>0, <1>a, <2>1, <2>2, <2>5 DEF NoResponse, StagesOK, PromptIsAnswered, Unnoticed
    <3> QED
      BY <3>1, <3>2 DEF LlmInv
  <2> QED
    BY <1>4, <2>3, <2>4, <2>5 DEF NextAttempt
<1>5. ASSUME NEW reply \in Reply, stage = "asleep", polls' = Append(polls, reply),
             UNCHANGED <<payload, running, accepted, answers>>
      PROVE  /\ polls' \in Seq(Reply) /\ Len(polls') = Len(polls) + 1 /\ Len(polls') <= MaxPollAttempts
             /\ polls' # <<>> /\ polls'[Len(polls')] = reply
             /\ \A i \in 1..Len(polls) : ~Unnoticed(polls'[i])
  <2>1. Len(polls) < MaxPollAttempts /\ \A i \in 1..Len(polls) : ~Unnoticed(polls[i])
    BY <1>0, <1>5 DEF StagesOK
  <2> HIDE DEF Reply, Unnoticed
  <2>2. LET longer == Append(polls, reply)
        IN  /\ longer \in Seq(Reply) /\ Len(longer) = Len(polls) + 1 /\ longer # <<>>
            /\ longer[Len(polls) + 1] = reply
            /\ \A i \in 1..Len(polls) : longer[i] = polls[i]
    BY <1>0, OneMore
  <2> QED
    BY <1>5, <1>a, <2>1, <2>2
<1>6. CASE PollFails
  <2>1. /\ stage = "asleep" /\ stage' = "polling" /\ polls' = Append(polls, NoReply)
        /\ UNCHANGED <<payload, running, accepted, path, answers>>
    BY <1>6 DEF PollFails
  <2>2. NoReply \in Reply /\ ~Unnoticed(NoReply)
    BY DEF Reply, Unnoticed
  <2>3. /\ polls' \in Seq(Reply) /\ Len(polls') <= MaxPollAttempts
        /\ \A i \in 1..Len(polls') : ~Unnoticed(polls'[i])
    <3> HIDE DEF Reply, Unnoticed
    <3> QED
      BY <1>5, <1>a, <2>1, <2>2
  <2> QED
    BY <1>0, <1>a, <1>c, <2>1, <2>3 DEF LlmInv, LlmTypes, StagesOK
<1>7. CASE PollSucceeds
  <2>1. PICK h \in Histories : polls' = Append(polls, <<h>>)
    BY <1>7 DEF PollSucceeds
  <2>2. /\ stage = "asleep" /\ stage' = "looking" /\ path' = <<>>
        /\ UNCHANGED <<payload, running, accepted, answers>>
    BY <1>7 DEF PollSucceeds
  <2>3. <<h>> \in Reply /\ <<h>> # NoReply
    BY DEF Reply, NoReply
  <2>4. /\ polls' \in Seq(Reply) /\ Len(polls') <= MaxPollAttempts /\ polls' # <<>>
        /\ polls'[Len(polls')] = <<h>>
        /\ \A i \in 1..Len(polls') - 1 : ~Unnoticed(polls'[i])
    <3> HIDE DEF Reply, Unnoticed
    <3> QED
      BY <1>5, <1>a, <2>1, <2>2, <2>3
  <2>5. History' = h
    BY <2>4 DEF History
  <2>6. <<>> \in DOMAIN h /\ OnTheWay(h, <<>>) /\ SilentAbove(h, <<>>)
    BY PollAssumption DEF IsHistory, OnTheWay, SilentAbove
  <2>7. LlmTypes'
    BY <1>0, <2>2, <2>4 DEF LlmTypes
  <2>8. StagesOK'
    BY <1>0, <2>2, <2>3, <2>4, <2>5, <2>6 DEF StagesOK
  <2> QED
    BY <1>a, <1>c, <2>2, <2>7, <2>8 DEF LlmInv
<1>8. CASE IsHistoryComplete
  <2>1. stage = "looking" /\ UNCHANGED <<payload, running, accepted, polls, path>>
    BY <1>8 DEF IsHistoryComplete
  <2>2. /\ Len(polls) \in Nat \ {0}
        /\ Unnoticed(polls[Len(polls)]) <=> IsComplete(History)
    BY <2>1, Looking DEF Unnoticed, History
  <2>3. \A i \in 1..Len(polls) - 1 : ~Unnoticed(polls[i])
    BY <1>0, <2>1 DEF StagesOK
  <2>4. CASE IsComplete(History)
    <3>1. stage' = "ended" /\ answers' = <<0>>
      BY <1>8, <1>a, <1>b, <2>1, <2>4, Looking DEF IsHistoryComplete, SendLlmResponse
    <3>2. {i \in DOMAIN polls : Unnoticed(polls[i])} = {Len(polls)}
      BY <1>a, <2>2, <2>3, <2>4
    <3>3. LlmTypes' /\ StagesOK'
      BY <1>0, <2>1, <3>1 DEF LlmTypes, StagesOK
    <3>4. PromptIsAnswered'
      BY <1>0, <2>1, <3>1, <3>2 DEF StagesOK, PromptIsAnswered, Unnoticed
    <3> QED
      BY <3>3, <3>4 DEF LlmInv
  <2>5. CASE ~IsComplete(History)
    <3>1. stage' = "polling" /\ answers' = <<>>
      BY <1>8, <1>a, <2>1, <2>5, Looking DEF IsHistoryComplete, NoResponse
    <3>2. \A i \in 1..Len(polls) : ~Unnoticed(polls[i])
      BY <1>a, <2>2, <2>3, <2>5
    <3> QED
      BY <1>0, <1>c, <2>1, <3>1, <3>2 DEF LlmInv, LlmTypes, StagesOK
  <2> QED
    BY <2>4, <2>5
<1>9. CASE LookBelow
  <2>1. /\ stage = "looking" /\ ~Decides(History[path])
        /\ UNCHANGED <<payload, stage, running, accepted, polls, answers>> /\ History' = History
    BY <1>9 DEF LookBelow, History
  <2>2. path' \in DOMAIN History /\ OnTheWay(History, path') /\ SilentAbove(History, path')
    BY <1>9, <2>1, Looking DEF LookBelow
  <2> QED
    BY <1>0, <1>a, <1>c, <2>1, <2>2 DEF LlmInv, LlmTypes, StagesOK
<1>10. CASE UNCHANGED llmVars
  BY <1>0, <1>10 DEF llmVars, LlmInv, LlmTypes, StagesOK, PromptIsAnswered, History
<1> QED
  BY <1>1, <1>2, <1>3, <1>4, <1>6, <1>7, <1>8, <1>9, <1>10 DEF LlmNext

\* For every prompt, every limit on the polls and whatever they return, histories of
\* any depth among them: an app gets the one answer it should, or none if the hub
\* is stopped while it polls.
THEOREM PromptAnswered == LlmSpec => []PromptIsAnswered
<1>1. LlmInv => PromptIsAnswered
  BY DEF LlmInv
<1> QED
  BY <1>1, LlmInitOK, LlmStepOK, PTL DEF LlmSpec
==================================================================================
