------------------------------ MODULE MCAlgorithms ------------------------------
(***************************************************************************)
(* The algorithms of the hub on small inputs: the conditions of rules      *)
(* (CondLine, CondLexer, CondParser, CondEvaluator), the choice of a       *)
(* subscription (TopicFilter), the requests to the SQL proxies (SqlGuides) *)
(* and to the language model (LlmRequest), and the times of the cron       *)
(* device (CronParser); and the cron device itself (CronDevice).           *)
(* A behaviour takes one input and runs its algorithm once, a line symbol  *)
(* by symbol, a condition token by token, a message level by level and a   *)
(* prompt poll by poll; or it is one of the cron device.  Each property of *)
(* an algorithm compares what came out with a definition made for reading, *)
(* not for running.                                                        *)
(***************************************************************************)
EXTENDS CondLine, CondEvaluator, TopicFilter, SqlGuides, LlmRequest, CronParser, CronDevice

VARIABLES
    input,   \* what the algorithm is run on
    output   \* the value it returned, or NotRun

vars == <<input, output, lineVars, parseVars, dispatchVars, requestVars, llmVars, cronVars>>

NotRun == <<>>

Input(of, x)  == [of |-> of, x |-> x]
Output(value) == <<value>>

------------------------------------------------------------------------------
(* Sentences: a disjunction of conjunctions of atoms.  An atom is a        *)
(* comparison, a leaf or a sentence in parentheses.                        *)

LeafText ==
    [x   |-> <<"{", "event", ".", "x", "}">>,
     d   |-> <<"{", "d", ".", "n", "}">>,
     t   |-> <<"{", "time", "}">>,
     n5  |-> <<"5">>,
     n10 |-> <<"1", "0">>,
     n0  |-> <<"0", ".", "0">>,
     s5  |-> <<"\"", "5", "\"">>,
     sx  |-> <<"\"", "x", "\"">>,
     s18 |-> <<"\"", "1", "8", ":", "0", "\"">>]

OpText == [GT |-> <<">">>, LT |-> <<"<">>, GE |-> <<">", "=">>, LE |-> <<"<", "=">>,
           EQ |-> <<"=", "=">>, NE |-> <<"!", "=">>]

Cmp(l, op, r)  == [kind |-> "cmp", left |-> l, op |-> op, right |-> r]
Bare(l)        == [kind |-> "leaf", left |-> l]
Paren(s)       == [kind |-> "paren", inner |-> s]

Join(texts, between) ==
    FoldLeft(LAMBDA acc, t : IF acc = <<>> THEN t ELSE acc \o between \o t, <<>>, texts)

RECURSIVE TextOf(_)
AtomText(a) ==
    CASE a.kind = "cmp"   -> LeafText[a.left] \o OpText[a.op] \o LeafText[a.right]
      [] a.kind = "leaf"  -> LeafText[a.left]
      [] a.kind = "paren" -> <<"(">> \o TextOf(a.inner) \o <<")">>
TextOf(s) ==
    Join([i \in DOMAIN s |-> Join([j \in DOMAIN s[i] |-> AtomText(s[i][j])], <<" ", "&", "&">>)],
         <<"|", "|", " ">>)

\* Values, least first in the order of texts, with the number each stands for.
None == 1000  \* no number
Values == << <<<<>>, None>>, <<<<"-", "5">>, -5>>, <<<<"0", ".", "0">>, 0>>,
             <<<<"1", "0">>, 10>>, <<<<"1", "8", ":", "0">>, None>>, <<<<"5">>, 5>>,
             <<<<"x">>, None>> >>
Index(v)  == CHOOSE i \in DOMAIN Values : Values[i][1] = v
Number(v) == Values[Index(v)][2]

Contexts == {[event |-> e, data |-> d, time |-> <<"1", "8", ":", "0">>] :
               e \in {<<>>} \cup [{<<"x">>} -> {<<>>, <<"5">>, <<"1", "0">>, <<"x">>}],
               d \in {<<>>} \cup [{<<<<"d">>, <<"n">>>>} -> {<<"-", "5">>, <<"1", "0">>}]}

Value(l, ctx) ==
    CASE l = "x" -> IF ctx.event = <<>> THEN <<>> ELSE ctx.event[<<"x">>]
      [] l = "d" -> IF ctx.data = <<>> THEN <<>> ELSE ctx.data[<<<<"d">>, <<"n">>>>]
      [] l = "t" -> ctx.time
      [] l \in {"n5", "s5"} -> <<"5">>
      [] l = "n10" -> <<"1", "0">>
      [] l = "n0" -> <<"0", ".", "0">>
      [] l = "sx" -> <<"x">>
      [] l = "s18" -> <<"1", "8", ":", "0">>

Compare(l, op, r) ==
    LET both == Number(l) # None /\ Number(r) # None
        a    == IF both THEN Number(l) ELSE Index(l)
        b    == IF both THEN Number(r) ELSE Index(r)
    IN  CASE op = "GT" -> a > b  [] op = "LT" -> a < b  [] op = "GE" -> a >= b
          [] op = "LE" -> a <= b [] op = "EQ" -> a = b  [] op = "NE" -> a # b

RECURSIVE Meaning(_, _)
AtomMeaning(a, ctx) ==
    CASE a.kind = "cmp"   -> Compare(Value(a.left, ctx), a.op, Value(a.right, ctx))
      [] a.kind = "leaf"  -> a.left # "n0" /\ Value(a.left, ctx) # <<>>
      [] a.kind = "paren" -> Meaning(a.inner, ctx)
Meaning(s, ctx) == \E i \in DOMAIN s : \A j \in DOMAIN s[i] : AtomMeaning(s[i][j], ctx)

Atoms == {Cmp("x", "GT", "n5"), Cmp("d", "NE", "sx"), Cmp("t", "GE", "s18"),
          Cmp("n10", "LE", "x"), Bare("x"), Bare("n0")}

Comparisons == {<<<<Cmp(l, op, r)>>>> :
                  l \in DOMAIN LeafText, op \in DOMAIN OpText, r \in DOMAIN LeafText}

Sentences ==
    Comparisons
      \cup {<<<<Bare(l)>>>> : l \in DOMAIN LeafText}
      \cup UNION {{<<<<a, b, c>>>>, <<<<a, b>>, <<c>>>>, <<<<a>>, <<b, c>>>>,
                   <<<<a>>, <<b>>, <<c>>>>, <<<<a, Paren(<<<<b>>, <<c>>>>)>>>>,
                   <<<<Paren(<<<<a>>, <<b>>>>), c>>>>, <<<<Paren(<<<<a, b>>>>)>>, <<c>>>>} :
                  a, b, c \in Atoms}

RunSentence ==
    /\ input.of = "sentence" /\ at = "end"
    /\ output' = Output([ctx \in Contexts |-> EvaluateAst(node, ctx)])

\* A condition, from its text to its truth value, means what the disjunctions,
\* conjunctions, parentheses and comparisons of its text mean by the grammar in
\* cond_parser.cpp, whatever event parameters and device data are there: && binds
\* tighter than ||, values compare as numbers only if both are numbers, an absent
\* name is the empty text (Lexer, Parser, CompareValues, EvaluateAst).
SentencesMeanWhatTheySay ==
    input.of = "sentence" /\ output # NotRun =>
        \A ctx \in Contexts : output[1][ctx] = Meaning(input.x, ctx)

RECURSIVE LeftToRight(_, _)
\* The atoms of a sentence one after the other, each with the connective before it.
Chain(s) == FlattenSeq([i \in DOMAIN s |-> [j \in DOMAIN s[i] |->
                          [joined |-> IF j = 1 THEN "or" ELSE "and", atom |-> s[i][j]]]])
LeftToRight(s, ctx) ==
    FoldLeft(LAMBDA truth, link :
               LET a    == link.atom
                   next == IF a.kind = "paren" THEN LeftToRight(a.inner, ctx) ELSE AtomMeaning(a, ctx)
               IN  IF link.joined = "or" THEN truth \/ next ELSE truth /\ next,
             FALSE, Chain(s))

\* openclaw_skill.md: "parentheses first, from left to right".  A condition means
\* what its && and || make of each other in the order they are written.
ConditionsReadLeftToRight ==
    input.of = "sentence" /\ output # NotRun =>
        \A ctx \in Contexts : output[1][ctx] = LeftToRight(input.x, ctx)

------------------------------------------------------------------------------
(* The grammar, as splits of a token sequence.  Every sequence is tried.   *)

E == [type |-> "EVENT_PARAM", value |-> <<"x">>]
MCTokenSeqs == UNION {[1..n -> {E} \cup {Token(type) : type \in
                                          {"LPAREN", "RPAREN", "AND", "OR", "GT"}}] : n \in 0..5}

Before(t, i) == SubSeq(t, 1, i - 1)
After(t, i)  == From(t, i + 1)
Tree(op, l, r) == [op |-> op, left |-> l, right |-> r]

RECURSIVE OrTrees(_)
PrimaryTrees(t) ==
    IF Len(t) = 1 /\ t[1] = E THEN {E}
    ELSE IF Len(t) > 2 /\ t[1].type = "LPAREN" /\ t[Len(t)].type = "RPAREN"
    THEN OrTrees(SubSeq(t, 2, Len(t) - 1)) ELSE {}
Splits(t, ops, Left(_), Right(_)) ==
    UNION {{Tree(t[i].type, l, r) : l \in Left(Before(t, i)), r \in Right(After(t, i))} :
             i \in {i \in DOMAIN t : t[i].type \in ops}}
ComparisonTrees(t) == PrimaryTrees(t) \cup Splits(t, {"GT"}, PrimaryTrees, PrimaryTrees)
RECURSIVE AndTrees(_)
AndTrees(t) == ComparisonTrees(t) \cup Splits(t, {"AND"}, AndTrees, ComparisonTrees)
OrTrees(t)  == AndTrees(t) \cup Splits(t, {"OR"}, OrTrees, AndTrees)

\* The tree whose roots are those of IsRoot.
RECURSIVE RootTree(_, _, _)
RootTree(t, a, b) ==
    LET v == CHOOSE v \in a..b : IsRoot(t, v, a, b)
    IN  IF IsOperator(t, v) THEN Tree(t[v].type, RootTree(t, a, v - 1), RootTree(t, v + 1, b))
        ELSE t[v]

\* A sentence, as CondParser says it without a grammar, is what the grammar accepts,
\* and its roots make the one tree that the grammar has for it.
ASSUME GrammarAssumption ==
    \A t \in MCTokenSeqs :
      /\ Sentence(t, Len(t)) <=> OrTrees(t) # {}
      /\ Sentence(t, Len(t)) => OrTrees(t) = {RootTree(t, 1, Len(t))}

------------------------------------------------------------------------------
(* The lines of cond_expr.                                                 *)

Strings(chars, n) == UNION {[1..k -> chars] : k \in 0..n}

MCEvent     == <<"e1">>
MCCondExprs == {<<l>> : l \in Strings({"e1", "(", ")", "x", " "}, 6)}
                 \cup Strings(Strings({"e1", "(", ")", "x"}, 3), 2)

------------------------------------------------------------------------------
(* Topics and filters.                                                     *)

HubTopics == UNION {[1..n -> {"a", "b"}] : n \in 1..3}
    \cup {Before(t, n) : n \in 3..5,
            t \in {"broadcast", "device", "app"} \X {"online", "sql", "d1"}
                  \X {"heartbeat", "resp", "event", "data", "trans"} \X {"s2m", "e1"}}
Filters == UNION {[1..n -> {"a", "b", "+", "#"}] : n \in 1..3}

MCTopics == HubTopics
MCSubscriptionSets == {{f} : f \in Filters} \cup {HubFilters}

------------------------------------------------------------------------------
(* Requests to the SQL proxies: as the guide has them, with one parameter  *)
(* dropped or of another kind, with params no object, and whatever else is *)
(* wrong with the payload, the msg_id or the cmd.                          *)

FirstKind(kinds) == [key \in DOMAIN kinds |-> CHOOSE k \in kinds[key] : TRUE]
Dropped(params, key) == [k \in DOMAIN params \ {key} |-> params[k]]
ParamsLike(doc) ==
    LET base == FirstKind(doc.needed @@ doc.optional)
    IN  {base, FirstKind(doc.needed), base @@ ("extra" :> "other")}
          \cup {Dropped(base, key) : key \in DOMAIN base}
          \cup {[base EXCEPT ![key] = kind] : key \in DOMAIN base, kind \in Kind}

RequestsLike(guide) ==
    UNION {[payload : {"object"}, msg_id : {"text"}, cmd : {cmd}, object : {TRUE},
            params : ParamsLike(guide[cmd]), works : BOOLEAN] : cmd \in DOMAIN guide}
      \cup [payload : {"object", "noObject", "broken"}, msg_id : {"text", "absent", "noText"},
            cmd : {"absent", "noText", "unknown"} \cup DOMAIN guide, object : BOOLEAN,
            params : {<<>>}, works : {TRUE}]

MCSqlRequests == ({"app"} \X RequestsLike(AppGuide)) \cup ({"llm"} \X RequestsLike(SkillGuide))

------------------------------------------------------------------------------
(* Requests to the language model: histories that report at the root, in   *)
(* "result" or in "data", or nowhere.                                      *)

Msg(role, status) == [role |-> role, status |-> status]
Messages(seq)     == [messages |-> seq]
Reporting(status) == [status |-> status]
Silent            == [x |-> "x"]

Root(object)       == <<>> :> object
At(keys, object)   == keys :> object
Roots == {Silent, Reporting("running"), Reporting("done"), Messages(<<>>),
          Messages(<<Msg("assistant", "done"), Msg("assistant", "running")>>),
          Messages(<<Msg("assistant", "done"), Msg("user", "running")>>),
          Messages(<<Msg("assistant", "done"), [role |-> "assistant"]>>)}
Lower == {Silent, Reporting("running"), Reporting("done")}

MCHistories ==
    {Root(o) : o \in Roots} \cup {Root(Silent) @@ At(<<"data">>, o) : o \in Lower}
      \cup {Root(Silent) @@ At(<<"result">>, o) @@ At(<<"data">>, Reporting("done")) : o \in Lower}
      \cup {Root(Reporting("running")) @@ At(<<"result">>, Reporting("done")),
            Root(Messages(<<>>)) @@ At(<<"result">>, Silent)
              @@ At(<<"result", "data">>, Reporting("success"))}

Prompt == [json |-> TRUE, msg_id |-> "id", prompt |-> "text"]
MCPayloads == {Prompt, [Prompt EXCEPT !.json = FALSE], [Prompt EXCEPT !.msg_id = ""],
               [Prompt EXCEPT !.prompt = ""]}

------------------------------------------------------------------------------
(* Cron fields and offsets.  A field is a list of items: a range, or its   *)
(* whole, or one value, each with a step.                                  *)

Nums    == {"0", "1", "3", "12"}
NumText == ("0" :> <<"0">>) @@ ("1" :> <<"1">>) @@ ("3" :> <<"3">>) @@ ("12" :> <<"1", "2">>)
NumOf   == ("0" :> 0) @@ ("1" :> 1) @@ ("3" :> 3) @@ ("12" :> 12)

Items == [lo : Nums, hi : Nums, step : Nums \cup {"none"}, kind : {"range"}]
           \cup [step : Nums \cup {"none"}, kind : {"star"}]
           \cup [lo : Nums, step : Nums \cup {"none"}, kind : {"one"}]

ItemText(item) ==
    (CASE item.kind = "range" -> NumText[item.lo] \o <<"-">> \o NumText[item.hi]
       [] item.kind = "star"  -> <<"*">>
       [] item.kind = "one"   -> NumText[item.lo])
      \o IF item.step = "none" THEN <<>> ELSE <<"/">> \o NumText[item.step]

\* The values an item stands for between two bounds, or Error.
ItemValues(item, min_val, max_val) ==
    LET low  == IF item.kind = "star" THEN min_val ELSE NumOf[item.lo]
        high == CASE item.kind = "star" -> max_val [] item.kind = "one" -> low
                  [] item.kind = "range" -> NumOf[item.hi]
        step == IF item.step = "none" THEN 1 ELSE NumOf[item.step]
    IN  IF step = 0 \/ ~(min_val <= low /\ low <= high /\ high <= max_val) THEN Error
        ELSE {v \in low..high : \E k \in 0..high : v = low + k * step}

FewItems == {i \in Items : i.step \in {"3", "none"} /\ (i.kind = "range" => i.lo = "0")}
Fields   == {<<i>> : i \in Items} \cup (FewItems \X FewItems)

\* All items of at most four characters.
Digits01(n) == Strings({"0", "1"}, n) \ {<<>>}
ItemTexts   == Digits01(4) \cup {<<"*">>} \cup {a \o <<"-">> \o b : a, b \in Digits01(2)}
                 \cup {a \o <<"/">> \o b : a \in Digits01(2) \cup {<<"*">>}, b \in Digits01(2)}
IsListOf(s) == \A part \in ToSet(SplitAt(s, ",")) : part \in ItemTexts

RunField ==
    /\ input.of = "field"
    /\ output' = Output([b \in {<<0, 7>>, <<1, 12>>} |->
                            ParseField(Join([i \in DOMAIN input.x |-> ItemText(input.x[i])], <<",">>),
                                       b[1], b[2])])

RunFieldText ==
    /\ input.of = "field text"
    /\ output' = Output(ParseField(input.x, 0, 7))

RunOffset ==
    /\ input.of = "offset"
    /\ output' = Output(ParseOffset(input.x))

Times == {0, 59} \X {0, 23} \X {1, 9, 31} \X {1, 12} \X {0, 6}
RunTarget ==
    /\ input.of = "target"
    /\ output' = Output(ParseExpr(MakeCron(input.x)))

Units(s) == {i \in DOMAIN s : s[i] \in DOMAIN Seconds}
\* The digits before the unit at position i.
Amount(s, i) == LET from == {j \in 0..i - 1 : \A k \in j + 1..i - 1 : s[k] \in DOMAIN Numeral}
                IN  SubSeq(s, (CHOOSE j \in from : \A k \in from : j <= k) + 1, i - 1)

\* A cron field stands for the values of its items, and for none if one of them is
\* out of bounds or its step is 0; what is no list of items is refused, but for a
\* second minus before a zero; an offset is the sum of its parts, and refused if
\* it is none; and the expression of a relative job matches at its target time
\* and at no other minute of a year (_parse_field, parse_offset, parse, matches,
\* make_cron_from_offset).
CronTextsMeanWhatTheySay ==
    output # NotRun =>
        /\ input.of = "field" => \A b \in DOMAIN output[1] :
             LET values == {ItemValues(input.x[i], b[1], b[2]) : i \in DOMAIN input.x}
             IN  output[1][b] = IF Error \in values THEN Error ELSE UNION values
        /\ input.of = "field text" /\ output[1] # Error =>
             \/ IsListOf(input.x)
             \/ \E i \in 1..Len(input.x) - 2 : SubSeq(input.x, i, i + 2) = <<"-", "-", "0">>
        /\ input.of = "offset" =>
             LET s   == input.x
                 sum == FoldLeft(LAMBDA acc, i : acc + Natural(Amount(s, i)) * Seconds[s[i]], 0,
                                 SetToSeq(Units(s)))
             IN  output[1] = IF /\ s # <<>> /\ Len(s) \in Units(s) /\ sum > 0
                                /\ \A i \in DOMAIN s : s[i] \in DOMAIN Seconds \cup DOMAIN Numeral
                                /\ \A i \in Units(s) : Amount(s, i) # <<>>
                             THEN sum ELSE 0
        /\ input.of = "target" => \A t \in Times :
             MatchesTime(output[1], t) <=> \A i \in 1..4 : t[i] = input.x[i]

------------------------------------------------------------------------------
Inputs(of) ==
    CASE of = "sentence" -> Sentences
      [] of = "tokens" -> {<<>>}
      [] of = "lines" -> {<<>>}
      [] of = "message" -> {<<>>}
      [] of = "sql request" -> {<<>>}
      [] of = "prompt" -> {<<>>}
      [] of = "jobs" -> {<<>>}
      [] of = "field" -> Fields
      [] of = "field text" -> Strings({"0", "1", "*", "-", "/", ","}, 4)
      [] of = "offset" -> Strings({"0", "2", "s", "m", "d", "x"}, 4)
      [] of = "target" -> Times

DispatchIdle ==
    /\ subscriptions = {} /\ topic = <<>> /\ untried = {}
    /\ filter = NoFilter /\ level = 0 /\ receiver = NoFilter

RequestIdle == proxy = "none" /\ request = <<>> /\ outcome = NotYet

LlmIdle ==
    /\ payload = <<>> /\ stage = "idle" /\ running = TRUE /\ accepted = FALSE
    /\ polls = <<>> /\ path = <<>> /\ answers = <<>>

InitOf(kinds) ==
    /\ \E of \in kinds :
         /\ \E x \in Inputs(of) : input = Input(of, x)
         /\ IF of = "lines" THEN LineInit ELSE ParseCondition(<<>>)
         /\ CASE of = "tokens" -> ParseInit
              [] of = "sentence" -> Parser(Tokens(TextOf(input.x)))
              [] OTHER -> Parser(<<>>)
         /\ IF of = "message" THEN DispatchInit ELSE DispatchIdle
         /\ IF of = "sql request" THEN RequestInit ELSE RequestIdle
         /\ IF of = "prompt" THEN LlmInit ELSE LlmIdle
    /\ CronInit
    /\ output = NotRun

Init == InitOf({"sentence", "tokens", "lines", "message", "sql request", "prompt",
                "field", "field text", "offset", "target", "jobs"})

Run ==
    /\ output = NotRun
    /\ RunSentence \/ RunField \/ RunFieldText \/ RunOffset \/ RunTarget
    /\ UNCHANGED <<input, lineVars, parseVars, dispatchVars, requestVars, llmVars, cronVars>>

Next ==
    \/ Run
    \/ /\ input.of = "lines" /\ LineNext
       /\ UNCHANGED <<input, output, parseVars, dispatchVars, requestVars, llmVars, cronVars>>
    \/ /\ input.of \in {"tokens", "sentence"} /\ ParseNext
       /\ UNCHANGED <<input, output, lineVars, dispatchVars, requestVars, llmVars, cronVars>>
    \/ /\ input.of = "message" /\ DispatchNext
       /\ UNCHANGED <<input, output, lineVars, parseVars, requestVars, llmVars, cronVars>>
    \/ /\ input.of = "sql request" /\ HandleSqlRequest
       /\ UNCHANGED <<input, output, lineVars, parseVars, dispatchVars, llmVars, cronVars>>
    \/ /\ input.of = "prompt" /\ LlmNext
       /\ UNCHANGED <<input, output, lineVars, parseVars, dispatchVars, requestVars, cronVars>>
    \/ /\ input.of = "jobs" /\ CronNext
       /\ UNCHANGED <<input, output, lineVars, parseVars, dispatchVars, requestVars, llmVars>>

Spec == Init /\ [][Next]_vars

\* The sentences alone, and the requests alone.
SentenceSpec   == InitOf({"sentence"}) /\ [][Next]_vars
SqlRequestSpec == InitOf({"sql request"}) /\ [][Next]_vars

\* Bound: a job whose texts the file does not give back is endless and matches every
\* minute.
FewJobs == \A j \in DOMAIN asked : asked[j].text # "plain" =>
             asked[j].count = 0 /\ asked[j].expr = Minute
==============================================================================
