----------------------------- MODULE CondEvaluator -----------------------------
(***************************************************************************)
(* The evaluation of the tree that CondParser has made, in a context of    *)
(* event parameters, device data and a time.                               *)
(***************************************************************************)
EXTENDS CondParser, CondLexer

Signed(s) == IF s # <<>> /\ Head(s) = "-" THEN Tail(s) ELSE s
Dots(s)   == {i \in DOMAIN s : s[i] = "."}

\* What strtod reads to the end: a decimal number.
IsNumeric(s) ==
    LET n == Signed(s)
    IN  /\ \A i \in DOMAIN n : n[i] \in Digit \cup {"."}
        /\ \E i \in DOMAIN n : n[i] \in Digit
        /\ \A i, j \in Dots(n) : i = j

DigitValue(c) == CHOOSE d \in 0..9 : ToString(d) = c

\* The number in tenths: at most one digit after the dot is told apart.
ToNumber(s) ==
    LET n     == Signed(s)
        dot   == Find(n, {"."}, 1)
        whole == FoldLeft(LAMBDA acc, c : 10 * acc + DigitValue(c), 0, SubSeq(n, 1, dot - 1))
        tenth == IF dot < Len(n) THEN DigitValue(n[dot + 1]) ELSE 0
    IN  (10 * whole + tenth) * (IF n = s THEN 1 ELSE -1)

\* The order of characters, as far as values use them.
Order == <<"-", ".", "0", "1", "2", "3", "4", "5", "6", "7", "8", "9", ":", "x", "y">>
Rank(c) == CHOOSE i \in DOMAIN Order : Order[i] = c

RECURSIVE Precedes(_, _)
Precedes(l, r) ==
    /\ r # <<>>
    /\ \/ l = <<>>
       \/ Rank(Head(l)) < Rank(Head(r))
       \/ Head(l) = Head(r) /\ Precedes(Tail(l), Tail(r))

Holds(op, less, equal) ==
    CASE op = "GT" -> ~less /\ ~equal [] op = "LT" -> less
      [] op = "GE" -> ~less           [] op = "LE" -> less \/ equal
      [] op = "EQ" -> equal           [] op = "NE" -> ~equal

\* As numbers if both are, as texts otherwise.
CompareValues(l, r, op) ==
    IF IsNumeric(l) /\ IsNumeric(r)
    THEN Holds(op, ToNumber(l) < ToNumber(r), ToNumber(l) = ToNumber(r))
    ELSE Holds(op, Precedes(l, r), l = r)

\* A name that is not there, and an operation, have the empty value.
Lookup(map, name) == IF name \in DOMAIN map THEN map[name] ELSE <<>>
EvalLeafValue(n, ctx) ==
    LET token == tokens[n]
    IN  CASE token.type \in {"NUMBER", "STRING"} -> token.value
          [] token.type = "EVENT_PARAM" -> Lookup(ctx.event, token.value)
          [] token.type = "DEVICE_DATA" -> Lookup(ctx.data, token.value)
          [] token.type = "TIME" -> ctx.time
          [] token.type \notin Leaf -> <<>>

\* A leaf used as a condition.
Truthy(n, ctx) ==
    CASE tokens[n].type = "NUMBER" ->
           IsNumeric(tokens[n].value) /\ ToNumber(tokens[n].value) # 0
      [] tokens[n].type = "TIME" -> TRUE
      [] OTHER -> EvalLeafValue(n, ctx) # <<>>

\* No tree is true.
RECURSIVE EvaluateAst(_, _)
EvaluateAst(n, ctx) ==
    IF n = Null THEN TRUE
    ELSE CASE tokens[n].type = "AND" -> EvaluateAst(left[n], ctx) /\ EvaluateAst(right[n], ctx)
           [] tokens[n].type = "OR" -> EvaluateAst(left[n], ctx) \/ EvaluateAst(right[n], ctx)
           [] tokens[n].type \in ComparisonOp ->
                CompareValues(EvalLeafValue(left[n], ctx), EvalLeafValue(right[n], ctx),
                              tokens[n].type)
           [] OTHER -> Truthy(n, ctx)
==============================================================================
