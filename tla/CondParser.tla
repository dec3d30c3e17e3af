------------------------------- MODULE CondParser -------------------------------
(***************************************************************************)
(* The recursive-descent parser of the conditions of rules.                *)
(*                                                                         *)
(*   or_expr    -> and_expr ("||" and_expr)*                               *)
(*   and_expr   -> comparison ("&&" comparison)*                           *)
(*   comparison -> primary ((>|<|>=|<=|==|!=) primary)?                    *)
(*   primary    -> "(" or_expr ")" | leaf                                  *)
(*                                                                         *)
(* A node of the tree is named by the position of the token it is made of, *)
(* and the tree is kept as the maps from operators to their operands.  The *)
(* call stack has one entry for each parenthesis that is open, with the    *)
(* locals of the three functions that are called for what is in it.        *)
(***************************************************************************)
EXTENDS Integers, Sequences, FiniteSets

CONSTANT TokenSeqs  \* what the lexer may deliver, without the END

ComparisonOp == {"GT", "LT", "GE", "LE", "EQ", "NE"}
Leaf         == {"EVENT_PARAM", "DEVICE_DATA", "TIME", "NUMBER", "STRING"}
TokenType    == ComparisonOp \cup Leaf \cup {"AND", "OR", "LPAREN", "RPAREN"}

ASSUME TokenAssumption ==
    \A t \in TokenSeqs : /\ Len(t) \in Nat /\ DOMAIN t = 1..Len(t)
                         /\ \A i \in DOMAIN t : t[i].type \in TokenType

VARIABLES
    tokens,      \* the tokens of the condition
    cur,         \* the position of the current token; behind the last one it is END
    stack,       \* the parentheses that are open, and what waits in each
    at,          \* the function that runs
    node,        \* the node that was returned last, or Null
    left, right  \* the operands of the operators

parseVars == <<tokens, cur, stack, at, node, left, right>>

Null == 0  \* nullptr

\* The type of the current token.
Cur == IF cur > Len(tokens) THEN "END" ELSE tokens[cur].type

\* What a function waits for is the right operand of the operator it keeps; the left
\* operand waits with it.
Function == {"comparison", "andExpr", "orExpr"}
Entry(open) == [open |-> open, comparison |-> Null, andExpr |-> Null, orExpr |-> Null]

Top == stack[Len(stack)]
SetTop(f, op) == stack' = [stack EXCEPT ![Len(stack)] = [@ EXCEPT ![f] = op]]

\* Slip: AND and OR bind alike, from left to right.
OperatorsFlat(f) ==
    CASE f = "comparison" -> ComparisonOp [] f = "andExpr" -> {"AND", "OR"} [] f = "orExpr" -> {}

OperatorsOf(f) ==
    CASE f = "comparison" -> ComparisonOp [] f = "andExpr" -> {"AND"} [] f = "orExpr" -> {"OR"}

\* The parser is made for the tokens of a condition.
Parser(t) ==
    /\ tokens = t /\ cur = 1 /\ stack = <<>> /\ at = "start" /\ node = Null
    /\ left = [i \in DOMAIN t |-> Null] /\ right = left

ParseInit == \E t \in TokenSeqs : Parser(t)

\* No token: always true.
Parse ==
    /\ at = "start"
    /\ IF tokens = <<>> THEN at' = "end" /\ UNCHANGED stack
       ELSE at' = "primary" /\ stack' = <<Entry(0)>>
    /\ UNCHANGED <<tokens, cur, node, left, right>>

\* Every caller returns nullptr when it gets one.
Fail == at' = "end" /\ node' = Null /\ UNCHANGED <<tokens, cur, stack, left, right>>

\* A parenthesis is entered: ParseOrExpr calls ParseAndExpr, and so on down to here.
OpenParen ==
    /\ Cur = "LPAREN"
    /\ stack' = Append(stack, Entry(cur))
    /\ cur' = cur + 1
    /\ UNCHANGED <<tokens, at, node, left, right>>

MakeLeaf ==
    /\ Cur \in Leaf
    /\ node' = cur /\ cur' = cur + 1 /\ at' = "comparison"
    /\ UNCHANGED <<tokens, stack, left, right>>

ParsePrimary ==
    /\ at = "primary"
    /\ OpenParen \/ MakeLeaf \/ (Cur \notin Leaf \cup {"LPAREN"} /\ Fail)

\* The function has its operator, and with node its right operand.
MakeBinary(f, next) ==
    /\ Top[f] # Null
    /\ right' = [right EXCEPT ![Top[f]] = node] /\ node' = Top[f]
    /\ SetTop(f, Null) /\ at' = next
    /\ UNCHANGED <<tokens, cur, left>>

\* It meets an operator of its own: node is the left operand.
TakeOperator(f) ==
    /\ Top[f] = Null /\ Cur \in OperatorsOf(f)
    /\ left' = [left EXCEPT ![cur] = node]
    /\ SetTop(f, cur) /\ cur' = cur + 1 /\ at' = "primary"
    /\ UNCHANGED <<tokens, node, right>>

\* It meets none: node is what it returns.
ReturnTo(f, caller) ==
    /\ Top[f] = Null /\ Cur \notin OperatorsOf(f)
    /\ at' = caller
    /\ UNCHANGED <<tokens, cur, stack, node, left, right>>

\* At most one comparison operator: comparisons do not chain.
ParseComparison ==
    /\ at = "comparison"
    /\ \/ MakeBinary("comparison", "andExpr")
       \/ TakeOperator("comparison")
       \/ ReturnTo("comparison", "andExpr")

ParseAndExpr ==
    /\ at = "andExpr"
    /\ MakeBinary("andExpr", "andExpr") \/ TakeOperator("andExpr") \/ ReturnTo("andExpr", "orExpr")

ParseOrExpr ==
    /\ at = "orExpr"
    /\ MakeBinary("orExpr", "orExpr") \/ TakeOperator("orExpr") \/ ReturnTo("orExpr", "return")

\* Slip: the end of the text closes every parenthesis.
CloseParenLenient ==
    /\ at = "return" /\ Len(stack) > 1
    /\ \/ /\ Cur \in {"RPAREN", "END"}
          /\ stack' = SubSeq(stack, 1, Len(stack) - 1)
          /\ cur' = (IF Cur = "END" THEN cur ELSE cur + 1)
          /\ at' = "comparison"
          /\ UNCHANGED <<tokens, node, left, right>>
       \/ Cur \notin {"RPAREN", "END"} /\ Fail

\* The expression in a parenthesis is complete: back in ParsePrimary.
CloseParen ==
    /\ at = "return" /\ Len(stack) > 1
    /\ \/ /\ Cur = "RPAREN"
          /\ stack' = SubSeq(stack, 1, Len(stack) - 1) /\ cur' = cur + 1 /\ at' = "comparison"
          /\ UNCHANGED <<tokens, node, left, right>>
       \/ Cur # "RPAREN" /\ Fail

\* The whole expression is complete; what follows it is only warned about.
ParseDone ==
    /\ at = "return" /\ Len(stack) = 1
    /\ at' = "end"
    /\ UNCHANGED <<tokens, cur, stack, node, left, right>>

ParseNext ==
    Parse \/ ParsePrimary \/ ParseComparison \/ ParseAndExpr \/ ParseOrExpr \/ CloseParen \/ ParseDone

ParseSpec == ParseInit /\ [][ParseNext]_parseVars

------------------------------------------------------------------------------
(* What a condition is, without a parser: its first tokens up to the n-th  *)
(* are a sentence.                                                         *)

StartsOperand(t, i) == t[i].type \in Leaf \cup {"LPAREN"}
EndsOperand(t, i)   == t[i].type \in Leaf \cup {"RPAREN"}
IsOperator(t, i)    == t[i].type \in ComparisonOp \cup {"AND", "OR"}

Of(t, type, i) == {j \in 1..i : t[j].type = type}
\* How many parentheses are open behind position i.
Depth(t, i) == Cardinality(Of(t, "LPAREN", i)) - Cardinality(Of(t, "RPAREN", i))

Operators(t, a, b) == {i \in a..b : IsOperator(t, i)}

\* How tight an operator binds: the deeper the tighter, else a comparison before &&
\* before ||.
Tightness(t, i) ==
    3 * Depth(t, i)
      + (IF t[i].type = "OR" THEN 0 ELSE IF t[i].type = "AND" THEN 1 ELSE 2)

\* Operands and what is between them alternate, ...
Alternate(t, n) ==
    /\ \A i \in 1..n : StartsOperand(t, i) <=> (i = 1 \/ ~EndsOperand(t, i - 1))
    /\ n > 0 /\ EndsOperand(t, n)

\* ... every parenthesis is closed that was opened, and no other, ...
Balanced(t, n) == Depth(t, n) = 0 /\ \A i \in 1..n : Depth(t, i) >= 0

\* ... and two comparisons at one depth have something looser between them.
Unchained(t, n) ==
    \A i, j \in Operators(t, 1, n) :
        i < j /\ t[i].type \in ComparisonOp /\ t[j].type \in ComparisonOp
              /\ Depth(t, i) = Depth(t, j)
          => \E k \in Operators(t, i, j) : Tightness(t, k) < Tightness(t, i)

Sentence(t, n) == Alternate(t, n) /\ Balanced(t, n) /\ Unchained(t, n)

\* The root of what is from a to b: the operator that binds loosest, of equals the
\* last; or else the only leaf.
IsRoot(t, v, a, b) ==
    /\ v \in a..b
    /\ IF Operators(t, a, b) = {} THEN t[v].type \in Leaf
       ELSE /\ IsOperator(t, v)
            /\ \A j \in Operators(t, a, b) : \/ Tightness(t, v) < Tightness(t, j)
                                             \/ Tightness(t, v) = Tightness(t, j) /\ j <= v

\* In a..b the operands of p reach from x to y: to the next looser operator before
\* it, and to the next one behind it that is not tighter.
Reaches(t, p, x, y, a, b) ==
    /\ x \in a..p /\ y \in p..b
    /\ \A j \in Operators(t, x, p - 1) : Tightness(t, j) >= Tightness(t, p)
    /\ \A j \in Operators(t, p + 1, y) : Tightness(t, j) > Tightness(t, p)
    /\ x > a => IsOperator(t, x - 1) /\ Tightness(t, x - 1) < Tightness(t, p)
    /\ y < b => IsOperator(t, y + 1) /\ Tightness(t, y + 1) <= Tightness(t, p)

\* The maps l and r make v the tree of what is from a to b.
IsTree(t, l, r, v, a, b) ==
    /\ IsRoot(t, v, a, b)
    /\ \A p \in Operators(t, a, b) : \A x \in a..p, y \in p..b :
         Reaches(t, p, x, y, a, b) => IsRoot(t, l[p], x, p - 1) /\ IsRoot(t, r[p], p + 1, y)

\* The parser accepts every sentence; when it returns a tree, that is the tree of
\* the longest sentence the tokens start with: nothing is dropped from within a
\* condition, and its operators have the operands that the parentheses, their order
\* and their precedence in the grammar of cond_parser.cpp give them, where && binds
\* tighter than || (Parser::Parse and all it calls; openclaw_skill.md reads them from
\* left to right, see ConditionsReadLeftToRight).
LongestSentenceCounts ==
    at = "end" =>
        /\ Sentence(tokens, Len(tokens)) => node # Null
        /\ node # Null => \E n \in DOMAIN tokens :
             /\ Sentence(tokens, n) /\ \A k \in n + 1..Len(tokens) : ~Sentence(tokens, k)
             /\ IsTree(tokens, left, right, node, 1, n)
==============================================================================
