---------------------------- MODULE ConditionProofs ----------------------------
(***************************************************************************)
(* What holds for every condition of a rule, however many lines, however   *)
(* long and however deep its parentheses: the text that is parsed is the   *)
(* one between the parentheses of the event's first line, and the parser   *)
(* builds the tree of the longest sentence it starts with.                 *)
(***************************************************************************)
EXTENDS CondParser, CondLine, FiniteSetTheorems, SequenceTheorems, TLAPS

------------------------------------------------------------------------------
(* Depth and tightness.                                                    *)

IsTokens(t) ==
    /\ Len(t) \in Nat /\ DOMAIN t = 1..Len(t)
    /\ \A i \in DOMAIN t : t[i].type \in TokenType

LEMMA OfNext ==
  ASSUME NEW t, NEW type, NEW i \in Nat
  PROVE  /\ IsFiniteSet(Of(t, type, i)) /\ Cardinality(Of(t, type, i)) \in Nat
         /\ Of(t, type, 0) = {}
         /\ Cardinality(Of(t, type, i + 1)) =
              Cardinality(Of(t, type, i)) + (IF t[i + 1].type = type THEN 1 ELSE 0)
<1>1. IsFiniteSet(Of(t, type, i)) /\ Cardinality(Of(t, type, i)) \in Nat
  <2>1. Of(t, type, i) \in SUBSET (1..i)
    BY DEF Of
  <2>2. IsFiniteSet(1..i)
    BY FS_Interval
  <2> QED
    BY <2>1, <2>2, FS_Subset, FS_CardinalityType
<1>2. Of(t, type, 0) = {}
  BY DEF Of
<1>3. CASE t[i + 1].type = type
  <2>1. Of(t, type, i + 1) = Of(t, type, i) \cup {i + 1} /\ i + 1 \notin Of(t, type, i)
    BY <1>3 DEF Of
  <2> QED
    BY <1>1, <1>2, <1>3, <2>1, FS_AddElement
<1>4. CASE t[i + 1].type # type
  <2>1. Of(t, type, i + 1) = Of(t, type, i)
    BY <1>4 DEF Of
  <2> QED
    BY <1>1, <1>2, <1>4, <2>1
<1> QED
  BY <1>3, <1>4

LEMMA DepthNext ==
  ASSUME NEW t, NEW i \in Nat
  PROVE  /\ Depth(t, i) \in Int /\ Depth(t, 0) = 0
         /\ t[i + 1].type = "LPAREN" => Depth(t, i + 1) = Depth(t, i) + 1
         /\ t[i + 1].type = "RPAREN" => Depth(t, i + 1) = Depth(t, i) - 1
         /\ t[i + 1].type \notin {"LPAREN", "RPAREN"} => Depth(t, i + 1) = Depth(t, i)
<1>1. Cardinality(Of(t, "LPAREN", 0)) = 0 /\ Cardinality(Of(t, "RPAREN", 0)) = 0
  BY OfNext, FS_EmptySet
<1>2. \A type \in {"LPAREN", "RPAREN"} :
        /\ Cardinality(Of(t, type, i)) \in Nat
        /\ Cardinality(Of(t, type, i + 1)) =
             Cardinality(Of(t, type, i)) + (IF t[i + 1].type = type THEN 1 ELSE 0)
  BY OfNext
<1> QED
  BY <1>1, <1>2 DEF Depth

\* An operator is as deep as what is before it, and its depth counts most.
LEMMA OperatorTightness ==
  ASSUME NEW t, NEW i \in Nat, i > 0, IsOperator(t, i)
  PROVE  /\ Depth(t, i) \in Int /\ Depth(t, i) = Depth(t, i - 1)
         /\ Tightness(t, i) \in Int
         /\ t[i].type = "OR" => Tightness(t, i) = 3 * Depth(t, i)
         /\ t[i].type = "AND" => Tightness(t, i) = 3 * Depth(t, i) + 1
         /\ t[i].type \in ComparisonOp => Tightness(t, i) = 3 * Depth(t, i) + 2
<1>1. t[i].type \notin {"LPAREN", "RPAREN"}
  BY DEF IsOperator, ComparisonOp
<1>2. Depth(t, i) \in Int /\ Depth(t, i) = Depth(t, i - 1)
  <2>1. i - 1 \in Nat /\ (i - 1) + 1 = i
    OBVIOUS
  <2>2. Depth(t, i - 1) \in Int /\ Depth(t, (i - 1) + 1) = Depth(t, i - 1)
    BY <1>1, <2>1, DepthNext
  <2> QED
    BY <2>1, <2>2
<1>3. ("OR" \notin ComparisonOp) /\ ("AND" \notin ComparisonOp)
  BY DEF ComparisonOp
<1> QED
  BY <1>2, <1>3 DEF Tightness, IsOperator

------------------------------------------------------------------------------
(* Trees.                                                                  *)

\* What is tight enough.
AtLeast(t, floor, a, b) == \A j \in Operators(t, a, b) : Tightness(t, j) >= floor

\* A leaf is the tree of itself.
LEMMA LeafTree ==
  ASSUME NEW t, NEW l, NEW r, NEW v \in Nat, t[v].type \in Leaf
  PROVE  IsTree(t, l, r, v, v, v) /\ Operators(t, v, v) = {}
<1>1. Operators(t, v, v) = {}
  BY DEF Operators, IsOperator, Leaf, ComparisonOp
<1> QED
  BY <1>1 DEF IsTree, IsRoot

\* Only the operands of the operators in it count.
LEMMA TreeFrame ==
  ASSUME NEW t, NEW l, NEW r, NEW l2, NEW r2, NEW v, NEW a, NEW b,
         IsTree(t, l, r, v, a, b),
         \A i \in Operators(t, a, b) : l2[i] = l[i] /\ r2[i] = r[i]
  PROVE  IsTree(t, l2, r2, v, a, b)
BY DEF IsTree

LEMMA RootWiden ==
  ASSUME NEW t, NEW v, NEW a \in Int, NEW b \in Int, NEW a2 \in Int, NEW b2 \in Int,
         a2 <= a, b <= b2, Operators(t, a2, b2) = Operators(t, a, b), IsRoot(t, v, a, b)
  PROVE  IsRoot(t, v, a2, b2)
BY DEF IsRoot

\* What is no operator may be added before and behind: parentheses.
LEMMA TreeWiden ==
  ASSUME NEW t, NEW l, NEW r, NEW v, NEW a \in Nat, NEW b \in Nat, a > 0,
         IsTree(t, l, r, v, a, b), ~IsOperator(t, a - 1), ~IsOperator(t, b + 1)
  PROVE  /\ Operators(t, a - 1, b + 1) = Operators(t, a, b)
         /\ IsTree(t, l, r, v, a - 1, b + 1)
<1>1. Operators(t, a - 1, b + 1) = Operators(t, a, b)
  BY DEF Operators
<1>2. IsRoot(t, v, a - 1, b + 1)
  BY <1>1, RootWiden DEF IsTree
<1>3. ASSUME NEW p \in Operators(t, a - 1, b + 1), NEW x \in a - 1..p, NEW y \in p..b + 1,
             Reaches(t, p, x, y, a - 1, b + 1)
      PROVE  IsRoot(t, l[p], x, p - 1) /\ IsRoot(t, r[p], p + 1, y)
  <2> DEFINE x0 == IF x = a - 1 THEN a ELSE x
             y0 == IF y = b + 1 THEN b ELSE y
  <2>1. p \in Operators(t, a, b) /\ p \in a..b
    BY <1>1 DEF Operators
  <2>2. /\ x > a - 1 => IsOperator(t, x - 1) /\ Tightness(t, x - 1) < Tightness(t, p)
        /\ y < b + 1 => IsOperator(t, y + 1) /\ Tightness(t, y + 1) <= Tightness(t, p)
    BY <1>3 DEF Reaches
  <2>3. x0 \in a..p /\ y0 \in p..b /\ x <= x0 /\ y0 <= y
    BY <2>1
  <2>4. /\ Operators(t, x0, p - 1) = Operators(t, x, p - 1)
        /\ Operators(t, p + 1, y0) = Operators(t, p + 1, y)
    BY <2>1 DEF Operators
  <2>5. /\ x0 > a => IsOperator(t, x0 - 1) /\ Tightness(t, x0 - 1) < Tightness(t, p)
        /\ y0 < b => IsOperator(t, y0 + 1) /\ Tightness(t, y0 + 1) <= Tightness(t, p)
    BY <2>1, <2>2
  <2>6. Reaches(t, p, x0, y0, a, b)
    BY <1>3, <2>3, <2>4, <2>5 DEF Reaches
  <2>7. IsRoot(t, l[p], x0, p - 1) /\ IsRoot(t, r[p], p + 1, y0)
    BY <2>1, <2>3, <2>6 DEF IsTree
  <2> HIDE DEF x0, y0
  <2>8. p - 1 \in Int /\ p + 1 \in Int /\ x \in Int /\ y \in Int /\ x0 \in Int /\ y0 \in Int
    BY <2>1, <2>3
  <2> QED
    BY <2>3, <2>4, <2>7, <2>8, RootWiden
<1> QED
  BY <1>1, <1>2, <1>3 DEF IsTree

\* Two trees and an operator between them that is not tighter than what is before
\* it, and looser than what is behind it.
LEMMA TreeJoin ==
  ASSUME NEW t, NEW l, NEW r, NEW a \in Nat, NEW p \in Nat, NEW b \in Nat,
         IsOperator(t, p), Tightness(t, p) \in Int,
         \A j \in Operators(t, a, b) : Tightness(t, j) \in Int,
         IsTree(t, l, r, l[p], a, p - 1), IsTree(t, l, r, r[p], p + 1, b),
         AtLeast(t, Tightness(t, p), a, p - 1), AtLeast(t, Tightness(t, p) + 1, p + 1, b)
  PROVE  IsTree(t, l, r, p, a, b)
<1>1. a < p /\ p < b
  BY DEF IsTree, IsRoot
<1>2. \A j \in Operators(t, a, b) :
        /\ j \in Int /\ Tightness(t, j) \in Int
        /\ \/ j = p
           \/ j < p /\ j \in Operators(t, a, p - 1) /\ Tightness(t, j) >= Tightness(t, p)
           \/ j > p /\ j \in Operators(t, p + 1, b) /\ Tightness(t, j) > Tightness(t, p)
  <2>1. \A j \in Operators(t, a, b) :
          /\ j \in Int /\ Tightness(t, j) \in Int
          /\ j = p \/ j \in Operators(t, a, p - 1) \/ j \in Operators(t, p + 1, b)
    BY <1>1 DEF Operators
  <2>2. \A j \in Operators(t, a, p - 1) : j < p /\ Tightness(t, j) >= Tightness(t, p)
    BY DEF AtLeast, Operators
  <2>3. \A j \in Operators(t, p + 1, b) : j > p /\ Tightness(t, j) >= Tightness(t, p) + 1
    BY DEF AtLeast, Operators
  <2> QED
    BY <2>1, <2>2, <2>3
<1>3. IsRoot(t, p, a, b)
  <2>1. p \in Operators(t, a, b)
    BY <1>1 DEF Operators
  <2>2. \A j \in Operators(t, a, b) : \/ Tightness(t, p) < Tightness(t, j)
                                      \/ Tightness(t, p) = Tightness(t, j) /\ j <= p
    BY <1>2
  <2> QED
    BY <1>1, <2>1, <2>2 DEF IsRoot
<1>4. ASSUME NEW q \in Operators(t, a, b), NEW x \in a..q, NEW y \in q..b,
             Reaches(t, q, x, y, a, b)
      PROVE  IsRoot(t, l[q], x, q - 1) /\ IsRoot(t, r[q], q + 1, y)
  <2>1. /\ \A j \in Operators(t, x, q - 1) : Tightness(t, j) >= Tightness(t, q)
        /\ \A j \in Operators(t, q + 1, y) : Tightness(t, j) > Tightness(t, q)
        /\ x > a => IsOperator(t, x - 1) /\ Tightness(t, x - 1) < Tightness(t, q)
        /\ y < b => IsOperator(t, y + 1) /\ Tightness(t, y + 1) <= Tightness(t, q)
    BY <1>4 DEF Reaches
  <2>2. Tightness(t, q) \in Int /\ q \in a..b
    BY DEF Operators
  <2>3. CASE q = p
    <3>1. x = a
      <4>1. SUFFICES ASSUME x > a PROVE FALSE
        OBVIOUS
      <4>2. x - 1 \in Operators(t, a, b) /\ x - 1 < p
        BY <1>1, <2>1, <2>2, <2>3, <4>1 DEF Operators
      <4> QED
        BY <1>2, <2>1, <2>2, <2>3, <4>1, <4>2
    <3>2. y = b
      <4>1. SUFFICES ASSUME y < b PROVE FALSE
        OBVIOUS
      <4>2. y + 1 \in Operators(t, a, b) /\ y + 1 > p
        BY <1>1, <2>1, <2>2, <2>3, <4>1 DEF Operators
      <4> QED
        BY <1>2, <2>1, <2>2, <2>3, <4>1, <4>2
    <3> QED
      BY <2>3, <3>1, <3>2 DEF IsTree
  <2>4. CASE q < p
    <3>1. q \in Operators(t, a, p - 1) /\ Tightness(t, q) >= Tightness(t, p)
      BY <1>2, <2>2, <2>4
    <3>2. y < p
      <4>1. SUFFICES ASSUME y >= p PROVE FALSE
        BY <1>1, <2>2
      <4>2. p \in Operators(t, q + 1, y)
        BY <1>1, <2>2, <2>4, <4>1 DEF Operators
      <4> QED
        BY <2>1, <2>2, <3>1, <4>2
    <3>3. Reaches(t, q, x, y, a, p - 1) /\ x \in a..q /\ y \in q..p - 1
      BY <1>1, <2>1, <2>2, <3>2 DEF Reaches
    <3> QED
      BY <3>1, <3>3 DEF IsTree
  <2>5. CASE q > p
    <3>1. q \in Operators(t, p + 1, b) /\ Tightness(t, q) > Tightness(t, p)
      BY <1>2, <2>2, <2>5
    <3>2. x > p
      <4>1. SUFFICES ASSUME x <= p PROVE FALSE
        BY <1>1, <2>2
      <4>2. p \in Operators(t, x, q - 1)
        BY <1>1, <2>2, <2>5, <4>1 DEF Operators
      <4> QED
        BY <2>1, <2>2, <3>1, <4>2
    <3>3. Reaches(t, q, x, y, p + 1, b) /\ x \in p + 1..q /\ y \in q..b
      BY <1>1, <2>1, <2>2, <3>2 DEF Reaches
    <3> QED
      BY <3>1, <3>3 DEF IsTree
  <2> QED
    BY <1>2, <2>3, <2>4, <2>5
<1> QED
  BY <1>3, <1>4 DEF IsTree

------------------------------------------------------------------------------
(* The call stack.                                                         *)

Entries == [open : Nat, comparison : Nat, andExpr : Nat, orExpr : Nat]

\* The position behind which the operand begins that each function waits with, and
\* the one that is read now.
AndBase(e)  == IF e.orExpr # Null THEN e.orExpr ELSE e.open
LeafBase(e) == IF e.andExpr # Null THEN e.andExpr ELSE AndBase(e)
Base(e)     == IF e.comparison # Null THEN e.comparison ELSE LeafBase(e)

\* The left operand of p is the tree of what is between from and p.
Waits(t, l, r, p, from, floor) ==
    /\ from < p /\ IsTree(t, l, r, l[p], from + 1, p - 1)
    /\ AtLeast(t, floor, from + 1, p - 1)

\* What waits where d parentheses are open.
EntryOK(t, l, r, e, d) ==
    /\ e.orExpr # Null =>
         /\ t[e.orExpr].type = "OR" /\ Depth(t, e.orExpr) = d
         /\ Waits(t, l, r, e.orExpr, e.open, 3 * d)
    /\ e.andExpr # Null =>
         /\ t[e.andExpr].type = "AND" /\ Depth(t, e.andExpr) = d
         /\ Waits(t, l, r, e.andExpr, AndBase(e), 3 * d + 1)
    /\ e.comparison # Null =>
         /\ t[e.comparison].type \in ComparisonOp /\ Depth(t, e.comparison) = d
         /\ Waits(t, l, r, e.comparison, LeafBase(e), 3 * d + 3)

\* Before an open parenthesis, what is as tight as what is in it has something
\* looser behind it.
Separated(t, open, d) ==
    \A i \in Operators(t, 1, open) : Tightness(t, i) >= 3 * d =>
        \E k \in Operators(t, i + 1, open) : Tightness(t, k) < 3 * d

\* All that waits, before position c.
StackOK(t, l, r, s, c) ==
    /\ s \in Seq(Entries) /\ Len(s) > 0 /\ s[1].open = 0
    /\ \A k \in 1..Len(s) : /\ EntryOK(t, l, r, s[k], k - 1)
                            /\ Separated(t, s[k].open, k - 1)
                            /\ Base(s[k]) < c
    /\ \A k \in 1..Len(s) : k > 1 => /\ s[k].open = Base(s[k - 1]) + 1
                                     /\ t[s[k].open].type = "LPAREN"
    /\ \A i, k \in 1..Len(s) : i < k => Base(s[i]) < s[k].open

LEMMA StackEntry ==
  ASSUME NEW s \in Seq(Entries), NEW k \in 1..Len(s)
  PROVE  /\ s[k] \in Entries /\ Base(s[k]) \in Nat /\ LeafBase(s[k]) \in Nat
         /\ AndBase(s[k]) \in Nat /\ s[k].open \in Nat
<1>1. s[k] \in Entries
  BY ElementOfSeq
<1> QED
  BY <1>1 DEF Entries, Base, LeafBase, AndBase, Null

\* The bases of an entry are in order.
LEMMA BaseOrder ==
  ASSUME NEW t, NEW l, NEW r, NEW e \in Entries, NEW d, EntryOK(t, l, r, e, d)
  PROVE  /\ e.open \in Nat /\ AndBase(e) \in Nat /\ LeafBase(e) \in Nat /\ Base(e) \in Nat
         /\ e.open <= AndBase(e) /\ AndBase(e) <= LeafBase(e) /\ LeafBase(e) <= Base(e)
BY DEF Entries, EntryOK, Waits, Base, LeafBase, AndBase, Null

\* An entry does not mind what becomes of the nodes behind what it waits with.
LEMMA EntryFrame ==
  ASSUME NEW t, NEW l, NEW r, NEW l2, NEW r2, NEW e \in Entries, NEW d,
         EntryOK(t, l, r, e, d),
         \A i \in 1..Base(e) : l2[i] = l[i], \A i \in 1..Base(e) - 1 : r2[i] = r[i]
  PROVE  EntryOK(t, l2, r2, e, d)
<1>1. ASSUME NEW p \in Nat, NEW from \in Nat, NEW floor, p <= Base(e), Waits(t, l, r, p, from, floor)
      PROVE  Waits(t, l2, r2, p, from, floor)
  <2>1. from < p /\ Base(e) \in Nat
    BY <1>1, BaseOrder DEF Waits
  <2>2. \A i \in Operators(t, from + 1, p - 1) : l2[i] = l[i] /\ r2[i] = r[i]
    BY <1>1, <2>1 DEF Operators
  <2>3. l2[p] = l[p]
    BY <1>1, <2>1
  <2>4. IsTree(t, l2, r2, l2[p], from + 1, p - 1)
    BY <1>1, <2>2, <2>3, TreeFrame DEF Waits
  <2> QED
    BY <1>1, <2>4 DEF Waits
<1>2. /\ e.open \in Nat /\ AndBase(e) \in Nat /\ LeafBase(e) \in Nat /\ Base(e) \in Nat
      /\ e.open <= AndBase(e) /\ AndBase(e) <= LeafBase(e) /\ LeafBase(e) <= Base(e)
      /\ e.orExpr \in Nat /\ e.andExpr \in Nat /\ e.comparison \in Nat
  BY BaseOrder DEF Entries
<1>3. /\ e.orExpr # Null => e.orExpr <= Base(e)
      /\ e.andExpr # Null => e.andExpr <= Base(e)
      /\ e.comparison # Null => e.comparison <= Base(e)
  BY <1>2 DEF Base, LeafBase, AndBase
<1> QED
  BY <1>1, <1>2, <1>3 DEF EntryOK

\* The top entry of s is replaced by e.
Replaced(s, e, s2) ==
    /\ s2 \in Seq(Entries) /\ Len(s2) = Len(s)
    /\ s2[Len(s)] = e /\ \A k \in 1..Len(s) - 1 : s2[k] = s[k]

LEMMA TopReplaced ==
  ASSUME NEW s \in Seq(Entries), Len(s) > 0, NEW e \in Entries
  PROVE  Replaced(s, e, [s EXCEPT ![Len(s)] = e])
<1> DEFINE m == Len(s)
           s2 == [s EXCEPT ![m] = e]
<1>1. s \in Seq(Entries) /\ m \in Nat /\ m > 0 /\ DOMAIN s = 1..m
  BY LenProperties
<1>2. s2 \in Seq(Entries) /\ Len(s2) = m
  BY <1>1, ExceptSeq
<1>3. s2[m] = e /\ \A k \in 1..m - 1 : s2[k] = s[k]
  <2> HIDE DEF m
  <2>1. m \in DOMAIN s /\ \A k \in 1..m - 1 : k \in DOMAIN s /\ k # m
    BY <1>1
  <2> QED
    BY <2>1
<1> QED
  BY <1>2, <1>3 DEF Replaced

\* The first n nodes keep their operands.
Keeps(l, r, l2, r2, n) == \A i \in 1..n : l2[i] = l[i] /\ r2[i] = r[i]

\* The top entry is replaced, and only nodes behind the others change.
LEMMA StackSet ==
  ASSUME NEW t, NEW l, NEW r, NEW s, NEW c \in Nat, StackOK(t, l, r, s, c),
         NEW l2, NEW r2, NEW s2, NEW e \in Entries,
         Replaced(s, e, s2), e.open = s[Len(s)].open,
         EntryOK(t, l2, r2, e, Len(s) - 1), Base(e) < c,
         Keeps(l, r, l2, r2, s[Len(s)].open - 1)
  PROVE  /\ StackOK(t, l2, r2, s2, c)
         /\ Len(s2) = Len(s) /\ s2[Len(s)] = e
<1> DEFINE m == Len(s)
<1>1. s \in Seq(Entries) /\ m \in Nat /\ m > 0 /\ DOMAIN s = 1..m
  BY LenProperties DEF StackOK
<1>2. s2 \in Seq(Entries) /\ Len(s2) = m
  BY DEF Replaced
<1>3. s2[m] = e /\ \A k \in 1..m - 1 : s2[k] = s[k]
  BY DEF Replaced
<1>4. \A k \in 1..m - 1 : EntryOK(t, l2, r2, s[k], k - 1) /\ Base(s[k]) < c
  <2> TAKE k \in 1..m - 1
  <2>0. k \in 1..m /\ m \in 1..m /\ k < m
    BY <1>1
  <2>1. k \in 1..m /\ EntryOK(t, l, r, s[k], k - 1) /\ Base(s[k]) < s[m].open /\ Base(s[k]) < c
    BY <2>0 DEF StackOK
  <2>2. s[k] \in Entries /\ Base(s[k]) \in Nat /\ s[m].open \in Nat
    <3>1. m \in 1..m
      BY <1>1
    <3> HIDE DEF m
    <3>2. \A i \in 1..m : s[i] \in Entries /\ Base(s[i]) \in Nat /\ s[i].open \in Nat
      BY <1>1, StackEntry DEF m
    <3> QED
      BY <2>1, <3>1, <3>2
  <2>3. \A i \in 1..Base(s[k]) : l2[i] = l[i] /\ r2[i] = r[i]
    BY <2>1, <2>2 DEF Keeps
  <2>4. \A i \in 1..Base(s[k]) - 1 : r2[i] = r[i]
    BY <2>2, <2>3
  <2> QED
    BY <2>1, <2>2, <2>3, <2>4, EntryFrame
<1>5. Base(e) \in Nat
  BY BaseOrder
<1>6. \A k \in 1..m : Base(s[k]) \in Nat /\ s[k].open \in Nat
  BY <1>1, StackEntry
<1> HIDE DEF m
<1>7. \A k \in 1..m : s2[k].open = s[k].open
  BY <1>1, <1>3
<1>8. \A k \in 1..m : EntryOK(t, l2, r2, s2[k], k - 1) /\ Base(s2[k]) < c
  <2> TAKE k \in 1..m
  <2>1. CASE k = m
    BY <1>3, <2>1 DEF m
  <2>2. CASE k # m
    <3>1. k \in 1..m - 1
      BY <1>1, <2>2
    <3> QED
      BY <1>3, <1>4, <1>6, <3>1
  <2> QED
    BY <2>1, <2>2
<1>9. \A k \in 1..m : Separated(t, s2[k].open, k - 1)
  BY <1>7 DEF StackOK, m
<1>10. \A k \in 1..m : k > 1 => /\ s2[k].open = Base(s2[k - 1]) + 1
                                /\ t[s2[k].open].type = "LPAREN"
  <2> TAKE k \in 1..m
  <2>1. SUFFICES ASSUME k > 1 PROVE s2[k].open = Base(s2[k - 1]) + 1 /\ t[s2[k].open].type = "LPAREN"
    OBVIOUS
  <2>2. k - 1 \in 1..m - 1
    BY <1>1, <2>1
  <2>3. s[k].open = Base(s[k - 1]) + 1 /\ t[s[k].open].type = "LPAREN"
    BY <2>1 DEF StackOK, m
  <2> QED
    BY <1>3, <1>7, <2>2, <2>3
<1>11. \A i, k \in 1..m : i < k => Base(s2[i]) < s2[k].open
  <2> TAKE i, k \in 1..m
  <2>1. SUFFICES ASSUME i < k PROVE Base(s2[i]) < s2[k].open
    OBVIOUS
  <2>2. i \in 1..m - 1
    BY <1>1, <2>1
  <2>3. Base(s[i]) < s[k].open
    BY <2>1 DEF StackOK, m
  <2> QED
    BY <1>3, <1>7, <2>2, <2>3
<1>12. s2[1].open = 0
  BY <1>1, <1>7 DEF StackOK
<1> QED
  BY <1>1, <1>2, <1>3, <1>8, <1>9, <1>10, <1>11, <1>12 DEF StackOK, m

\* A parenthesis is opened right behind the base.
LEMMA StackPush ==
  ASSUME NEW t, NEW l, NEW r, NEW s, NEW c \in Nat, StackOK(t, l, r, s, c),
         Base(s[Len(s)]) = c - 1, t[c].type = "LPAREN", Separated(t, c, Len(s))
  PROVE  /\ StackOK(t, l, r, Append(s, Entry(c)), c + 1)
         /\ Len(Append(s, Entry(c))) = Len(s) + 1
         /\ Append(s, Entry(c))[Len(s) + 1] = Entry(c) /\ Base(Entry(c)) = c
<1> DEFINE m == Len(s)
           e == Entry(c)
           s2 == Append(s, e)
<1>1. s \in Seq(Entries) /\ m \in Nat /\ m > 0 /\ DOMAIN s = 1..m
  BY LenProperties DEF StackOK
<1>2. e \in Entries /\ e.open = c /\ Base(e) = c /\ EntryOK(t, l, r, e, m)
  BY DEF Entry, Entries, EntryOK, Base, LeafBase, AndBase, Null
<1> HIDE DEF e
<1>3. /\ s2 \in Seq(Entries) /\ Len(s2) = m + 1
      /\ s2[m + 1] = e /\ \A k \in 1..m : s2[k] = s[k]
  BY <1>1, <1>2, AppendProperties
<1> HIDE DEF s2, m
<1>4. \A k \in 1..m : EntryOK(t, l, r, s[k], k - 1) /\ Separated(t, s[k].open, k - 1) /\ Base(s[k]) < c
  BY DEF StackOK, m
<1>5. \A k \in 1..m : Base(s[k]) \in Nat /\ s[k].open \in Nat
  BY <1>1, StackEntry DEF m
<1>6. \A k \in 1..m + 1 :
        EntryOK(t, l, r, s2[k], k - 1) /\ Separated(t, s2[k].open, k - 1) /\ Base(s2[k]) < c + 1
  <2> TAKE k \in 1..m + 1
  <2>1. CASE k = m + 1
    BY <1>1, <1>2, <1>3, <2>1 DEF m
  <2>2. CASE k # m + 1
    <3>1. k \in 1..m
      BY <1>1, <2>2
    <3> QED
      BY <1>3, <1>4, <1>5, <3>1
  <2> QED
    BY <2>1, <2>2
<1>7. \A k \in 1..m + 1 : k > 1 => /\ s2[k].open = Base(s2[k - 1]) + 1
                                   /\ t[s2[k].open].type = "LPAREN"
  <2> TAKE k \in 1..m + 1
  <2>1. SUFFICES ASSUME k > 1 PROVE s2[k].open = Base(s2[k - 1]) + 1 /\ t[s2[k].open].type = "LPAREN"
    OBVIOUS
  <2>2. CASE k = m + 1
    <3>1. s2[k - 1] = s[m] /\ m \in 1..m
      BY <1>1, <1>3, <2>2
    <3>2. Base(s[m]) = c - 1 /\ t[c].type = "LPAREN"
      BY DEF m
    <3>3. s2[k].open = c
      BY <1>2, <1>3, <2>2
    <3> QED
      BY <3>1, <3>2, <3>3
  <2>3. CASE k # m + 1
    <3>1. k \in 1..m /\ k - 1 \in 1..m
      BY <1>1, <2>1, <2>3
    <3>2. s[k].open = Base(s[k - 1]) + 1 /\ t[s[k].open].type = "LPAREN"
      BY <2>1, <3>1 DEF StackOK, m
    <3> QED
      BY <1>3, <3>1, <3>2
  <2> QED
    BY <2>2, <2>3
<1>8. \A i, k \in 1..m + 1 : i < k => Base(s2[i]) < s2[k].open
  <2> TAKE i, k \in 1..m + 1
  <2>1. SUFFICES ASSUME i < k PROVE Base(s2[i]) < s2[k].open
    OBVIOUS
  <2>2. i \in 1..m /\ s2[i] = s[i]
    BY <1>1, <1>3, <2>1
  <2>3. CASE k = m + 1
    BY <1>2, <1>3, <1>4, <2>2, <2>3
  <2>4. CASE k # m + 1
    <3>1. k \in 1..m
      BY <1>1, <2>4
    <3>2. Base(s[i]) < s[k].open
      BY <2>1, <2>2, <3>1 DEF StackOK, m
    <3> QED
      BY <1>3, <2>2, <3>1, <3>2
  <2> QED
    BY <2>3, <2>4
<1>9. s2[1].open = 0
  BY <1>1, <1>3 DEF StackOK
<1>10. StackOK(t, l, r, s2, c + 1)
  BY <1>1, <1>3, <1>6, <1>7, <1>8, <1>9 DEF StackOK
<1> QED
  BY <1>2, <1>3, <1>10 DEF s2, e, m

\* A parenthesis is closed.
LEMMA StackPop ==
  ASSUME NEW t, NEW l, NEW r, NEW s, NEW c \in Nat, StackOK(t, l, r, s, c), Len(s) > 1
  PROVE  /\ StackOK(t, l, r, SubSeq(s, 1, Len(s) - 1), c + 1)
         /\ Len(SubSeq(s, 1, Len(s) - 1)) = Len(s) - 1
         /\ SubSeq(s, 1, Len(s) - 1)[Len(s) - 1] = s[Len(s) - 1]
<1> DEFINE m == Len(s)
           s2 == SubSeq(s, 1, m - 1)
<1>1. s \in Seq(Entries) /\ m \in Nat /\ m > 1 /\ DOMAIN s = 1..m
  BY LenProperties DEF StackOK
<1>2. 1 \in 1..m + 1 /\ m - 1 \in 0..m
  BY <1>1
<1>3. /\ s2 \in Seq(Entries) /\ Len(s2) = m - 1
      /\ \A k \in 1..m - 1 : s2[k] = s[k]
  <2>a. \A i \in 1..m - 1 : s[i] \in Entries
    BY <1>1, ElementOfSeq
  <2>1. s2 \in Seq(Entries) /\ Len(s2) = IF 1 <= m - 1 THEN (m - 1) - 1 + 1 ELSE 0
    BY <1>1, <1>2, <2>a, SubSeqProperties
  <2>2. \A k \in 1..(m - 1) - 1 + 1 : s2[k] = s[1 + k - 1]
    BY <1>1, <1>2, <2>a, SubSeqProperties
  <2> HIDE DEF s2, m
  <2>3. Len(s2) = m - 1
    BY <1>1, <2>1
  <2>4. \A k \in 1..m - 1 : k \in 1..(m - 1) - 1 + 1 /\ 1 + k - 1 = k
    BY <1>1
  <2> QED
    BY <2>1, <2>2, <2>3, <2>4
<1> HIDE DEF s2, m
<1>4. \A k \in 1..m - 1 : k \in 1..m /\ (k > 1 => k - 1 \in 1..m - 1)
  BY <1>1
<1>5. \A k \in 1..m - 1 : EntryOK(t, l, r, s[k], k - 1) /\ Separated(t, s[k].open, k - 1) /\ Base(s[k]) < c + 1
  <2> TAKE k \in 1..m - 1
  <2>1. EntryOK(t, l, r, s[k], k - 1) /\ Separated(t, s[k].open, k - 1) /\ Base(s[k]) < c
    BY <1>4 DEF StackOK, m
  <2>2. Base(s[k]) \in Nat
    BY <1>1, <1>4, StackEntry DEF m
  <2> QED
    BY <2>1, <2>2
<1>6. \A k \in 1..m - 1 : k > 1 => /\ s[k].open = Base(s[k - 1]) + 1
                                   /\ t[s[k].open].type = "LPAREN"
  BY <1>4 DEF StackOK, m
<1>7. \A i, k \in 1..m - 1 : i < k => Base(s[i]) < s[k].open
  BY <1>4 DEF StackOK, m
<1>8. s2[1].open = 0 /\ Len(s2) > 0
  <2>1. s[1].open = 0 /\ 1 \in 1..m - 1
    BY <1>1 DEF StackOK
  <2> QED
    BY <1>1, <1>3, <2>1
<1>11. \A k \in 1..Len(s2) : /\ EntryOK(t, l, r, s2[k], k - 1) /\ Separated(t, s2[k].open, k - 1)
                             /\ Base(s2[k]) < c + 1
  BY <1>3, <1>5
<1>12. \A k \in 1..Len(s2) : k > 1 => /\ s2[k].open = Base(s2[k - 1]) + 1
                                      /\ t[s2[k].open].type = "LPAREN"
  BY <1>3, <1>4, <1>6
<1>13. \A i, k \in 1..Len(s2) : i < k => Base(s2[i]) < s2[k].open
  BY <1>3, <1>7
<1>9. StackOK(t, l, r, s2, c + 1)
  BY <1>3, <1>8, <1>11, <1>12, <1>13 DEF StackOK
<1>10. m - 1 \in 1..m - 1
  BY <1>1
<1> QED
  BY <1>3, <1>9, <1>10 DEF s2, m

\* More has been read.
LEMMA StackMore ==
  ASSUME NEW t, NEW l, NEW r, NEW s, NEW c \in Nat, NEW c2 \in Nat, c <= c2, StackOK(t, l, r, s, c)
  PROVE  StackOK(t, l, r, s, c2)
<1>1. \A k \in 1..Len(s) : Base(s[k]) \in Nat
  BY StackEntry DEF StackOK
<1>2. \A k \in 1..Len(s) : Base(s[k]) < c2
  BY <1>1 DEF StackOK
<1> QED
  BY <1>2 DEF StackOK

\* The base is an open parenthesis, or the operator of this depth that came last.
LEMMA BaseIsLoose ==
  ASSUME NEW t, NEW l, NEW r, NEW e \in Entries, NEW d \in Nat, EntryOK(t, l, r, e, d)
  PROVE  \/ /\ Base(e) = e.open /\ LeafBase(e) = e.open /\ AndBase(e) = e.open
            /\ e.comparison = Null /\ e.andExpr = Null /\ e.orExpr = Null
         \/ /\ IsOperator(t, Base(e)) /\ Base(e) > 0 /\ Depth(t, Base(e)) = d
            /\ Tightness(t, Base(e)) \in Int /\ Tightness(t, Base(e)) <= 3 * d + 2
            /\ e.comparison = Null =>
                 t[Base(e)].type \in {"AND", "OR"} /\ Tightness(t, Base(e)) <= 3 * d + 1
<1>1. \A i \in Nat \ {0} : IsOperator(t, i) /\ Depth(t, i) = d =>
        /\ Tightness(t, i) \in Int /\ Tightness(t, i) <= 3 * d + 2
        /\ t[i].type \in {"AND", "OR"} => Tightness(t, i) <= 3 * d + 1
  <2> TAKE i \in Nat \ {0}
  <2> SUFFICES ASSUME IsOperator(t, i), Depth(t, i) = d
               PROVE  /\ Tightness(t, i) \in Int /\ Tightness(t, i) <= 3 * d + 2
                      /\ t[i].type \in {"AND", "OR"} => Tightness(t, i) <= 3 * d + 1
    OBVIOUS
  <2>1. /\ Tightness(t, i) \in Int
        /\ t[i].type = "OR" => Tightness(t, i) = 3 * d
        /\ t[i].type = "AND" => Tightness(t, i) = 3 * d + 1
        /\ t[i].type \in ComparisonOp => Tightness(t, i) = 3 * d + 2
    BY OperatorTightness
  <2> QED
    BY <2>1 DEF IsOperator
<1>2. e.orExpr \in Nat /\ e.andExpr \in Nat /\ e.comparison \in Nat
  BY DEF Entries
<1>3. CASE e.comparison # Null
  BY <1>1, <1>2, <1>3 DEF EntryOK, Base, IsOperator, Null
<1>4. CASE e.comparison = Null /\ e.andExpr # Null
  BY <1>1, <1>2, <1>4 DEF EntryOK, Base, LeafBase, IsOperator, Null
<1>5. CASE e.comparison = Null /\ e.andExpr = Null /\ e.orExpr # Null
  BY <1>1, <1>2, <1>5 DEF EntryOK, Base, LeafBase, AndBase, IsOperator, Null
<1>6. CASE e.comparison = Null /\ e.andExpr = Null /\ e.orExpr = Null
  BY <1>6 DEF Base, LeafBase, AndBase
<1> QED
  BY <1>3, <1>4, <1>5, <1>6

\* What a parenthesis that is opened needs.
LEMMA PushSeparated ==
  ASSUME NEW t, NEW l, NEW r, NEW e \in Entries, NEW m \in Nat, NEW c \in Nat, m > 0,
         EntryOK(t, l, r, e, m - 1), Separated(t, e.open, m - 1), Base(e) = c - 1,
         t[c].type = "LPAREN"
  PROVE  Separated(t, c, m)
<1> SUFFICES ASSUME NEW i \in Operators(t, 1, c), Tightness(t, i) >= 3 * m
             PROVE  \E k \in Operators(t, i + 1, c) : Tightness(t, k) < 3 * m
  BY DEF Separated
<1>1. i # c
  BY DEF Operators, IsOperator, ComparisonOp
<1>2. i \in Nat /\ i > 0 /\ i <= c - 1 /\ IsOperator(t, i)
  BY <1>1 DEF Operators
<1>3. Tightness(t, i) \in Int /\ m - 1 \in Nat
  BY <1>2, OperatorTightness
<1>4. CASE Base(e) = e.open
  <2>1. i \in Operators(t, 1, e.open)
    BY <1>2, <1>4 DEF Operators
  <2>2. PICK k \in Operators(t, i + 1, e.open) : Tightness(t, k) < 3 * (m - 1)
    BY <1>3, <2>1 DEF Separated
  <2>3. k \in Operators(t, i + 1, c) /\ k \in Nat /\ k > 0 /\ IsOperator(t, k)
    BY <1>2, <1>4, <2>2 DEF Operators
  <2>4. Tightness(t, k) \in Int
    BY <2>3, OperatorTightness
  <2> QED
    BY <2>2, <2>3, <2>4
<1>5. CASE /\ IsOperator(t, Base(e)) /\ Tightness(t, Base(e)) \in Int
           /\ Tightness(t, Base(e)) <= 3 * (m - 1) + 2
  <2>1. i # Base(e)
    BY <1>3, <1>5
  <2>2. Base(e) \in Operators(t, i + 1, c)
    BY <1>2, <1>5, <2>1 DEF Operators
  <2> QED
    BY <1>5, <2>2
<1> QED
  BY <1>3, <1>4, <1>5, BaseIsLoose

------------------------------------------------------------------------------
(* What has been read.                                                     *)

\* The n-th token fits the one before it.
Fits(t, n) == StartsOperand(t, n) <=> (n = 1 \/ ~EndsOperand(t, n - 1))

\* It can be the beginning of a sentence, with m - 1 parentheses open.
ReadOK(t, n, m) ==
    /\ \A i \in 1..n : Fits(t, i) /\ Depth(t, i) >= 0
    /\ Depth(t, n) = m - 1
    /\ Unchained(t, n)

\* A comparison to which the next one at this depth would be chained.
Chained(t, n, m) ==
    \E c \in Operators(t, 1, n) :
        /\ t[c].type \in ComparisonOp /\ Depth(t, c) = m - 1
        /\ AtLeast(t, Tightness(t, c), c, n)

LEMMA ReadNext ==
  ASSUME NEW t, NEW n \in Nat, NEW m \in Nat, NEW m2 \in Nat, ReadOK(t, n, m),
         Fits(t, n + 1), Depth(t, n + 1) = m2 - 1, m2 > 0,
         t[n + 1].type \in ComparisonOp =>
             \A i \in Operators(t, 1, n) :
                 t[i].type \in ComparisonOp /\ Depth(t, i) = m2 - 1 =>
                     \E k \in Operators(t, i, n + 1) : Tightness(t, k) < Tightness(t, i)
  PROVE  ReadOK(t, n + 1, m2)
<1>1. \A i \in 1..n + 1 : Fits(t, i) /\ Depth(t, i) >= 0
  <2> TAKE i \in 1..n + 1
  <2>1. i \in 1..n \/ i = n + 1
    OBVIOUS
  <2> QED
    BY <2>1 DEF ReadOK
<1>2. Unchained(t, n + 1)
  <2> SUFFICES ASSUME NEW i \in Operators(t, 1, n + 1), NEW j \in Operators(t, 1, n + 1), i < j,
                      t[i].type \in ComparisonOp, t[j].type \in ComparisonOp,
                      Depth(t, i) = Depth(t, j)
               PROVE  \E k \in Operators(t, i, j) : Tightness(t, k) < Tightness(t, i)
    BY DEF Unchained
  <2>1. i \in Operators(t, 1, n)
    BY DEF Operators
  <2>2. CASE j = n + 1
    BY <2>1, <2>2
  <2>3. CASE j # n + 1
    <3>1. j \in Operators(t, 1, n)
      BY <2>3 DEF Operators
    <3> QED
      BY <2>1, <3>1 DEF ReadOK, Unchained
  <2> QED
    BY <2>2, <2>3
<1> QED
  BY <1>1, <1>2 DEF ReadOK

LEMMA ReadAll ==
  ASSUME NEW t, NEW n \in Nat, n > 0, ReadOK(t, n, 1), EndsOperand(t, n)
  PROVE  Sentence(t, n)
BY DEF Sentence, Alternate, Balanced, ReadOK, Fits

\* What cannot be read ends no sentence.
LEMMA UnreadFits ==
  ASSUME NEW t, NEW n, NEW i \in 1..n, ~Fits(t, i)
  PROVE  ~Sentence(t, n)
BY DEF Sentence, Alternate, Fits

LEMMA UnreadChained ==
  ASSUME NEW t, NEW n \in Nat, NEW k \in Nat, NEW m \in Nat, n + 1 <= k, Chained(t, n, m),
         t[n + 1].type \in ComparisonOp, Depth(t, n) = m - 1
  PROVE  ~Sentence(t, k)
<1>1. PICK c \in Operators(t, 1, n) :
        /\ t[c].type \in ComparisonOp /\ Depth(t, c) = m - 1
        /\ AtLeast(t, Tightness(t, c), c, n)
  BY DEF Chained
<1>2. IsOperator(t, n + 1) /\ c \in 1..n /\ IsOperator(t, c)
  BY DEF IsOperator, Operators
<1>3. Depth(t, n + 1) = m - 1
  <2>1. Depth(t, n + 1) = Depth(t, (n + 1) - 1)
    BY <1>2, OperatorTightness
  <2> QED
    BY <2>1
<1>4. Tightness(t, n + 1) = 3 * (m - 1) + 2 /\ Tightness(t, c) = 3 * (m - 1) + 2
  BY <1>1, <1>2, <1>3, OperatorTightness
<1>5. \A j \in Operators(t, c, n + 1) : ~(Tightness(t, j) < Tightness(t, c))
  <2> TAKE j \in Operators(t, c, n + 1)
  <2>1. j \in Operators(t, c, n) \/ j = n + 1
    BY <1>2 DEF Operators
  <2>2. IsOperator(t, j) /\ j \in Nat /\ j > 0
    BY <1>2 DEF Operators
  <2>3. Tightness(t, j) \in Int
    BY <2>2, OperatorTightness
  <2> QED
    BY <1>1, <1>4, <2>1, <2>3 DEF AtLeast
<1>6. c \in Operators(t, 1, k) /\ n + 1 \in Operators(t, 1, k) /\ c < n + 1
  BY <1>2 DEF Operators
<1> QED
  BY <1>1, <1>3, <1>5, <1>6 DEF Sentence, Unchained

------------------------------------------------------------------------------
(* The invariant of the parser.                                            *)

ParseType ==
    /\ IsTokens(tokens)
    /\ cur \in 1..Len(tokens) + 1 /\ node \in Nat
    /\ at \in {"start", "primary", "return", "end"} \cup Function
    /\ left \in [1..Len(tokens) -> Nat] /\ right \in [1..Len(tokens) -> Nat]

\* An operand comes next, or one has just been read.
PlaceOK ==
    IF at = "primary" THEN cur = 1 \/ ~EndsOperand(tokens, cur - 1)
    ELSE cur > 1 /\ EndsOperand(tokens, cur - 1)

\* How tight the operators in node are at least.
Floor ==
    IF at = "comparison" THEN 3 * Len(stack)
    ELSE IF at = "andExpr" THEN 3 * Len(stack) - (IF Top.andExpr # Null THEN 1 ELSE 2)
    ELSE IF at = "orExpr" THEN 3 * Len(stack) - (IF Top.orExpr # Null THEN 2 ELSE 3)
    ELSE 3 * Len(stack) - 3

\* Node is the tree of all that was read behind the base.
NodeOK ==
    IF at = "primary" THEN Base(Top) = cur - 1
    ELSE /\ IsTree(tokens, left, right, node, Base(Top) + 1, cur - 1)
         /\ AtLeast(tokens, Floor, Base(Top) + 1, cur - 1)
         /\ node > 0

\* Who has returned waits for nothing, and what follows is none of its operators.
ReturnedOK ==
    /\ at \in {"andExpr", "orExpr", "return"} =>
         Top.comparison = Null /\ (Cur \in ComparisonOp => Chained(tokens, cur - 1, Len(stack)))
    /\ at \in {"orExpr", "return"} => Top.andExpr = Null /\ Cur # "AND"
    /\ at = "return" => Top.orExpr = Null /\ Cur # "OR"

Running == at \in {"primary", "return"} \cup Function

RunningOK ==
    /\ StackOK(tokens, left, right, stack, cur)
    /\ ReadOK(tokens, cur - 1, Len(stack))
    /\ PlaceOK /\ NodeOK /\ ReturnedOK

ParseInv ==
    /\ ParseType
    /\ at = "start" => cur = 1 /\ node = Null
    /\ Running => RunningOK
    /\ LongestSentenceCounts

\* What the steps need of it.
LEMMA TopOK ==
  ASSUME ParseType, RunningOK
  PROVE  /\ Len(stack) \in Nat /\ Len(stack) > 0 /\ Top \in Entries
         /\ stack \in Seq(Entries)
         /\ EntryOK(tokens, left, right, Top, Len(stack) - 1)
         /\ Separated(tokens, Top.open, Len(stack) - 1)
         /\ Base(Top) \in Nat /\ Base(Top) < cur /\ Top.open \in Nat /\ Top.open <= Base(Top)
         /\ cur \in Nat /\ cur > 0 /\ cur - 1 \in Nat /\ Len(tokens) \in Nat
<1>1. stack \in Seq(Entries) /\ Len(stack) \in Nat /\ Len(stack) > 0
  BY LenProperties DEF RunningOK, StackOK
<1>2. Len(stack) \in 1..Len(stack)
  BY <1>1
<1>3. Top \in Entries
  BY <1>1, <1>2, StackEntry DEF Top
<1>4. /\ EntryOK(tokens, left, right, Top, Len(stack) - 1)
      /\ Separated(tokens, Top.open, Len(stack) - 1) /\ Base(Top) < cur
  BY <1>2 DEF RunningOK, StackOK, Top
<1>5. cur \in Nat /\ cur > 0 /\ cur - 1 \in Nat /\ Len(tokens) \in Nat
  BY DEF ParseType, IsTokens
<1>6. Base(Top) \in Nat /\ Top.open \in Nat /\ Top.open <= Base(Top)
  BY <1>3, <1>4, BaseOrder
<1> QED
  BY <1>1, <1>3, <1>4, <1>5, <1>6

LEMMA CurToken ==
  ASSUME ParseType, Cur # "END"
  PROVE  /\ cur \in 1..Len(tokens) /\ Cur = tokens[cur].type /\ Cur \in TokenType
         /\ cur + 1 \in 1..Len(tokens) + 1
BY DEF ParseType, IsTokens, Cur

\* An entry with one function's operator replaced.
LEMMA SetField ==
  ASSUME NEW e \in Entries, NEW p \in Nat, NEW f \in Function
  PROVE  [e EXCEPT ![f] = p] \in Entries /\ [e EXCEPT ![f] = p].open = e.open
BY DEF Entries, Function

LEMMA SetComparison ==
  ASSUME NEW e \in Entries, NEW p \in Nat, NEW n, n = [e EXCEPT !["comparison"] = p]
  PROVE  n.comparison = p /\ n.andExpr = e.andExpr /\ n.orExpr = e.orExpr
BY DEF Entries

LEMMA SetAnd ==
  ASSUME NEW e \in Entries, NEW p \in Nat, NEW n, n = [e EXCEPT !["andExpr"] = p]
  PROVE  n.comparison = e.comparison /\ n.andExpr = p /\ n.orExpr = e.orExpr
BY DEF Entries

LEMMA SetOr ==
  ASSUME NEW e \in Entries, NEW p \in Nat, NEW n, n = [e EXCEPT !["orExpr"] = p]
  PROVE  n.comparison = e.comparison /\ n.andExpr = e.andExpr /\ n.orExpr = p
BY DEF Entries

LEMMA ParseStart == ParseInit => ParseInv
<1> SUFFICES ASSUME ParseInit PROVE ParseInv
  OBVIOUS
<1>1. IsTokens(tokens)
  BY TokenAssumption DEF ParseInit, Parser, IsTokens
<1>2. /\ at = "start" /\ cur = 1 /\ node = Null
      /\ left \in [1..Len(tokens) -> Nat] /\ right \in [1..Len(tokens) -> Nat]
  BY <1>1 DEF ParseInit, Parser, IsTokens, Null
<1>3. ParseType
  BY <1>1, <1>2 DEF ParseType, IsTokens, Null
<1> QED
  BY <1>2, <1>3 DEF ParseInv, Running, Function, LongestSentenceCounts

LEMMA ParseBegins ==
  ASSUME ParseInv, Parse
  PROVE  ParseInv'
<1>1. ParseType /\ at = "start" /\ cur = 1 /\ IsTokens(tokens)
  BY DEF ParseInv, Parse, ParseType
<1>2. ParseType'
  BY <1>1 DEF ParseType, Parse
<1>3. CASE tokens = <<>>
  <2>1. at' = "end" /\ tokens' = tokens /\ node' = node
    BY <1>3 DEF Parse
  <2>2. Len(tokens) = 0
    BY <1>3
  <2>3. LongestSentenceCounts'
    <3>1. \A n : n \in DOMAIN tokens => FALSE
      BY <1>1, <2>2 DEF IsTokens
    <3>2. ~Sentence(tokens, Len(tokens))
      BY <2>2 DEF Sentence, Alternate
    <3>3. node = Null
      BY <1>1 DEF ParseInv
    <3> QED
      BY <2>1, <3>2, <3>3 DEF LongestSentenceCounts
  <2> QED
    BY <1>2, <2>1, <2>3 DEF ParseInv, Running, Function
<1>4. CASE tokens # <<>>
  <2>1. /\ at' = "primary" /\ stack' = <<Entry(0)>>
        /\ UNCHANGED <<tokens, cur, node, left, right>>
    BY <1>4 DEF Parse
  <2>2. /\ Entry(0) \in Entries /\ Entry(0).open = 0 /\ Base(Entry(0)) = 0
        /\ EntryOK(tokens, left, right, Entry(0), 0)
    BY DEF Entry, Entries, EntryOK, Base, LeafBase, AndBase, Null
  <2>3. Separated(tokens, 0, 0)
    BY DEF Separated, Operators
  <2>4. stack' \in Seq(Entries) /\ Len(stack') = 1 /\ stack'[1] = Entry(0)
    BY <2>1, <2>2
  <2>5. StackOK(tokens, left, right, stack', cur)
    BY <1>1, <2>2, <2>3, <2>4 DEF StackOK
  <2>6. ReadOK(tokens, 0, 1)
    <3>1. Depth(tokens, 0) = 0
      BY DepthNext
    <3> QED
      BY <3>1 DEF ReadOK, Unchained, Operators
  <2>7. PlaceOK' /\ NodeOK' /\ ReturnedOK'
    BY <1>1, <2>1, <2>2, <2>4 DEF PlaceOK, NodeOK, ReturnedOK, Top
  <2> QED
    BY <1>1, <1>2, <2>1, <2>4, <2>5, <2>6, <2>7 DEF ParseInv, RunningOK, LongestSentenceCounts
<1> QED
  BY <1>3, <1>4

------------------------------------------------------------------------------
(* The steps of the parser.                                                *)

LEMMA StillRuns ==
  ASSUME ParseType', Running', RunningOK'
  PROVE  ParseInv'
BY DEF ParseInv, Running, Function, LongestSentenceCounts

\* What is returned as nullptr is no sentence.
LEMMA Fails ==
  ASSUME ParseInv, Fail, ~Sentence(tokens, Len(tokens))
  PROVE  ParseInv'
<1>1. /\ at' = "end" /\ node' = Null
      /\ tokens' = tokens /\ cur' = cur /\ left' = left /\ right' = right
  BY DEF Fail
<1>2. ParseType'
  BY <1>1 DEF ParseInv, ParseType, Null
<1>3. LongestSentenceCounts'
  BY <1>1 DEF LongestSentenceCounts
<1> QED
  BY <1>1, <1>2, <1>3 DEF ParseInv, Running, Function

\* Tokens are of one kind.
LEMMA Kinds ==
  /\ "LPAREN" \notin Leaf \cup ComparisonOp /\ "RPAREN" \notin Leaf \cup ComparisonOp
  /\ "AND" \notin Leaf \cup ComparisonOp /\ "OR" \notin Leaf \cup ComparisonOp
  /\ \A type \in Leaf : type \notin ComparisonOp \cup {"LPAREN", "RPAREN", "AND", "OR"}
BY DEF Leaf, ComparisonOp

LEMMA OpensParen ==
  ASSUME ParseInv, at = "primary", OpenParen
  PROVE  ParseInv'
<1>1. ParseType /\ RunningOK /\ IsTokens(tokens)
  BY DEF ParseInv, Running, ParseType
<1>2. cur \in 1..Len(tokens) /\ tokens[cur].type = "LPAREN" /\ cur + 1 \in 1..Len(tokens) + 1
  BY <1>1, CurToken DEF OpenParen
<1>3. /\ tokens' = tokens /\ left' = left /\ right' = right /\ node' = node /\ at' = at
      /\ cur' = cur + 1 /\ stack' = Append(stack, Entry(cur))
  BY DEF OpenParen
<1>4. /\ Len(stack) \in Nat /\ Len(stack) > 0 /\ Top \in Entries /\ cur \in Nat /\ cur - 1 \in Nat
      /\ EntryOK(tokens, left, right, Top, Len(stack) - 1)
      /\ Separated(tokens, Top.open, Len(stack) - 1)
  BY <1>1, TopOK
<1>5. Base(Top) = cur - 1
  BY <1>1 DEF RunningOK, NodeOK
<1>6. Separated(tokens, cur, Len(stack))
  BY <1>2, <1>4, <1>5, PushSeparated
<1>7. /\ StackOK(tokens, left, right, stack', cur')
      /\ Len(stack') = Len(stack) + 1 /\ stack'[Len(stack')] = Entry(cur) /\ Base(Entry(cur)) = cur
  BY <1>1, <1>2, <1>3, <1>4, <1>5, <1>6, StackPush DEF RunningOK, Top
<1>8. ReadOK(tokens, cur, Len(stack) + 1)
  <2>1. Fits(tokens, cur)
    BY <1>1, <1>2 DEF Fits, StartsOperand, RunningOK, PlaceOK
  <2>2. (cur - 1) + 1 = cur /\ ReadOK(tokens, cur - 1, Len(stack))
    BY <1>1, <1>4 DEF RunningOK
  <2>3. Depth(tokens, cur) = Depth(tokens, cur - 1) + 1 /\ Depth(tokens, cur - 1) = Len(stack) - 1
    BY <1>2, <1>4, <2>2, DepthNext DEF ReadOK
  <2>4. Depth(tokens, cur) = (Len(stack) + 1) - 1
    BY <1>4, <2>3
  <2>5. Len(stack) + 1 \in Nat /\ Len(stack) + 1 > 0
    BY <1>4
  <2>6. tokens[(cur - 1) + 1].type \notin ComparisonOp
    BY <1>2, <2>2, Kinds
  <2>7. Fits(tokens, (cur - 1) + 1) /\ Depth(tokens, (cur - 1) + 1) = (Len(stack) + 1) - 1
    BY <2>1, <2>2, <2>4
  <2>8. ReadOK(tokens, (cur - 1) + 1, Len(stack) + 1)
    BY <1>4, <2>2, <2>5, <2>6, <2>7, ReadNext
  <2> QED
    BY <2>2, <2>8
<1>9. ~EndsOperand(tokens, cur)
  BY <1>2, Kinds DEF EndsOperand
<1>10. cur' - 1 = cur
  BY <1>3, <1>4
<1>11. PlaceOK' /\ NodeOK' /\ ReturnedOK'
  BY <1>3, <1>7, <1>9, <1>10 DEF PlaceOK, NodeOK, ReturnedOK, Top
<1>12. RunningOK'
  BY <1>3, <1>7, <1>8, <1>10, <1>11 DEF RunningOK
<1>13. ParseType' /\ Running'
  BY <1>1, <1>2, <1>3 DEF ParseType, Running
<1> QED
  BY <1>12, <1>13, StillRuns

LEMMA MakesLeaf ==
  ASSUME ParseInv, at = "primary", MakeLeaf
  PROVE  ParseInv'
<1>1. ParseType /\ RunningOK /\ IsTokens(tokens)
  BY DEF ParseInv, Running, ParseType
<1>2. /\ cur \in 1..Len(tokens) /\ tokens[cur].type \in Leaf /\ cur + 1 \in 1..Len(tokens) + 1
  <2>1. Cur # "END"
    BY DEF MakeLeaf, Leaf
  <2> QED
    BY <1>1, <2>1, CurToken DEF MakeLeaf
<1>3. /\ tokens' = tokens /\ left' = left /\ right' = right /\ stack' = stack
      /\ cur' = cur + 1 /\ node' = cur /\ at' = "comparison"
  BY DEF MakeLeaf
<1>4. Len(stack) \in Nat /\ Len(stack) > 0 /\ cur \in Nat /\ cur > 0 /\ cur - 1 \in Nat
  BY <1>1, TopOK
<1>5. Base(Top) = cur - 1
  BY <1>1 DEF RunningOK, NodeOK
<1>6. StackOK(tokens, left, right, stack, cur + 1)
  BY <1>1, <1>4, StackMore DEF RunningOK
<1>7. ReadOK(tokens, cur, Len(stack))
  <2>1. (cur - 1) + 1 = cur /\ ReadOK(tokens, cur - 1, Len(stack))
    BY <1>1, <1>4 DEF RunningOK
  <2>2. Fits(tokens, (cur - 1) + 1)
    BY <1>1, <1>2, <2>1 DEF Fits, StartsOperand, RunningOK, PlaceOK
  <2>3. tokens[(cur - 1) + 1].type \notin ComparisonOp \cup {"LPAREN", "RPAREN"}
    BY <1>2, <2>1, Kinds
  <2>4. Depth(tokens, (cur - 1) + 1) = Len(stack) - 1
    BY <1>4, <2>1, <2>3, DepthNext DEF ReadOK
  <2>5. ReadOK(tokens, (cur - 1) + 1, Len(stack))
    BY <1>4, <2>1, <2>2, <2>3, <2>4, ReadNext
  <2> QED
    BY <2>1, <2>5
<1>8. cur' - 1 = cur /\ cur' > 1 /\ Base(Top') + 1 = cur
  BY <1>3, <1>4, <1>5 DEF Top
<1>9. EndsOperand(tokens, cur)
  BY <1>2 DEF EndsOperand
<1>10. PlaceOK' /\ ReturnedOK'
  BY <1>3, <1>8, <1>9 DEF PlaceOK, ReturnedOK
<1>11. IsTree(tokens, left, right, cur, cur, cur) /\ Operators(tokens, cur, cur) = {}
  BY <1>2, <1>4, LeafTree
<1>12. NodeOK'
  BY <1>3, <1>4, <1>8, <1>11 DEF NodeOK, AtLeast
<1>13. RunningOK'
  BY <1>3, <1>6, <1>7, <1>8, <1>10, <1>12 DEF RunningOK
<1>14. ParseType' /\ Running'
  BY <1>1, <1>2, <1>3, <1>4 DEF ParseType, Running, Function
<1> QED
  BY <1>13, <1>14, StillRuns

\* No operand comes where one must.
LEMMA FailsAtPrimary ==
  ASSUME ParseInv, at = "primary", Cur \notin Leaf \cup {"LPAREN"}, Fail
  PROVE  ParseInv'
<1>1. ParseType /\ RunningOK
  BY DEF ParseInv, Running
<1>2. cur = 1 \/ ~EndsOperand(tokens, cur - 1)
  BY <1>1 DEF RunningOK, PlaceOK
<1>3. Len(tokens) \in Nat /\ cur \in 1..Len(tokens) + 1
  BY <1>1 DEF ParseType, IsTokens
<1>4. CASE cur > Len(tokens)
  <2>1. Len(tokens) = cur - 1
    BY <1>3, <1>4
  <2>2. ~Sentence(tokens, Len(tokens))
    BY <1>2, <1>3, <2>1 DEF Sentence, Alternate
  <2> QED
    BY <2>2, Fails
<1>5. CASE ~(cur > Len(tokens))
  <2>1. Cur = tokens[cur].type /\ cur \in 1..Len(tokens)
    BY <1>3, <1>5 DEF Cur
  <2>2. ~Fits(tokens, cur)
    BY <1>2, <2>1 DEF Fits, StartsOperand
  <2>3. ~Sentence(tokens, Len(tokens))
    BY <2>1, <2>2, UnreadFits
  <2> QED
    BY <2>3, Fails
<1> QED
  BY <1>4, <1>5

\* A map of operands has node for p.
SetsNode(p, r2) ==
    r2[p] = node /\ \A i \in 1..Len(tokens) : i # p => r2[i] = right[i]

\* The base operator gets node as its right operand, and waits no longer.
LEMMA Joins ==
  ASSUME ParseType, RunningOK, node > 0, NEW p \in Nat, NEW from \in Nat, NEW floor \in Int, NEW e \in Entries,
         p > 0, p = Base(Top), IsOperator(tokens, p), Tightness(tokens, p) = floor,
         Waits(tokens, left, right, p, from, floor),
         IsTree(tokens, left, right, node, p + 1, cur - 1),
         AtLeast(tokens, floor + 1, p + 1, cur - 1),
         e.open = Top.open, Base(e) = from, EntryOK(tokens, left, right, e, Len(stack) - 1),
         NEW r2, SetsNode(p, r2), NEW s2, Replaced(stack, e, s2)
  PROVE  /\ StackOK(tokens, left, r2, s2, cur) /\ Len(s2) = Len(stack) /\ s2[Len(stack)] = e
         /\ IsTree(tokens, left, r2, p, from + 1, cur - 1)
         /\ AtLeast(tokens, floor, from + 1, cur - 1) /\ AtLeast(tokens, floor, p, cur - 1)
<1>1. /\ Len(stack) \in Nat /\ cur \in Nat /\ cur - 1 \in Nat /\ p < cur /\ Len(tokens) \in Nat
      /\ cur <= Len(tokens) + 1 /\ Top.open \in Nat /\ from < p /\ node \in Nat
      /\ p \in Nat /\ p > 0 /\ from \in Nat
  <2>1. /\ Len(stack) \in Nat /\ cur \in Nat /\ cur - 1 \in Nat /\ Base(Top) < cur
        /\ Len(tokens) \in Nat /\ Top.open \in Nat
    BY TopOK
  <2>2. cur <= Len(tokens) + 1 /\ node \in Nat
    BY <2>1 DEF ParseType
  <2>3. from < p
    BY DEF Waits
  <2> QED
    BY <2>1, <2>2, <2>3
<1>3. r2[p] = node /\ \A i \in 1..cur - 1 : i # p => r2[i] = right[i]
  BY <1>1 DEF SetsNode
<1>4. \A i \in 1..p - 1 : r2[i] = right[i]
  <2>1. \A i \in 1..p - 1 : i \in 1..cur - 1 /\ i # p
    BY ONLY <1>1
  <2> QED
    BY ONLY <1>3, <2>1
<1>5. Top.open <= from
  <2>1. e.open <= Base(e)
    <3>1. /\ e.open \in Nat /\ AndBase(e) \in Nat /\ LeafBase(e) \in Nat /\ Base(e) \in Nat
          /\ e.open <= AndBase(e) /\ AndBase(e) <= LeafBase(e) /\ LeafBase(e) <= Base(e)
      BY BaseOrder
    <3> QED
      BY ONLY <3>1
  <2> QED
    BY <2>1
<1>6. EntryOK(tokens, left, r2, e, Len(stack) - 1)
  <2>1. \A i \in 1..from - 1 : i \in 1..p - 1
    BY ONLY <1>1
  <2>2. \A i \in 1..Base(e) - 1 : r2[i] = right[i]
    BY <1>4, <2>1
  <2> QED
    BY <2>2, EntryFrame
<1>7. StackOK(tokens, left, r2, s2, cur) /\ Len(s2) = Len(stack) /\ s2[Len(stack)] = e
  <2>0. \A i \in 1..Top.open - 1 : i \in 1..p - 1
    BY ONLY <1>1, <1>5
  <2>1. \A i \in 1..Top.open - 1 : left[i] = left[i] /\ r2[i] = right[i]
    BY <1>4, <2>0
  <2>2. Base(e) < cur
    BY <1>1
  <2>3. StackOK(tokens, left, right, stack, cur)
    BY <1>1 DEF RunningOK
  <2>4. e.open = stack[Len(stack)].open
    BY DEF Top
  <2>5. Keeps(left, right, left, r2, stack[Len(stack)].open - 1)
    BY <2>1 DEF Top, Keeps
  <2> QED
    BY ONLY <1>1, <1>6, <2>2, <2>3, <2>4, <2>5, StackSet, e \in Entries, Replaced(stack, e, s2)
<1>8. IsTree(tokens, left, r2, left[p], from + 1, p - 1)
  <2>1. \A i \in Operators(tokens, from + 1, p - 1) : left[i] = left[i] /\ r2[i] = right[i]
    BY <1>1, <1>4 DEF Operators
  <2>2. IsTree(tokens, left, right, left[p], from + 1, p - 1)
    BY DEF Waits
  <2> QED
    BY ONLY <2>1, <2>2, TreeFrame
<1>9. IsTree(tokens, left, r2, r2[p], p + 1, cur - 1)
  <2>1. \A i \in Operators(tokens, p + 1, cur - 1) : left[i] = left[i] /\ r2[i] = right[i]
    BY <1>1, <1>3 DEF Operators
  <2>2. IsTree(tokens, left, right, r2[p], p + 1, cur - 1)
    BY <1>3
  <2> QED
    BY ONLY <2>1, <2>2, TreeFrame
<1>10. \A j \in Operators(tokens, from + 1, cur - 1) : Tightness(tokens, j) \in Int
  <2> TAKE j \in Operators(tokens, from + 1, cur - 1)
  <2>1. j \in Nat /\ j > 0 /\ IsOperator(tokens, j)
    BY <1>1 DEF Operators
  <2> QED
    BY <2>1, OperatorTightness
<1>11. AtLeast(tokens, floor, from + 1, p - 1)
  BY DEF Waits
<1>12. IsTree(tokens, left, r2, p, from + 1, cur - 1)
  <2>1. from + 1 \in Nat
    OBVIOUS
  <2>2. AtLeast(tokens, Tightness(tokens, p), from + 1, p - 1)
    BY <1>11
  <2>3. AtLeast(tokens, Tightness(tokens, p) + 1, p + 1, cur - 1)
    OBVIOUS
  <2>4. Tightness(tokens, p) \in Int
    OBVIOUS
  <2> QED
    BY <1>1, <1>8, <1>9, <1>10, <2>1, <2>2, <2>3, <2>4, TreeJoin
<1>13. AtLeast(tokens, floor, from + 1, cur - 1)
  <2> SUFFICES ASSUME NEW j \in Operators(tokens, from + 1, cur - 1)
               PROVE  Tightness(tokens, j) >= floor
    BY DEF AtLeast
  <2>1. \/ j \in Operators(tokens, from + 1, p - 1) \/ j = p
        \/ j \in Operators(tokens, p + 1, cur - 1)
    BY <1>1 DEF Operators
  <2>2. CASE j \in Operators(tokens, from + 1, p - 1)
    BY <1>11, <2>2 DEF AtLeast
  <2>3. CASE j = p
    BY <2>3
  <2>4. CASE j \in Operators(tokens, p + 1, cur - 1)
    <3>1. Tightness(tokens, j) >= floor + 1
      BY <2>4 DEF AtLeast
    <3> QED
      BY <1>10, <3>1
  <2> QED
    BY <2>1, <2>2, <2>3, <2>4
<1>14. AtLeast(tokens, floor, p, cur - 1)
  <2>1. \A j \in Operators(tokens, p, cur - 1) : j \in Operators(tokens, from + 1, cur - 1)
    BY <1>1 DEF Operators
  <2> QED
    BY <1>13, <2>1 DEF AtLeast
<1> QED
  BY <1>7, <1>12, <1>13, <1>14

LEMMA AtLeastWeaken ==
  ASSUME NEW t, NEW a \in Nat, NEW b \in Nat, NEW floor \in Int, NEW lower \in Int, lower <= floor,
         a > 0, AtLeast(t, floor, a, b)
  PROVE  AtLeast(t, lower, a, b)
<1> SUFFICES ASSUME NEW j \in Operators(t, a, b) PROVE Tightness(t, j) >= lower
  BY DEF AtLeast
<1>1. j \in Nat /\ j > 0 /\ IsOperator(t, j)
  BY DEF Operators
<1>2. Tightness(t, j) \in Int
  BY <1>1, OperatorTightness
<1> QED
  BY <1>2 DEF AtLeast

LEMMA MakesBinary ==
  ASSUME ParseInv, NEW f \in Function, NEW next, at = f, MakeBinary(f, next),
         next = IF f = "comparison" THEN "andExpr" ELSE f
  PROVE  ParseInv'
<1>1. ParseType /\ RunningOK
  BY DEF ParseInv, Running
<1>2. /\ Len(stack) \in Nat /\ Len(stack) > 0 /\ Top \in Entries /\ stack \in Seq(Entries)
      /\ EntryOK(tokens, left, right, Top, Len(stack) - 1)
      /\ cur \in Nat /\ cur - 1 \in Nat /\ Base(Top) \in Nat
  BY <1>1, TopOK
<1> DEFINE p == Top[f]
           e == [Top EXCEPT ![f] = Null]
           floor == Floor - 1
           from == IF f = "comparison" THEN LeafBase(Top)
                   ELSE IF f = "andExpr" THEN AndBase(Top) ELSE Top.open
<1>3. /\ p # Null /\ right' = [right EXCEPT ![p] = node] /\ node' = p /\ at' = next
      /\ tokens' = tokens /\ cur' = cur /\ left' = left
  BY DEF MakeBinary
<1>4. Replaced(stack, e, stack')
  <2>1. stack' = [stack EXCEPT ![Len(stack)] = [@ EXCEPT ![f] = Null]]
    BY DEF MakeBinary, SetTop
  <2>2. stack' = [stack EXCEPT ![Len(stack)] = e]
    BY <2>1 DEF Top
  <2>3. e \in Entries
    BY <1>2, SetField DEF Null
  <2> HIDE DEF e
  <2> QED
    BY <1>2, <2>2, <2>3, TopReplaced
<1>5. /\ node > 0 /\ IsTree(tokens, left, right, node, Base(Top) + 1, cur - 1)
      /\ AtLeast(tokens, Floor, Base(Top) + 1, cur - 1)
  BY <1>1 DEF RunningOK, NodeOK, Function
<1>6. /\ at \in {"andExpr", "orExpr"} => Top.comparison = Null
      /\ at = "orExpr" => Top.andExpr = Null
  BY <1>1 DEF RunningOK, ReturnedOK
<1>7. p \in Nat /\ p > 0 /\ Null \in Nat /\ Null = 0
  <2>1. p \in Nat
    BY ONLY <1>2, f \in Function DEF Entries, Function, p
  <2> QED
    BY ONLY <1>3, <2>1 DEF Null
<1>8. e \in Entries /\ e.open = Top.open
  BY <1>2, <1>7, SetField
<1>9. /\ Floor \in Int /\ floor \in Int /\ floor + 1 = Floor
      /\ f = "comparison" => Floor = 3 * Len(stack)
      /\ f = "andExpr" => Floor = 3 * Len(stack) - 1
      /\ f = "orExpr" => Floor = 3 * Len(stack) - 2
  BY <1>2, <1>3 DEF Floor, Function
<1>10. /\ p = Base(Top) /\ Base(e) = from /\ from \in Nat
       /\ IsOperator(tokens, p) /\ Tightness(tokens, p) = floor
       /\ Waits(tokens, left, right, p, from, floor)
       /\ EntryOK(tokens, left, right, e, Len(stack) - 1)
       /\ f = "comparison" => tokens[p].type \in ComparisonOp /\ Depth(tokens, p) = Len(stack) - 1
  <2>1. AndBase(Top) \in Nat /\ LeafBase(Top) \in Nat /\ Top.open \in Nat
    BY <1>2, BaseOrder
  <2>2. CASE f = "comparison"
    <3>1. e.comparison = Null /\ e.andExpr = Top.andExpr /\ e.orExpr = Top.orExpr
      <4>1. e = [Top EXCEPT !["comparison"] = Null]
        BY <2>2
      <4> QED
        BY ONLY <1>2, <1>7, <4>1, SetComparison
    <3>2. /\ p = Base(Top) /\ Base(e) = LeafBase(Top)
          /\ LeafBase(e) = LeafBase(Top) /\ AndBase(e) = AndBase(Top)
      BY <1>3, <1>8, <2>2, <3>1 DEF Base, LeafBase, AndBase
    <3>3. /\ tokens[p].type \in ComparisonOp /\ Depth(tokens, p) = Len(stack) - 1
          /\ Waits(tokens, left, right, p, LeafBase(Top), 3 * (Len(stack) - 1) + 3)
      BY <1>2, <1>3, <2>2 DEF EntryOK
    <3>4. IsOperator(tokens, p)
      BY <3>3 DEF IsOperator
    <3>5. Tightness(tokens, p) = 3 * (Len(stack) - 1) + 2
      BY <1>7, <3>3, <3>4, OperatorTightness
    <3>6. 3 * (Len(stack) - 1) + 2 = floor /\ 3 * (Len(stack) - 1) + 3 = floor + 1
      BY <1>2, <1>9, <2>2
    <3>7. Waits(tokens, left, right, p, LeafBase(Top), floor)
      <4>1. LeafBase(Top) + 1 \in Nat /\ LeafBase(Top) + 1 > 0 /\ p - 1 \in Nat /\ floor + 1 \in Int /\ floor <= floor + 1
        BY <1>7, <1>9, <2>1
      <4>2. AtLeast(tokens, floor + 1, LeafBase(Top) + 1, p - 1)
        BY <3>3, <3>6 DEF Waits
      <4>3. AtLeast(tokens, floor, LeafBase(Top) + 1, p - 1)
        BY <1>9, <4>1, <4>2, AtLeastWeaken
      <4> QED
        BY <3>3, <4>3 DEF Waits
    <3>8. EntryOK(tokens, left, right, e, Len(stack) - 1)
      BY <1>2, <1>8, <3>1, <3>2 DEF EntryOK
    <3> QED
      BY <2>1, <2>2, <3>2, <3>3, <3>4, <3>5, <3>6, <3>7, <3>8
  <2>3. CASE f = "andExpr"
    <3>a. Top.comparison = Null /\ e = [Top EXCEPT !["andExpr"] = Null]
      BY <1>6, <2>3
    <3>1. e.comparison = Null /\ e.andExpr = Null /\ e.orExpr = Top.orExpr /\ Top.comparison = Null
      BY ONLY <1>2, <1>7, <3>a, SetAnd
    <3>2. /\ p = Base(Top) /\ Base(e) = AndBase(Top) /\ AndBase(e) = AndBase(Top)
      BY <1>3, <1>8, <2>3, <3>1 DEF Base, LeafBase, AndBase
    <3>3. /\ tokens[p].type = "AND" /\ Depth(tokens, p) = Len(stack) - 1
          /\ Waits(tokens, left, right, p, AndBase(Top), 3 * (Len(stack) - 1) + 1)
      BY <1>2, <1>3, <2>3 DEF EntryOK
    <3>4. IsOperator(tokens, p)
      BY <3>3 DEF IsOperator
    <3>5. Tightness(tokens, p) = 3 * (Len(stack) - 1) + 1
      BY <1>7, <3>3, <3>4, OperatorTightness
    <3>6. 3 * (Len(stack) - 1) + 1 = floor
      BY <1>2, <1>9, <2>3
    <3>7. EntryOK(tokens, left, right, e, Len(stack) - 1)
      BY <1>2, <1>8, <3>1, <3>2 DEF EntryOK
    <3> QED
      BY <2>1, <2>3, <3>2, <3>3, <3>4, <3>5, <3>6, <3>7
  <2>4. CASE f = "orExpr"
    <3>1. /\ e.comparison = Null /\ e.andExpr = Null /\ e.orExpr = Null
          /\ Top.comparison = Null /\ Top.andExpr = Null
      <4>1. Top.comparison = Null /\ Top.andExpr = Null /\ e = [Top EXCEPT !["orExpr"] = Null]
        BY <1>6, <2>4
      <4> QED
        BY ONLY <1>2, <1>7, <4>1, SetOr
    <3>2. p = Base(Top) /\ Base(e) = Top.open
      BY <1>3, <1>8, <2>4, <3>1 DEF Base, LeafBase, AndBase
    <3>3. /\ tokens[p].type = "OR" /\ Depth(tokens, p) = Len(stack) - 1
          /\ Waits(tokens, left, right, p, Top.open, 3 * (Len(stack) - 1))
      BY <1>2, <1>3, <2>4 DEF EntryOK
    <3>4. IsOperator(tokens, p)
      BY <3>3 DEF IsOperator
    <3>5. Tightness(tokens, p) = 3 * (Len(stack) - 1)
      BY <1>7, <3>3, <3>4, OperatorTightness
    <3>6. 3 * (Len(stack) - 1) = floor
      BY <1>2, <1>9, <2>4
    <3>7. EntryOK(tokens, left, right, e, Len(stack) - 1)
      BY <1>2, <1>8, <3>1 DEF EntryOK
    <3> QED
      BY <2>1, <2>4, <3>2, <3>3, <3>4, <3>5, <3>6, <3>7
  <2> QED
    BY <2>2, <2>3, <2>4 DEF Function
<1>13. /\ e.comparison = Null
       /\ f = "andExpr" => e.andExpr = Null
       /\ f = "orExpr" => e.andExpr = Null /\ e.orExpr = Null
  <2>1. CASE f = "comparison"
    <3>1. e = [Top EXCEPT !["comparison"] = Null]
      BY <2>1
    <3>2. e.comparison = Null
      BY ONLY <1>2, <1>7, <3>1, SetComparison
    <3> QED
      BY <2>1, <3>2
  <2>2. CASE f = "andExpr"
    <3>1. Top.comparison = Null /\ e = [Top EXCEPT !["andExpr"] = Null]
      BY <1>6, <2>2
    <3>2. e.comparison = Null /\ e.andExpr = Null
      BY ONLY <1>2, <1>7, <3>1, SetAnd
    <3> QED
      BY <2>2, <3>2
  <2>3. CASE f = "orExpr"
    <3>1. Top.comparison = Null /\ Top.andExpr = Null /\ e = [Top EXCEPT !["orExpr"] = Null]
      BY <1>6, <2>3
    <3>2. e.comparison = Null /\ e.andExpr = Null /\ e.orExpr = Null
      BY ONLY <1>2, <1>7, <3>1, SetOr
    <3> QED
      BY <2>3, <3>2
  <2> QED
    BY <2>1, <2>2, <2>3 DEF Function
<1> HIDE DEF p, e, floor, from
<1>20. right' \in [1..Len(tokens) -> Nat] /\ SetsNode(p, right')
  <2>1. p \in 1..Len(tokens)
    BY <1>1, <1>2, <1>7, <1>10, TopOK DEF ParseType
  <2> QED
    BY <1>1, <1>3, <2>1 DEF ParseType, SetsNode
<1>11. /\ StackOK(tokens, left, right', stack', cur) /\ Len(stack') = Len(stack) /\ stack'[Len(stack)] = e
       /\ IsTree(tokens, left, right', p, from + 1, cur - 1)
       /\ AtLeast(tokens, floor, from + 1, cur - 1) /\ AtLeast(tokens, floor, p, cur - 1)
  <2>1. /\ IsTree(tokens, left, right, node, p + 1, cur - 1)
        /\ AtLeast(tokens, floor + 1, p + 1, cur - 1)
    BY <1>5, <1>9, <1>10
  <2> QED
    BY <1>1, <1>4, <1>5, <1>7, <1>8, <1>9, <1>10, <1>20, <2>1, Joins
<1>12. Top' = e /\ Cur' = Cur
  BY <1>3, <1>11 DEF Top, Cur
<1>14. next \in {"andExpr", "orExpr"} /\ (next = "orExpr" => f = "orExpr") /\ (next = "andExpr" => f # "orExpr")
  BY DEF Function
<1>15. NodeOK'
  <2>1. Floor' \in Int /\ Floor' <= floor
    BY <1>2, <1>3, <1>9, <1>11, <1>12, <1>13, <1>14 DEF Floor, Function
  <2>2. AtLeast(tokens, Floor', from + 1, cur - 1)
    <3>1. from + 1 \in Nat /\ from + 1 > 0
      BY <1>10
    <3> QED
      BY <1>2, <1>9, <1>11, <2>1, <3>1, AtLeastWeaken
  <2>3. at' # "primary" /\ Base(Top') + 1 = from + 1
    BY <1>3, <1>10, <1>12, <1>14
  <2> QED
    BY <1>3, <1>7, <1>11, <2>2, <2>3 DEF NodeOK
<1>16. ReturnedOK'
  <2>1. CASE f = "comparison"
    <3>1. Chained(tokens, cur - 1, Len(stack))
      <4>1. p \in Operators(tokens, 1, cur - 1)
        BY <1>1, <1>2, <1>7, <1>10, TopOK DEF Operators
      <4> QED
        BY <1>10, <1>11, <2>1, <4>1 DEF Chained
    <3> QED
      BY <1>3, <1>11, <1>12, <1>13, <2>1, <3>1 DEF ReturnedOK
  <2>2. CASE f # "comparison"
    BY <1>1, <1>3, <1>11, <1>12, <1>13, <1>14, <2>2 DEF ReturnedOK, RunningOK, Function
  <2> QED
    BY <2>1, <2>2
<1>17. PlaceOK'
  BY <1>1, <1>3, <1>14 DEF PlaceOK, RunningOK, Function
<1>18. RunningOK'
  BY <1>1, <1>3, <1>11, <1>15, <1>16, <1>17 DEF RunningOK
<1>19. ParseType' /\ Running'
  BY <1>1, <1>3, <1>7, <1>14, <1>20 DEF ParseType, Running, Function
<1> QED
  BY <1>18, <1>19, StillRuns

\* The operator that is met is not chained to a comparison.
LEMMA NotChained ==
  ASSUME ParseType, RunningOK, at = "comparison", Top.comparison = Null,
         NEW i \in Operators(tokens, 1, cur - 1), tokens[i].type \in ComparisonOp,
         Depth(tokens, i) = Len(stack) - 1
  PROVE  \E k \in Operators(tokens, i, cur) : Tightness(tokens, k) < Tightness(tokens, i)
<1>1. /\ Len(stack) \in Nat /\ Len(stack) > 0 /\ Top \in Entries
      /\ EntryOK(tokens, left, right, Top, Len(stack) - 1)
      /\ Separated(tokens, Top.open, Len(stack) - 1)
      /\ Base(Top) \in Nat /\ Base(Top) < cur /\ cur \in Nat /\ Len(stack) - 1 \in Nat
  BY TopOK
<1>2. i \in Nat /\ i > 0 /\ i < cur /\ IsOperator(tokens, i)
  BY <1>1 DEF Operators
<1>3. Tightness(tokens, i) = 3 * Len(stack) - 1
  <2>1. Tightness(tokens, i) = 3 * (Len(stack) - 1) + 2
    BY <1>2, OperatorTightness
  <2> QED
    BY <1>1, <2>1
<1>4. i <= Base(Top)
  <2>1. AtLeast(tokens, 3 * Len(stack), Base(Top) + 1, cur - 1)
    BY DEF RunningOK, NodeOK, Floor
  <2>2. i \notin Operators(tokens, Base(Top) + 1, cur - 1)
    BY <1>1, <1>3, <2>1 DEF AtLeast
  <2> QED
    BY <1>1, <1>2, <2>2 DEF Operators
<1>5. CASE Base(Top) = Top.open
  <2>1. i \in Operators(tokens, 1, Top.open) /\ Tightness(tokens, i) >= 3 * (Len(stack) - 1)
    BY <1>1, <1>2, <1>3, <1>4, <1>5 DEF Operators
  <2>2. PICK k \in Operators(tokens, i + 1, Top.open) : Tightness(tokens, k) < 3 * (Len(stack) - 1)
    BY <1>1, <2>1 DEF Separated
  <2>3. k \in Operators(tokens, i, cur) /\ k \in Nat /\ k > 0 /\ IsOperator(tokens, k)
    BY <1>1, <1>2, <1>5 DEF Operators
  <2>4. Tightness(tokens, k) \in Int
    BY <2>3, OperatorTightness
  <2> QED
    BY <1>1, <1>3, <2>2, <2>3, <2>4
<1>6. CASE /\ IsOperator(tokens, Base(Top)) /\ Tightness(tokens, Base(Top)) \in Int
           /\ Tightness(tokens, Base(Top)) <= 3 * (Len(stack) - 1) + 1
  <2>1. Base(Top) \in Operators(tokens, i, cur)
    BY <1>1, <1>2, <1>4, <1>6 DEF Operators
  <2> QED
    BY <1>1, <1>3, <1>6, <2>1
<1> QED
  BY <1>1, <1>5, <1>6, BaseIsLoose

\* The entry in which the left operand of the current token waits.
LEMMA Waiting ==
  ASSUME ParseType, RunningOK, NEW f \in Function, at = f, Top[f] = Null, Cur \in OperatorsOf(f),
         Depth(tokens, cur) = Len(stack) - 1, NEW l2, l2[cur] = node,
         \A i \in 1..Len(tokens) : i # cur => l2[i] = left[i]
  PROVE  /\ EntryOK(tokens, l2, right, [Top EXCEPT ![f] = cur], Len(stack) - 1)
         /\ Base([Top EXCEPT ![f] = cur]) = cur
<1> DEFINE e == [Top EXCEPT ![f] = cur]
           d == Len(stack) - 1
<1>1. /\ Len(stack) \in Nat /\ Len(stack) > 0 /\ Top \in Entries /\ d \in Nat
      /\ EntryOK(tokens, left, right, Top, d)
      /\ cur \in Nat /\ cur > 0 /\ Base(Top) \in Nat /\ Base(Top) < cur
  BY TopOK
<1>2. cur \in 1..Len(tokens) /\ Cur = tokens[cur].type /\ Len(tokens) \in Nat
  <2>1. Cur # "END"
    BY DEF OperatorsOf, Function, ComparisonOp
  <2> QED
    BY <2>1, CurToken DEF ParseType, IsTokens
<1>3. \A i \in 1..cur - 1 : l2[i] = left[i]
  BY <1>2
<1>4. EntryOK(tokens, l2, right, Top, d)
  <2>1. \A i \in 1..Base(Top) : l2[i] = left[i]
    BY <1>1, <1>3
  <2> HIDE DEF d
  <2> QED
    BY <1>1, <2>1, EntryFrame
<1>5. /\ IsTree(tokens, l2, right, l2[cur], Base(Top) + 1, cur - 1)
      /\ AtLeast(tokens, Floor, Base(Top) + 1, cur - 1)
  <2>1. /\ IsTree(tokens, left, right, node, Base(Top) + 1, cur - 1)
        /\ AtLeast(tokens, Floor, Base(Top) + 1, cur - 1)
    BY DEF RunningOK, NodeOK, Function
  <2>2. \A i \in Operators(tokens, Base(Top) + 1, cur - 1) : l2[i] = left[i] /\ right[i] = right[i]
    BY <1>1, <1>3 DEF Operators
  <2>3. IsTree(tokens, l2, right, node, Base(Top) + 1, cur - 1)
    BY ONLY <2>1, <2>2, TreeFrame
  <2> QED
    BY <2>1, <2>3
<1>6. Waits(tokens, l2, right, cur, Base(Top), Floor)
  BY <1>1, <1>5 DEF Waits
<1>7. Floor \in Int /\ Floor = 3 * d + (IF f = "comparison" THEN 3 ELSE IF f = "andExpr" THEN 1 ELSE 0)
  BY <1>1 DEF Floor, Function
<1>8. cur # Null /\ e.open = Top.open
  <2>1. e.open = Top.open
    BY <1>1, SetField
  <2> QED
    BY <1>1, <2>1 DEF Null
<1>9. CASE f = "comparison"
  <2>0. e = [Top EXCEPT !["comparison"] = cur]
    BY <1>9
  <2>1. e.comparison = cur /\ e.andExpr = Top.andExpr /\ e.orExpr = Top.orExpr
    BY ONLY <1>1, <2>0, SetComparison
  <2>2. LeafBase(Top) = Base(Top) /\ LeafBase(e) = LeafBase(Top) /\ AndBase(e) = AndBase(Top) /\ Base(e) = cur
    BY <1>8, <1>9, <2>1 DEF Base, LeafBase, AndBase
  <2>3. tokens[cur].type \in ComparisonOp
    BY <1>2, <1>9 DEF OperatorsOf
  <2>4. Waits(tokens, l2, right, cur, LeafBase(e), 3 * d + 3)
    BY <1>6, <1>7, <1>9, <2>2
  <2> HIDE DEF e, d
  <2>5. EntryOK(tokens, l2, right, e, d)
    BY <1>4, <1>8, <2>1, <2>2, <2>3, <2>4 DEF EntryOK, d
  <2> QED
    BY <2>2, <2>5 DEF e, d
<1>10. CASE f = "andExpr"
  <2>0. Top.comparison = Null /\ Top.andExpr = Null /\ e = [Top EXCEPT !["andExpr"] = cur]
    BY <1>10 DEF RunningOK, ReturnedOK
  <2>1. e.comparison = Null /\ e.andExpr = cur /\ e.orExpr = Top.orExpr
    BY ONLY <1>1, <2>0, SetAnd
  <2>2. AndBase(Top) = Base(Top) /\ AndBase(e) = AndBase(Top) /\ Base(e) = cur
    BY <1>8, <2>0, <2>1 DEF Base, LeafBase, AndBase
  <2>3. tokens[cur].type = "AND"
    BY <1>2, <1>10 DEF OperatorsOf
  <2>4. Waits(tokens, l2, right, cur, AndBase(e), 3 * d + 1)
    BY <1>6, <1>7, <1>10, <2>2
  <2> HIDE DEF e, d
  <2>5. EntryOK(tokens, l2, right, e, d)
    BY <1>4, <1>8, <2>1, <2>2, <2>3, <2>4 DEF EntryOK, d
  <2> QED
    BY <2>2, <2>5 DEF e, d
<1>11. CASE f = "orExpr"
  <2>0. /\ Top.comparison = Null /\ Top.andExpr = Null /\ Top.orExpr = Null
        /\ e = [Top EXCEPT !["orExpr"] = cur]
    BY <1>11 DEF RunningOK, ReturnedOK
  <2>1. e.comparison = Null /\ e.andExpr = Null /\ e.orExpr = cur
    BY ONLY <1>1, <2>0, SetOr
  <2>2. Top.open = Base(Top) /\ e.open = Top.open /\ Base(e) = cur
    BY <1>8, <2>0, <2>1 DEF Base, LeafBase, AndBase
  <2>3. tokens[cur].type = "OR"
    BY <1>2, <1>11 DEF OperatorsOf
  <2>4. Waits(tokens, l2, right, cur, e.open, 3 * d)
    BY <1>1, <1>6, <1>7, <1>11, <2>2
  <2> HIDE DEF e, d
  <2>5. EntryOK(tokens, l2, right, e, d)
    BY <1>4, <1>8, <2>1, <2>2, <2>3, <2>4 DEF EntryOK, d
  <2> QED
    BY <2>2, <2>5 DEF e, d
<1> QED
  BY <1>9, <1>10, <1>11 DEF Function

LEMMA TakesOperator ==
  ASSUME ParseInv, NEW f \in Function, at = f, TakeOperator(f)
  PROVE  ParseInv'
<1>1. ParseType /\ RunningOK
  BY DEF ParseInv, Running
<1>2. /\ Len(stack) \in Nat /\ Len(stack) > 0 /\ Top \in Entries /\ stack \in Seq(Entries)
      /\ cur \in Nat /\ cur > 0 /\ cur - 1 \in Nat /\ Top.open \in Nat /\ Top.open <= Base(Top)
      /\ Base(Top) \in Nat /\ Base(Top) < cur
  BY <1>1, TopOK
<1> DEFINE e == [Top EXCEPT ![f] = cur]
<1>3. /\ Top[f] = Null /\ Cur \in OperatorsOf(f) /\ left' = [left EXCEPT ![cur] = node]
      /\ cur' = cur + 1 /\ at' = "primary" /\ tokens' = tokens /\ node' = node /\ right' = right
  BY DEF TakeOperator
<1>4. /\ cur \in 1..Len(tokens) /\ cur + 1 \in 1..Len(tokens) + 1
      /\ tokens[cur].type \in OperatorsOf(f)
  <2>1. Cur # "END"
    BY <1>3 DEF OperatorsOf, Function, ComparisonOp
  <2> QED
    BY <1>1, <1>3, <2>1, CurToken
<1>5. IsOperator(tokens, cur) /\ (tokens[cur].type \in ComparisonOp => f = "comparison")
  BY <1>4, Kinds DEF IsOperator, OperatorsOf, Function
<1>6. /\ tokens[cur].type \notin {"LPAREN", "RPAREN"}
      /\ ~StartsOperand(tokens, cur) /\ ~EndsOperand(tokens, cur)
  BY <1>5, Kinds DEF IsOperator, StartsOperand, EndsOperand
<1>7. (cur - 1) + 1 = cur /\ ReadOK(tokens, cur - 1, Len(stack))
  BY <1>1, <1>2 DEF RunningOK
<1>8. Depth(tokens, cur) = Len(stack) - 1
  BY <1>2, <1>6, <1>7, DepthNext DEF ReadOK
<1>9. ReadOK(tokens, cur, Len(stack))
  <2>1. Fits(tokens, (cur - 1) + 1)
    BY <1>1, <1>6, <1>7 DEF Fits, RunningOK, PlaceOK, Function
  <2>2. ASSUME tokens[cur].type \in ComparisonOp, NEW i \in Operators(tokens, 1, cur - 1),
               tokens[i].type \in ComparisonOp, Depth(tokens, i) = Len(stack) - 1
        PROVE  \E k \in Operators(tokens, i, cur) : Tightness(tokens, k) < Tightness(tokens, i)
    <3>1. at = "comparison" /\ Top.comparison = Null
      BY <1>3, <1>5, <2>2
    <3> QED
      BY <1>1, <2>2, <3>1, NotChained
  <2>3. ReadOK(tokens, (cur - 1) + 1, Len(stack))
    <3>1. Depth(tokens, (cur - 1) + 1) = Len(stack) - 1
      BY <1>7, <1>8
    <3>2. tokens[(cur - 1) + 1].type \in ComparisonOp =>
             \A i \in Operators(tokens, 1, cur - 1) :
                 tokens[i].type \in ComparisonOp /\ Depth(tokens, i) = Len(stack) - 1 =>
                     \E k \in Operators(tokens, i, (cur - 1) + 1) : Tightness(tokens, k) < Tightness(tokens, i)
      BY <1>7, <2>2
    <3> QED
      BY <1>2, <1>7, <2>1, <3>1, <3>2, ReadNext
  <2> QED
    BY <1>7, <2>3
<1>10. e \in Entries /\ e.open = Top.open
  BY <1>2, SetField
<1>11. /\ left' \in [1..Len(tokens) -> Nat] /\ left'[cur] = node
       /\ \A i \in 1..Len(tokens) : i # cur => left'[i] = left[i]
  BY <1>1, <1>3, <1>4 DEF ParseType
<1>12. EntryOK(tokens, left', right, e, Len(stack) - 1) /\ Base(e) = cur
  BY <1>1, <1>3, <1>8, <1>11, Waiting
<1>13. Replaced(stack, e, stack')
  <2>1. stack' = [stack EXCEPT ![Len(stack)] = [@ EXCEPT ![f] = cur]]
    BY DEF TakeOperator, SetTop
  <2>2. stack' = [stack EXCEPT ![Len(stack)] = e]
    BY <2>1 DEF Top
  <2> HIDE DEF e
  <2> QED
    BY <1>2, <1>10, <2>2, TopReplaced
<1> HIDE DEF e
<1>14. StackOK(tokens, left', right, stack', cur + 1) /\ Len(stack') = Len(stack) /\ stack'[Len(stack)] = e
  <2>1. StackOK(tokens, left, right, stack, cur + 1) /\ e.open = stack[Len(stack)].open
    BY <1>1, <1>2, <1>10, StackMore DEF RunningOK, Top
  <2>0. \A i \in 1..Top.open - 1 : i \in 1..Len(tokens) /\ i # cur
    BY <1>2, <1>4
  <2>2. \A i \in 1..stack[Len(stack)].open - 1 : left'[i] = left[i] /\ right[i] = right[i]
    BY <1>11, <2>0 DEF Top
  <2> DEFINE c == cur + 1
             l2 == left'
  <2>3. c \in Nat /\ Base(e) < c
    BY <1>2, <1>12
  <2>4. /\ EntryOK(tokens, l2, right, e, Len(stack) - 1)
        /\ Keeps(left, right, l2, right, stack[Len(stack)].open - 1)
    BY <1>12, <2>2 DEF Keeps
  <2>6. StackOK(tokens, left, right, stack, c)
    BY <2>1
  <2> HIDE DEF c, l2
  <2>5. StackOK(tokens, l2, right, stack', c) /\ Len(stack') = Len(stack) /\ stack'[Len(stack)] = e
    BY ONLY <1>10, <1>13, <2>1, <2>3, <2>4, <2>6, StackSet
  <2> QED
    BY <2>5 DEF c, l2
<1>15. cur' - 1 = cur /\ Top' = e
  BY <1>2, <1>3, <1>14 DEF Top
<1>16. PlaceOK' /\ NodeOK' /\ ReturnedOK'
  BY <1>3, <1>6, <1>12, <1>15 DEF PlaceOK, NodeOK, ReturnedOK
<1>17. RunningOK'
  BY <1>3, <1>9, <1>14, <1>15, <1>16 DEF RunningOK
<1>18. ParseType' /\ Running'
  BY <1>1, <1>3, <1>4, <1>11 DEF ParseType, Running
<1> QED
  BY <1>17, <1>18, StillRuns

LEMMA Returns ==
  ASSUME ParseInv, NEW f \in Function, NEW caller, at = f, ReturnTo(f, caller),
         caller = IF f = "comparison" THEN "andExpr" ELSE IF f = "andExpr" THEN "orExpr" ELSE "return"
  PROVE  ParseInv'
<1>1. ParseType /\ RunningOK
  BY DEF ParseInv, Running
<1>2. /\ Top[f] = Null /\ Cur \notin OperatorsOf(f) /\ at' = caller
      /\ tokens' = tokens /\ cur' = cur /\ stack' = stack /\ node' = node
      /\ left' = left /\ right' = right
  BY DEF ReturnTo
<1>3. /\ Len(stack) \in Nat /\ cur - 1 \in Nat /\ Base(Top) + 1 \in Nat /\ Base(Top) + 1 > 0
  BY <1>1, TopOK
<1>4. Top' = Top /\ Cur' = Cur
  BY <1>2 DEF Top, Cur
<1>5. NodeOK'
  <2>1. /\ IsTree(tokens, left, right, node, Base(Top) + 1, cur - 1) /\ node > 0
        /\ AtLeast(tokens, Floor, Base(Top) + 1, cur - 1)
    BY <1>1 DEF RunningOK, NodeOK, Function
  <2>2. Floor \in Int /\ Floor' \in Int /\ Floor' <= Floor
    BY <1>2, <1>3, <1>4 DEF Floor, Function
  <2>3. AtLeast(tokens, Floor', Base(Top) + 1, cur - 1)
    BY <1>3, <2>1, <2>2, AtLeastWeaken
  <2> QED
    BY <1>2, <1>4, <2>1, <2>3 DEF NodeOK, Function
<1>6. ReturnedOK'
  <2>1. CASE f = "comparison"
    <3>1. Top.comparison = Null /\ Cur \notin ComparisonOp
      BY <1>2, <2>1 DEF OperatorsOf
    <3> QED
      BY <1>2, <1>4, <2>1, <3>1 DEF ReturnedOK
  <2>2. CASE f = "andExpr"
    <3>1. Top.andExpr = Null /\ Cur # "AND"
      BY <1>2, <2>2 DEF OperatorsOf
    <3> QED
      BY <1>1, <1>2, <1>4, <2>2, <3>1 DEF ReturnedOK, RunningOK
  <2>3. CASE f = "orExpr"
    <3>1. Top.orExpr = Null /\ Cur # "OR"
      BY <1>2, <2>3 DEF OperatorsOf
    <3> QED
      BY <1>1, <1>2, <1>4, <2>3, <3>1 DEF ReturnedOK, RunningOK
  <2> QED
    BY <2>1, <2>2, <2>3 DEF Function
<1>7. PlaceOK'
  BY <1>1, <1>2 DEF PlaceOK, RunningOK, Function
<1>8. RunningOK'
  BY <1>1, <1>2, <1>5, <1>6, <1>7 DEF RunningOK
<1>9. ParseType' /\ Running'
  BY <1>1, <1>2 DEF ParseType, Running, Function
<1> QED
  BY <1>8, <1>9, StillRuns

\* Nothing waits in what is in the parenthesis that is complete.
LEMMA Returned ==
  ASSUME ParseType, RunningOK, at = "return"
  PROVE  /\ Base(Top) = Top.open
         /\ cur > 1 /\ EndsOperand(tokens, cur - 1) /\ node > 0
         /\ IsTree(tokens, left, right, node, Top.open + 1, cur - 1)
         /\ AtLeast(tokens, 3 * Len(stack) - 3, Top.open + 1, cur - 1)
         /\ Cur \in ComparisonOp => Chained(tokens, cur - 1, Len(stack))
         /\ Cur \notin {"AND", "OR"}
<1>1. /\ Top.comparison = Null /\ Top.andExpr = Null /\ Top.orExpr = Null
      /\ Cur \in ComparisonOp => Chained(tokens, cur - 1, Len(stack))
      /\ Cur \notin {"AND", "OR"}
  BY DEF RunningOK, ReturnedOK
<1>2. Base(Top) = Top.open
  BY <1>1 DEF Base, LeafBase, AndBase
<1>3. /\ IsTree(tokens, left, right, node, Base(Top) + 1, cur - 1) /\ node > 0
      /\ AtLeast(tokens, Floor, Base(Top) + 1, cur - 1)
  BY DEF RunningOK, NodeOK
<1>4. Floor = 3 * Len(stack) - 3
  BY DEF Floor
<1>5. cur > 1 /\ EndsOperand(tokens, cur - 1)
  BY DEF RunningOK, PlaceOK
<1> QED
  BY <1>1, <1>2, <1>3, <1>4, <1>5

LEMMA ClosesParen ==
  ASSUME ParseInv, at = "return", Len(stack) > 1, Cur = "RPAREN",
         stack' = SubSeq(stack, 1, Len(stack) - 1), cur' = cur + 1, at' = "comparison",
         UNCHANGED <<tokens, node, left, right>>
  PROVE  ParseInv'
<1>1. ParseType /\ RunningOK /\ IsTokens(tokens)
  BY DEF ParseInv, Running, ParseType
<1>2. cur \in 1..Len(tokens) /\ tokens[cur].type = "RPAREN" /\ cur + 1 \in 1..Len(tokens) + 1
  BY <1>1, CurToken
<1>3. tokens' = tokens /\ left' = left /\ right' = right /\ node' = node
  OBVIOUS
<1>4. /\ Len(stack) \in Nat /\ Len(stack) - 1 \in Nat /\ Len(stack) - 1 > 0 /\ Top.open \in Nat
      /\ cur \in Nat /\ cur - 1 \in Nat /\ stack \in Seq(Entries)
  BY <1>1, TopOK
<1>5. /\ Base(Top) = Top.open
      /\ cur > 1 /\ EndsOperand(tokens, cur - 1) /\ node > 0
      /\ IsTree(tokens, left, right, node, Top.open + 1, cur - 1)
      /\ AtLeast(tokens, 3 * Len(stack) - 3, Top.open + 1, cur - 1)
  BY <1>1, Returned
<1>6. /\ StackOK(tokens, left, right, stack', cur')
      /\ Len(stack') = Len(stack) - 1 /\ Top' = stack[Len(stack) - 1]
  <2>1. StackOK(tokens, left, right, stack, cur)
    BY <1>1 DEF RunningOK
  <2>2. /\ StackOK(tokens, left, right, SubSeq(stack, 1, Len(stack) - 1), cur + 1)
        /\ Len(SubSeq(stack, 1, Len(stack) - 1)) = Len(stack) - 1
        /\ SubSeq(stack, 1, Len(stack) - 1)[Len(stack) - 1] = stack[Len(stack) - 1]
    BY <1>4, <2>1, StackPop
  <2>3. Top' = stack'[Len(stack')]
    BY DEF Top
  <2> QED
    BY <2>2, <2>3
<1>7. Top.open = Base(Top') + 1 /\ tokens[Top.open].type = "LPAREN"
  <2>1. Len(stack) \in 1..Len(stack)
    BY <1>4
  <2> QED
    BY <1>1, <1>6, <2>1 DEF RunningOK, StackOK, Top
<1>8. ~IsOperator(tokens, Top.open) /\ ~IsOperator(tokens, cur)
  BY <1>2, <1>7, Kinds DEF IsOperator
<1>9. /\ Operators(tokens, Top.open, cur) = Operators(tokens, Top.open + 1, cur - 1)
      /\ IsTree(tokens, left, right, node, Top.open, cur)
  <2> DEFINE a == Top.open + 1
             b == cur - 1
  <2>1. a \in Nat /\ b \in Nat /\ a > 0 /\ a - 1 = Top.open /\ b + 1 = cur
    BY <1>4
  <2>2. IsTree(tokens, left, right, node, a, b) /\ ~IsOperator(tokens, a - 1) /\ ~IsOperator(tokens, b + 1)
    BY <1>5, <1>8, <2>1
  <2> HIDE DEF a, b
  <2>3. Operators(tokens, a - 1, b + 1) = Operators(tokens, a, b) /\ IsTree(tokens, left, right, node, a - 1, b + 1)
    BY <2>1, <2>2, TreeWiden
  <2> QED
    BY <2>1, <2>3 DEF a, b
<1>10. NodeOK'
  <2>1. Base(Top') + 1 = Top.open /\ cur' - 1 = cur
    BY <1>4, <1>7
  <2>2. Floor' = 3 * Len(stack) - 3
    BY <1>4, <1>6 DEF Floor
  <2>3. AtLeast(tokens, 3 * Len(stack) - 3, Top.open, cur)
    BY <1>5, <1>9 DEF AtLeast
  <2> QED
    BY <1>3, <1>5, <1>9, <2>1, <2>2, <2>3 DEF NodeOK
<1>11. ReadOK(tokens, cur, Len(stack) - 1)
  <2>1. (cur - 1) + 1 = cur /\ ReadOK(tokens, cur - 1, Len(stack))
    BY <1>1, <1>4 DEF RunningOK
  <2>2. Fits(tokens, (cur - 1) + 1)
    BY <1>2, <1>5, <2>1, Kinds DEF Fits, StartsOperand
  <2>3. Depth(tokens, cur) = Depth(tokens, cur - 1) - 1 /\ Depth(tokens, cur - 1) = Len(stack) - 1
    BY <1>2, <1>4, <2>1, DepthNext DEF ReadOK
  <2>4. Depth(tokens, (cur - 1) + 1) = (Len(stack) - 1) - 1
    BY <1>4, <2>1, <2>3
  <2>5. tokens[(cur - 1) + 1].type \notin ComparisonOp
    BY <1>2, <2>1, Kinds
  <2>6. ReadOK(tokens, (cur - 1) + 1, Len(stack) - 1)
    BY <1>4, <2>1, <2>2, <2>4, <2>5, ReadNext
  <2> QED
    BY <2>1, <2>6
<1>12. EndsOperand(tokens, cur)
  BY <1>2 DEF EndsOperand
<1>13. cur' - 1 = cur /\ cur' > 1
  BY <1>4, <1>5
<1>14. PlaceOK' /\ ReturnedOK'
  BY <1>12, <1>13 DEF PlaceOK, ReturnedOK
<1>15. RunningOK'
  BY <1>3, <1>6, <1>10, <1>11, <1>13, <1>14 DEF RunningOK
<1>16. ParseType' /\ Running'
  BY <1>1, <1>2 DEF ParseType, Running, Function
<1> QED
  BY <1>15, <1>16, StillRuns

\* What follows an expression that is complete cannot be read.
LEMMA Stuck ==
  ASSUME ParseType, RunningOK, at = "return", Cur # "RPAREN", NEW k \in cur..Len(tokens)
  PROVE  ~Sentence(tokens, k)
<1>1. /\ cur \in Nat /\ cur - 1 \in Nat /\ cur > 1 /\ Len(tokens) \in Nat /\ Len(stack) \in Nat
      /\ (cur - 1) + 1 = cur /\ k \in Nat
  BY TopOK, Returned
<1>2. Cur = tokens[cur].type /\ Cur \in TokenType /\ cur \in 1..k
  <2>1. cur \in 1..Len(tokens) /\ ~(cur > Len(tokens)) /\ cur \in 1..k
    BY <1>1
  <2>2. Cur = tokens[cur].type /\ tokens[cur].type \in TokenType
    BY <2>1 DEF Cur, ParseType, IsTokens
  <2> QED
    BY <2>1, <2>2
<1>3. /\ EndsOperand(tokens, cur - 1) /\ Cur \notin {"AND", "OR"}
      /\ Cur \in ComparisonOp => Chained(tokens, cur - 1, Len(stack))
  BY Returned
<1>4. CASE Cur \in Leaf \cup {"LPAREN"}
  <2>1. ~Fits(tokens, cur)
    BY <1>1, <1>2, <1>3, <1>4 DEF Fits, StartsOperand
  <2> QED
    BY <1>2, <2>1, UnreadFits
<1>5. CASE Cur \in ComparisonOp
  <2>1. Depth(tokens, cur - 1) = Len(stack) - 1
    BY DEF RunningOK, ReadOK
  <2>2. (cur - 1) + 1 <= k /\ tokens[(cur - 1) + 1].type \in ComparisonOp
    BY <1>1, <1>2, <1>5
  <2> QED
    BY <1>1, <1>3, <1>5, <2>1, <2>2, UnreadChained
<1> QED
  BY <1>2, <1>3, <1>4, <1>5 DEF TokenType

\* The parenthesis is not closed where it must be.
LEMMA FailsAtParen ==
  ASSUME ParseInv, at = "return", Len(stack) > 1, Cur # "RPAREN", Fail
  PROVE  ParseInv'
<1>1. ParseType /\ RunningOK
  BY DEF ParseInv, Running
<1>2. Len(tokens) \in Nat /\ cur \in 1..Len(tokens) + 1 /\ Len(stack) \in Nat
  BY <1>1, TopOK DEF ParseType
<1>3. CASE cur > Len(tokens)
  <2>1. cur - 1 = Len(tokens)
    BY <1>2, <1>3
  <2>2. Depth(tokens, Len(tokens)) = Len(stack) - 1
    BY <1>1, <2>1 DEF RunningOK, ReadOK
  <2>3. Depth(tokens, Len(tokens)) > 0
    BY <1>2, <2>2
  <2>4. ~Sentence(tokens, Len(tokens))
    BY <2>3 DEF Sentence, Balanced
  <2> QED
    BY <2>4, Fails
<1>4. CASE ~(cur > Len(tokens))
  <2>1. Len(tokens) \in cur..Len(tokens)
    BY <1>2, <1>4
  <2>2. ~Sentence(tokens, Len(tokens))
    BY <1>1, <2>1, Stuck
  <2> QED
    BY <2>2, Fails
<1> QED
  BY <1>3, <1>4

\* The whole expression is complete.
LEMMA Finishes ==
  ASSUME ParseInv, ParseDone
  PROVE  ParseInv'
<1>1. /\ at = "return" /\ Len(stack) = 1 /\ at' = "end"
      /\ tokens' = tokens /\ cur' = cur /\ node' = node /\ left' = left /\ right' = right
  BY DEF ParseDone
<1>2. ParseType /\ RunningOK
  BY <1>1 DEF ParseInv, Running
<1>3. /\ cur \in Nat /\ cur - 1 \in Nat /\ Len(tokens) \in Nat /\ (cur - 1) + 1 = cur
      /\ DOMAIN tokens = 1..Len(tokens) /\ cur <= Len(tokens) + 1
  BY <1>2, TopOK DEF ParseType, IsTokens
<1>4. /\ cur > 1 /\ EndsOperand(tokens, cur - 1) /\ node > 0
      /\ IsTree(tokens, left, right, node, Top.open + 1, cur - 1)
  BY <1>1, <1>2, Returned
<1>5. IsTree(tokens, left, right, node, 1, cur - 1)
  <2>1. Top.open = 0
    BY <1>1, <1>2 DEF Top, RunningOK, StackOK
  <2>2. Top.open + 1 = 1
    BY <2>1
  <2> QED
    BY <1>4, <2>2
<1>6. ReadOK(tokens, cur - 1, 1)
  BY <1>1, <1>2 DEF RunningOK
<1>7. Sentence(tokens, cur - 1)
  BY <1>3, <1>4, <1>6, ReadAll
<1>8. ASSUME NEW k \in (cur - 1) + 1..Len(tokens)
      PROVE  ~Sentence(tokens, k)
  <2>1. k \in cur..Len(tokens) /\ k \in Nat /\ cur \in 1..k
    BY <1>3, <1>4
  <2>2. CASE Cur = "RPAREN"
    <3>1. tokens[(cur - 1) + 1].type = "RPAREN"
      BY <1>3, <2>1, <2>2 DEF Cur
    <3>2. Depth(tokens, cur) = Depth(tokens, cur - 1) - 1
      BY <1>3, <3>1, DepthNext
    <3>3. Depth(tokens, cur - 1) = 0
      BY <1>6 DEF ReadOK
    <3>4. ~(Depth(tokens, cur) >= 0)
      BY <3>2, <3>3
    <3> QED
      BY <2>1, <3>4 DEF Sentence, Balanced
  <2>3. CASE Cur # "RPAREN"
    BY <1>1, <1>2, <2>1, <2>3, Stuck
  <2> QED
    BY <2>2, <2>3
<1>9. cur - 1 \in DOMAIN tokens /\ node # Null
  BY <1>3, <1>4 DEF Null
<1>10. LongestSentenceCounts'
  <2>1. /\ Sentence(tokens, Len(tokens)) => node # Null
        /\ node # Null => \E n \in DOMAIN tokens :
             /\ Sentence(tokens, n) /\ \A k \in n + 1..Len(tokens) : ~Sentence(tokens, k)
             /\ IsTree(tokens, left, right, node, 1, n)
    BY <1>5, <1>7, <1>8, <1>9
  <2> QED
    BY <1>1, <2>1 DEF LongestSentenceCounts
<1>11. ParseType'
  BY <1>1, <1>2 DEF ParseType
<1> QED
  BY <1>1, <1>10, <1>11 DEF ParseInv, Running, Function

LEMMA ParseStep ==
  ParseInv /\ [ParseNext]_parseVars => ParseInv'
<1> SUFFICES ASSUME ParseInv, [ParseNext]_parseVars PROVE ParseInv'
  OBVIOUS
<1>1. CASE Parse
  BY <1>1, ParseBegins
<1>2. CASE ParsePrimary
  <2>1. at = "primary"
    BY <1>2 DEF ParsePrimary
  <2>2. CASE OpenParen
    BY <2>1, <2>2, OpensParen
  <2>3. CASE MakeLeaf
    BY <2>1, <2>3, MakesLeaf
  <2>4. CASE Cur \notin Leaf \cup {"LPAREN"} /\ Fail
    BY <2>1, <2>4, FailsAtPrimary
  <2> QED
    BY <1>2, <2>2, <2>3, <2>4 DEF ParsePrimary
<1>3. CASE ParseComparison
  <2>1. "comparison" \in Function /\ at = "comparison"
    BY <1>3 DEF Function, ParseComparison
  <2>2. CASE MakeBinary("comparison", "andExpr")
    BY <2>1, <2>2, MakesBinary
  <2>3. CASE TakeOperator("comparison")
    BY <2>1, <2>3, TakesOperator
  <2>4. CASE ReturnTo("comparison", "andExpr")
    BY <2>1, <2>4, Returns
  <2> QED
    BY <1>3, <2>2, <2>3, <2>4 DEF ParseComparison
<1>4. CASE ParseAndExpr
  <2>1. "andExpr" \in Function /\ at = "andExpr"
    BY <1>4 DEF Function, ParseAndExpr
  <2>2. CASE MakeBinary("andExpr", "andExpr")
    BY <2>1, <2>2, MakesBinary
  <2>3. CASE TakeOperator("andExpr")
    BY <2>1, <2>3, TakesOperator
  <2>4. CASE ReturnTo("andExpr", "orExpr")
    BY <2>1, <2>4, Returns
  <2> QED
    BY <1>4, <2>2, <2>3, <2>4 DEF ParseAndExpr
<1>5. CASE ParseOrExpr
  <2>1. "orExpr" \in Function /\ at = "orExpr"
    BY <1>5 DEF Function, ParseOrExpr
  <2>2. CASE MakeBinary("orExpr", "orExpr")
    BY <2>1, <2>2, MakesBinary
  <2>3. CASE TakeOperator("orExpr")
    BY <2>1, <2>3, TakesOperator
  <2>4. CASE ReturnTo("orExpr", "return")
    BY <2>1, <2>4, Returns
  <2> QED
    BY <1>5, <2>2, <2>3, <2>4 DEF ParseOrExpr
<1>6. CASE CloseParen
  <2>1. CASE Cur = "RPAREN"
    BY <1>6, <2>1, ClosesParen DEF CloseParen
  <2>2. CASE Cur # "RPAREN"
    BY <1>6, <2>2, FailsAtParen DEF CloseParen
  <2> QED
    BY <2>1, <2>2
<1>7. CASE ParseDone
  BY <1>7, Finishes
<1>8. CASE UNCHANGED parseVars
  BY <1>8 DEF parseVars, ParseInv, ParseType, Running, RunningOK, PlaceOK, NodeOK, Floor, ReturnedOK,
              Top, Cur, LongestSentenceCounts
<1> QED
  BY <1>1, <1>2, <1>3, <1>4, <1>5, <1>6, <1>7, <1>8 DEF ParseNext

\* The parser returns nullptr only for what is no sentence, and else the tree of the
\* longest sentence its tokens start with, for every sequence of tokens.
THEOREM LongestSentence == ParseSpec => []LongestSentenceCounts
<1>1. ParseInit => ParseInv
  BY ParseStart
<1>2. ParseInv /\ [ParseNext]_parseVars => ParseInv'
  BY ParseStep
<1>3. ParseInv => LongestSentenceCounts
  BY DEF ParseInv
<1> QED
  BY <1>1, <1>2, <1>3, PTL DEF ParseSpec

------------------------------------------------------------------------------
(* The line of an event.                                                   *)

LEMMA OpenNext ==
  ASSUME NEW l, NEW p \in Nat, NEW q \in Nat, p <= q + 1
  PROVE  /\ Open(l, p, q) \in Int
         /\ p = q + 1 => Open(l, p, q) = 0
         /\ Open(l, p, q + 1) = Open(l, p, q) + (IF l[q + 1] = "(" THEN 1
                                                 ELSE IF l[q + 1] = ")" THEN -1 ELSE 0)
<1> DEFINE In(c, n) == {i \in p..n : l[i] = c}
<1>1. \A c : /\ IsFiniteSet(In(c, q)) /\ Cardinality(In(c, q)) \in Nat
             /\ p = q + 1 => Cardinality(In(c, q)) = 0
             /\ Cardinality(In(c, q + 1)) = Cardinality(In(c, q)) + (IF l[q + 1] = c THEN 1 ELSE 0)
  <2> TAKE c
  <2>1. IsFiniteSet(In(c, q)) /\ Cardinality(In(c, q)) \in Nat
    <3>1. In(c, q) \in SUBSET (p..q) /\ IsFiniteSet(p..q)
      BY FS_Interval
    <3> QED
      BY <3>1, FS_Subset, FS_CardinalityType
  <2>2. p = q + 1 => Cardinality(In(c, q)) = 0
    <3>1. p = q + 1 => In(c, q) = {}
      OBVIOUS
    <3> HIDE DEF In
    <3> QED
      BY <3>1, FS_EmptySet
  <2>3. CASE l[q + 1] = c
    <3>1. In(c, q + 1) = In(c, q) \cup {q + 1} /\ q + 1 \notin In(c, q)
      BY <2>3
    <3> HIDE DEF In
    <3> QED
      BY <2>1, <2>2, <2>3, <3>1, FS_AddElement
  <2>4. CASE l[q + 1] # c
    <3>1. In(c, q + 1) = In(c, q)
      BY <2>4
    <3> HIDE DEF In
    <3> QED
      BY <2>1, <2>2, <2>4, <3>1
  <2> QED
    BY <2>3, <2>4
<1>2. \A n : Open(l, p, n) = Cardinality(In("(", n)) - Cardinality(In(")", n))
  BY DEF Open
<1> HIDE DEF In
<1> QED
  BY <1>1, <1>2

IsLines(c) ==
    /\ Len(c) \in Nat /\ DOMAIN c = 1..Len(c)
    /\ \A i \in DOMAIN c : Len(c[i]) \in Nat /\ DOMAIN c[i] = 1..Len(c[i])

\* None of the first n lines names the event.
NoneNamed(n) == \A j \in 1..n : \A q \in DOMAIN lines[j] : ~Named(lines[j], q)

\* The parenthesis has been open up to here, or has just been closed.
ScanOK ==
    LET l == lines[line]
    IN  /\ line > 0 /\ NoneNamed(line - 1) /\ Named(l, paren_start)
        /\ paren_start \in Nat /\ cond_end \in Nat /\ depth \in Nat
        /\ paren_start < cond_end /\ cond_end <= Len(l) + 1
        /\ depth > 0 => /\ depth = Open(l, paren_start, cond_end - 1)
                        /\ \A i \in paren_start..cond_end - 1 : Open(l, paren_start, i) > 0
        /\ depth = 0 => Closes(l, paren_start, cond_end)

LineInv ==
    /\ IsLines(lines) /\ line \in 0..Len(lines) /\ search \in {"read", "scan", "end"}
    /\ search # "end" => condition = <<>>
    /\ search = "read" => NoneNamed(line)
    /\ search = "scan" => ScanOK
    /\ LineOfEvent

LEMMA LineStart == LineInit => LineInv
<1> SUFFICES ASSUME LineInit PROVE LineInv
  OBVIOUS
<1>1. IsLines(lines)
  BY LineAssumption DEF LineInit, ParseCondition, IsLines
<1> QED
  BY <1>1 DEF LineInit, ParseCondition, LineInv, IsLines, NoneNamed, LineOfEvent

LEMMA ReadsLine ==
  ASSUME LineInv, ReadLine
  PROVE  LineInv'
<1>1. /\ IsLines(lines) /\ line \in 0..Len(lines) /\ NoneNamed(line) /\ condition = <<>>
      /\ line < Len(lines) /\ line' = line + 1 /\ lines' = lines /\ condition' = condition
  BY DEF LineInv, ReadLine
<1>2. /\ line + 1 \in DOMAIN lines /\ line' \in 0..Len(lines) /\ line + 1 > 0 /\ (line + 1) - 1 = line
      /\ Len(lines[line + 1]) \in Nat /\ DOMAIN lines[line + 1] = 1..Len(lines[line + 1])
  BY <1>1 DEF IsLines
<1>3. ASSUME NEW p \in DOMAIN lines[line + 1], Named(lines[line + 1], p),
             paren_start' = p, cond_end' = p + 1, depth' = 1, search' = "scan"
      PROVE  LineInv'
  <2> DEFINE l == lines[line + 1]
  <2>1. p \in Nat /\ p > 0 /\ p - 1 \in Nat /\ (p - 1) + 1 = p /\ (p + 1) - 1 = p /\ p + 1 <= Len(l) + 1
    BY <1>2
  <2>2. l[p] = "("
    BY <1>3 DEF Named, FirstParen
  <2>3. Open(l, p, p) = 1
    <3> DEFINE q == p - 1
    <3>1. q \in Nat /\ q + 1 = p /\ p <= q + 1
      BY <2>1
    <3> HIDE DEF l, q
    <3>2. Open(l, p, q) = 0
      BY <2>1, <3>1, OpenNext
    <3>3. Open(l, p, q + 1) = Open(l, p, q) + (IF l[q + 1] = "(" THEN 1
                                               ELSE IF l[q + 1] = ")" THEN -1 ELSE 0)
      BY <2>1, <3>1, OpenNext
    <3> QED
      BY <2>1, <2>2, <3>1, <3>2, <3>3
  <2>4. \A i \in p..p : Open(l, p, i) > 0
    BY <2>1, <2>3
  <2>6. ScanOK'
    <3>1. NoneNamed(line - 1)'
      BY <1>1, <1>2 DEF NoneNamed
    <3> QED
      BY <1>1, <1>2, <1>3, <2>1, <2>3, <2>4, <3>1 DEF ScanOK
  <2> QED
    BY <1>1, <1>2, <1>3, <2>6 DEF LineInv, LineOfEvent
<1>4. CASE /\ \A p \in DOMAIN lines[line + 1] : ~Named(lines[line + 1], p)
           /\ UNCHANGED <<paren_start, cond_end, depth, search>>
  <2>1. NoneNamed(line + 1)
    BY <1>1, <1>4 DEF NoneNamed
  <2>2. search' = "read"
    BY <1>4 DEF ReadLine
  <2> QED
    BY <1>1, <1>2, <2>1, <2>2 DEF LineInv, LineOfEvent, NoneNamed
<1> QED
  BY <1>3, <1>4 DEF ReadLine

LEMMA ReadsNoMore ==
  ASSUME LineInv, NoMoreLines
  PROVE  LineInv'
<1>1. /\ IsLines(lines) /\ line \in 0..Len(lines) /\ NoneNamed(line) /\ condition = <<>>
      /\ line = Len(lines) /\ search' = "end"
      /\ line' = line /\ lines' = lines /\ condition' = condition
  BY DEF LineInv, NoMoreLines
<1>2. \A i \in DOMAIN lines : \A p \in DOMAIN lines[i] : ~Named(lines[i], p)
  BY <1>1 DEF IsLines, NoneNamed
<1>3. LineOfEvent'
  BY <1>1, <1>2 DEF LineOfEvent
<1> QED
  BY <1>1, <1>3 DEF LineInv

LEMMA Scans ==
  ASSUME LineInv, Scan
  PROVE  LineInv'
<1> DEFINE l == lines[line]
<1>1. /\ IsLines(lines) /\ line \in 0..Len(lines) /\ condition = <<>> /\ ScanOK
      /\ search' = "scan" /\ cond_end <= Len(l) /\ depth > 0
      /\ depth' = ScanDepth(l[cond_end])
      /\ cond_end' = IF depth' > 0 THEN cond_end + 1 ELSE cond_end
      /\ line' = line /\ lines' = lines /\ condition' = condition /\ paren_start' = paren_start
  BY DEF LineInv, Scan
<1>2. /\ line > 0 /\ NoneNamed(line - 1) /\ Named(l, paren_start)
      /\ paren_start \in Nat /\ cond_end \in Nat /\ depth \in Nat /\ paren_start < cond_end
      /\ depth = Open(l, paren_start, cond_end - 1)
      /\ \A i \in paren_start..cond_end - 1 : Open(l, paren_start, i) > 0
  BY <1>1 DEF ScanOK
<1>3. Len(l) \in Nat
  BY <1>1, <1>2 DEF IsLines
<1> HIDE DEF l
<1>4. depth' = Open(l, paren_start, cond_end)
  <2>1. cond_end - 1 \in Nat /\ (cond_end - 1) + 1 = cond_end /\ paren_start <= (cond_end - 1) + 1
    BY <1>2
  <2>2. Open(l, paren_start, (cond_end - 1) + 1) =
          Open(l, paren_start, cond_end - 1) + (IF l[(cond_end - 1) + 1] = "(" THEN 1
                                                ELSE IF l[(cond_end - 1) + 1] = ")" THEN -1 ELSE 0)
    BY <1>2, <2>1, OpenNext
  <2>3. ScanDepth(l[cond_end]) = depth + (IF l[cond_end] = "(" THEN 1
                                          ELSE IF l[cond_end] = ")" THEN -1 ELSE 0)
    BY <1>2 DEF ScanDepth
  <2> QED
    BY <1>1, <1>2, <2>1, <2>2, <2>3
<1>5. depth' \in Nat
  BY <1>1, <1>2 DEF ScanDepth
<1>6. ScanOK'
  <2>1. NoneNamed(line - 1)'
    BY <1>1, <1>2 DEF NoneNamed
  <2>2. CASE depth' > 0
    <3>1. cond_end' = cond_end + 1 /\ cond_end' - 1 = cond_end /\ cond_end' <= Len(l) + 1
      BY <1>1, <1>2, <1>3, <2>2
    <3>2. \A i \in paren_start..cond_end : Open(l, paren_start, i) > 0
      <4> TAKE i \in paren_start..cond_end
      <4>1. i \in paren_start..cond_end - 1 \/ i = cond_end
        BY <1>2
      <4> QED
        BY <1>2, <1>4, <2>2, <4>1
    <3>3. cond_end' \in Nat /\ paren_start < cond_end'
      BY <1>2, <3>1
    <3> QED
      BY <1>1, <1>2, <1>4, <1>5, <2>1, <2>2, <3>1, <3>2, <3>3 DEF ScanOK, l
  <2>3. CASE depth' = 0
    <3>1. cond_end' = cond_end
      BY <1>1, <2>3
    <3>2. Closes(l, paren_start, cond_end)
      BY <1>1, <1>2, <1>3, <1>4, <2>3 DEF Closes
    <3>3. cond_end <= Len(l) + 1
      BY <1>1, <1>2, <1>3
    <3> QED
      BY <1>1, <1>2, <2>1, <2>3, <3>1, <3>2, <3>3 DEF ScanOK, l
  <2> QED
    BY <1>5, <2>2, <2>3
<1> QED
  BY <1>1, <1>6 DEF LineInv, LineOfEvent

LEMMA ScansToEnd ==
  ASSUME LineInv, ScanDone
  PROVE  LineInv'
<1> DEFINE l == lines[line]
<1>1. /\ IsLines(lines) /\ line \in 0..Len(lines) /\ condition = <<>> /\ ScanOK
      /\ search' = "end" /\ (cond_end > Len(l) \/ depth = 0)
      /\ condition' = IF depth = 0 THEN Trim(SubSeq(l, paren_start + 1, cond_end - 1)) ELSE <<>>
      /\ line' = line /\ lines' = lines
  BY DEF LineInv, ScanDone
<1>2. /\ line > 0 /\ NoneNamed(line - 1) /\ Named(l, paren_start) /\ depth \in Nat
      /\ cond_end \in Nat /\ cond_end <= Len(l) + 1 /\ paren_start \in Nat
  BY <1>1 DEF ScanOK
<1>3. /\ line \in DOMAIN lines /\ paren_start \in DOMAIN l
      /\ Len(l) \in Nat /\ DOMAIN l = 1..Len(l)
  BY <1>1, <1>2 DEF IsLines, Named, FirstParen
<1>4. \/ \E q \in DOMAIN l :
           Closes(l, paren_start, q) /\ condition' = Trim(SubSeq(l, paren_start + 1, q - 1))
      \/ (\A q \in DOMAIN l : ~Closes(l, paren_start, q)) /\ condition' = <<>>
  <2>1. CASE depth = 0
    <3>1. Closes(l, paren_start, cond_end)
      BY <1>1, <2>1 DEF ScanOK
    <3>2. cond_end \in DOMAIN l
      BY <1>2, <1>3, <3>1 DEF Closes
    <3> QED
      BY <1>1, <2>1, <3>1, <3>2
  <2>2. CASE depth # 0
    <3>1. cond_end > Len(l) /\ condition' = <<>> /\ depth > 0
      BY <1>1, <1>2, <2>2
    <3>2. \A i \in paren_start..cond_end - 1 : Open(l, paren_start, i) > 0
      BY <1>1, <3>1 DEF ScanOK
    <3>3. cond_end - 1 = Len(l)
      BY <1>2, <1>3, <3>1
    <3>4. \A q \in DOMAIN l : ~Closes(l, paren_start, q)
      BY <3>2, <3>3 DEF Closes
    <3> QED
      BY <3>1, <3>4
  <2> QED
    BY <2>1, <2>2
<1>5. \A j \in 1..line - 1 : \A q \in DOMAIN lines[j] : ~Named(lines[j], q)
  BY <1>2 DEF NoneNamed
<1>6. LineOfEvent'
  BY <1>1, <1>2, <1>3, <1>4, <1>5 DEF LineOfEvent
<1> QED
  BY <1>1, <1>6 DEF LineInv

\* The text that is parsed for an event is the condition its first line has, however
\* many lines there are and whatever parentheses are in them.
THEOREM LineFound == LineSpec => []LineOfEvent
<1>1. LineInit => LineInv
  BY LineStart
<1>2. LineInv /\ [LineNext]_lineVars => LineInv'
  <2> SUFFICES ASSUME LineInv, [LineNext]_lineVars PROVE LineInv'
    OBVIOUS
  <2>1. CASE ReadLine
    BY <2>1, ReadsLine
  <2>2. CASE NoMoreLines
    BY <2>2, ReadsNoMore
  <2>3. CASE Scan
    BY <2>3, Scans
  <2>4. CASE ScanDone
    BY <2>4, ScansToEnd
  <2>5. CASE UNCHANGED lineVars
    BY <2>5 DEF lineVars, LineInv, NoneNamed, ScanOK, LineOfEvent
  <2> QED
    BY <2>1, <2>2, <2>3, <2>4, <2>5 DEF LineNext
<1>3. LineInv => LineOfEvent
  BY DEF LineInv
<1> QED
  BY <1>1, <1>2, <1>3, PTL DEF LineSpec
==============================================================================
