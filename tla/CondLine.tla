-------------------------------- MODULE CondLine --------------------------------
(***************************************************************************)
(* ParseCondition: the search for an event's condition in cond_expr, which *)
(* has one line "name (condition)" for each event.                         *)
(*                                                                         *)
(* A line is a sequence of symbols: the parentheses, spaces, and whole     *)
(* words for the rest.  A carriage return at its end is a space like       *)
(* others: nothing that is looked at comes behind it.                      *)
(***************************************************************************)
EXTENDS Integers, Sequences, FiniteSets

CONSTANTS
    CondExprs,  \* what cond_expr may be
    Event       \* evt_id_str: the name of the event

ASSUME LineAssumption ==
    \A c \in CondExprs : /\ Len(c) \in Nat /\ DOMAIN c = 1..Len(c)
                         /\ \A i \in DOMAIN c : Len(c[i]) \in Nat /\ DOMAIN c[i] = 1..Len(c[i])

VARIABLES
    lines,        \* cond_expr
    line,         \* the number of the line that was read last
    paren_start,  \* the position of its first "("
    cond_end,     \* how far the condition goes
    depth,        \* the parentheses that are open
    condition,    \* the text the parser gets; <<>> is always true
    search        \* what is done now: "read", "scan", "end"

lineVars == <<lines, line, paren_start, cond_end, depth, condition, search>>

Space == {" ", "\t", "\r"}
Trim(s) == LET kept == {i \in DOMAIN s : s[i] \notin Space}
           IN  IF kept = {} THEN <<>>
               ELSE SubSeq(s, CHOOSE i \in kept : \A j \in kept : i <= j,
                              CHOOSE i \in kept : \A j \in kept : i >= j)

\* Position p of a line is its first "(", and what is before it is the event's name.
FirstParen(l, p) == p \in DOMAIN l /\ l[p] = "(" /\ \A i \in 1..p - 1 : l[i] # "("
Named(l, p)      == FirstParen(l, p) /\ Trim(SubSeq(l, 1, p - 1)) = Event

\* The call, for a cond_expr.
ParseCondition(cond_expr) ==
    /\ lines = cond_expr /\ line = 0 /\ paren_start = 0 /\ cond_end = 0 /\ depth = 0
    /\ condition = <<>> /\ search = "read"

LineInit == \E c \in CondExprs : ParseCondition(c)

\* Other lines are passed over.
ReadLine ==
    /\ search = "read" /\ line < Len(lines)
    /\ line' = line + 1
    /\ \/ /\ \E p \in DOMAIN lines[line + 1] :
               /\ Named(lines[line + 1], p)
               /\ paren_start' = p /\ cond_end' = p + 1
          /\ depth' = 1 /\ search' = "scan"
       \/ /\ \A p \in DOMAIN lines[line + 1] : ~Named(lines[line + 1], p)
          /\ UNCHANGED <<paren_start, cond_end, depth, search>>
    /\ UNCHANGED <<lines, condition>>

\* No line names the event.
NoMoreLines ==
    /\ search = "read" /\ line = Len(lines)
    /\ search' = "end"
    /\ UNCHANGED <<lines, line, paren_start, cond_end, depth, condition>>

\* Slip: parentheses within the condition are not counted.
ScanFlat(symbol) == IF symbol = ")" THEN depth - 1 ELSE depth

\* How many are open behind a symbol; quotes are not looked at.
ScanDepth(symbol) ==
    IF symbol = "(" THEN depth + 1 ELSE IF symbol = ")" THEN depth - 1 ELSE depth

Scan ==
    /\ search = "scan" /\ cond_end <= Len(lines[line]) /\ depth > 0
    /\ depth' = ScanDepth(lines[line][cond_end])
    /\ cond_end' = (IF depth' > 0 THEN cond_end + 1 ELSE cond_end)
    /\ UNCHANGED <<lines, line, paren_start, condition, search>>

\* A line in which a parenthesis stays open has no condition, and nor do the lines
\* behind it.
ScanDone ==
    /\ search = "scan" /\ (cond_end > Len(lines[line]) \/ depth = 0)
    /\ condition' = (IF depth = 0 THEN Trim(SubSeq(lines[line], paren_start + 1, cond_end - 1))
                     ELSE <<>>)
    /\ search' = "end"
    /\ UNCHANGED <<lines, line, paren_start, cond_end, depth>>

LineNext == ReadLine \/ NoMoreLines \/ Scan \/ ScanDone

LineSpec == LineInit /\ [][LineNext]_lineVars

------------------------------------------------------------------------------
\* How many parentheses of those from p to q are still open behind q.
Open(l, p, q) == Cardinality({i \in p..q : l[i] = "("}) - Cardinality({i \in p..q : l[i] = ")"})

\* The parenthesis at p is closed at q.
Closes(l, p, q) == q \in p..Len(l) /\ Open(l, p, q) = 0 /\ \A i \in p..q - 1 : Open(l, p, i) > 0

\* The condition of an event is what the first line with its name has between its
\* first parenthesis and the one that closes it, whatever is before that line and
\* behind it; it is empty, that is always true, only if there is nothing, no such
\* line or no such parenthesis (ParseCondition).
LineOfEvent ==
    search = "end" =>
        \/ /\ \A i \in DOMAIN lines : \A p \in DOMAIN lines[i] : ~Named(lines[i], p)
           /\ condition = <<>>
        \/ \E i \in DOMAIN lines : \E p \in DOMAIN lines[i] :
             /\ Named(lines[i], p)
             /\ \A j \in 1..i - 1 : \A q \in DOMAIN lines[j] : ~Named(lines[j], q)
             /\ \/ \E q \in DOMAIN lines[i] :
                     Closes(lines[i], p, q) /\ condition = Trim(SubSeq(lines[i], p + 1, q - 1))
                \/ (\A q \in DOMAIN lines[i] : ~Closes(lines[i], p, q)) /\ condition = <<>>
==============================================================================
