------------------------------ MODULE CronParser ------------------------------
(***************************************************************************)
(* cron_parser.py: the fields of a cron expression, and the offsets of     *)
(* relative jobs.  A text is a sequence of characters; a field is parsed   *)
(* to the set of values it matches, or to Error; no other failure has a    *)
(* value either: a range or an expression is <<>> then, an offset 0.       *)
(***************************************************************************)
EXTENDS Integers, Sequences, SequencesExt, TLC

Error == {-1}

Numeral == ("0" :> 0) @@ ("1" :> 1) @@ ("2" :> 2) @@ ("3" :> 3) @@ ("4" :> 4)
             @@ ("5" :> 5) @@ ("6" :> 6) @@ ("7" :> 7) @@ ("8" :> 8) @@ ("9" :> 9)

AllDigits(s) == s # <<>> /\ \A i \in DOMAIN s : s[i] \in DOMAIN Numeral
Natural(s)   == FoldLeft(LAMBDA acc, c : 10 * acc + Numeral[c], 0, s)

\* Python's int(): digits, and a minus before them.
IsInt(s) == AllDigits(s) \/ (Len(s) > 1 /\ Head(s) = "-" /\ AllDigits(Tail(s)))
Int_(s)  == IF Head(s) = "-" THEN -Natural(Tail(s)) ELSE Natural(s)

\* index(): what is before and after the first c of s.
IndexOf(s, c)   == CHOOSE i \in DOMAIN s : s[i] = c /\ \A j \in 1..i - 1 : s[j] # c
BeforeIn(s, c)  == SubSeq(s, 1, IndexOf(s, c) - 1)
AfterIn(s, c)   == SubSeq(s, IndexOf(s, c) + 1, Len(s))

RECURSIVE SplitAt(_, _)
SplitAt(s, c) == IF Contains(s, c) THEN <<BeforeIn(s, c)>> \o SplitAt(AfterIn(s, c), c) ELSE <<s>>

\* The bounds of "*", "N-M" and "N".
RangeOf(part, min_val, max_val) ==
    CASE part = <<"*">> -> <<min_val, max_val>>
      [] part # <<"*">> /\ Contains(part, "-") ->
           (LET lo == BeforeIn(part, "-")
                hi == AfterIn(part, "-")
            IN  IF IsInt(lo) /\ IsInt(hi) THEN <<Int_(lo), Int_(hi)>> ELSE <<>>)
      [] OTHER -> IF IsInt(part) THEN <<Int_(part), Int_(part)>> ELSE <<>>

StepOf(part) ==
    IF ~Contains(part, "/") THEN 1
    ELSE IF IsInt(AfterIn(part, "/")) THEN Int_(AfterIn(part, "/")) ELSE 0

\* Slip: the end of the range is left out.
ParsePartExclusive(part, min_val, max_val) ==
    LET range == RangeOf(IF Contains(part, "/") THEN BeforeIn(part, "/") ELSE part, min_val, max_val)
        step  == StepOf(part)
    IN  IF step <= 0 \/ range = <<>> THEN Error
        ELSE IF range[1] < min_val \/ range[2] > max_val \/ range[1] > range[2] THEN Error
        ELSE {v \in range[1]..range[2] - 1 : (v - range[1]) % step = 0}

\* One part of the list, with its step.
ParsePart(part, min_val, max_val) ==
    LET range == RangeOf(IF Contains(part, "/") THEN BeforeIn(part, "/") ELSE part, min_val, max_val)
        step  == StepOf(part)
    IN  IF step <= 0 \/ range = <<>> THEN Error
        ELSE IF range[1] < min_val \/ range[2] > max_val \/ range[1] > range[2] THEN Error
        ELSE {v \in range[1]..range[2] : (v - range[1]) % step = 0}

\* _parse_field; a bad part spoils the field.
ParseField(token, min_val, max_val) ==
    LET parts  == SplitAt(token, ",")
        values == [i \in DOMAIN parts |-> ParsePart(parts[i], min_val, max_val)]
    IN  IF token = <<>> \/ \E i \in DOMAIN parts : values[i] = Error THEN Error
        ELSE UNION {values[i] : i \in DOMAIN parts}

\* minute, hour, day of month, month, day of week; 7 is another Sunday.
FieldBounds == <<<<0, 59>>, <<0, 23>>, <<1, 31>>, <<1, 12>>, <<0, 7>>>>
ParseExpr(fields) ==
    LET values == [i \in 1..5 |-> ParseField(fields[i], FieldBounds[i][1], FieldBounds[i][2])]
    IN  IF Len(fields) # 5 THEN <<>>
        ELSE IF \E i \in 1..5 : values[i] = Error THEN <<>>
        ELSE [values EXCEPT ![5] = {v % 7 : v \in @}]

\* A time has the five numbers of an expression.
MatchesTime(parsed, time) == \A i \in 1..5 : time[i] \in parsed[i]

------------------------------------------------------------------------------
Seconds == [s |-> 1, m |-> 60, h |-> 3600, d |-> 86400]

\* The loop of parse_offset, with the digits read since the last unit.
RECURSIVE OffsetTail(_, _, _)
OffsetTail(s, num_buf, total) ==
    CASE s = <<>> -> IF num_buf # <<>> \/ total <= 0 THEN 0 ELSE total
      [] s # <<>> /\ Head(s) \in DOMAIN Numeral -> OffsetTail(Tail(s), Append(num_buf, Head(s)), total)
      [] s # <<>> /\ Head(s) \in DOMAIN Seconds ->
           IF num_buf = <<>> THEN 0
           ELSE OffsetTail(Tail(s), <<>>, total + Natural(num_buf) * Seconds[Head(s)])
      [] OTHER -> 0

ParseOffset(s) == OffsetTail(s, <<>>, 0)

\* The expression that matches at the time now + offset.
NumeralText(n) ==
    LET digit(d) == CHOOSE c \in DOMAIN Numeral : Numeral[c] = d
    IN  IF n < 10 THEN <<digit(n)>> ELSE <<digit(n \div 10), digit(n % 10)>>
MakeCron(target) == [i \in 1..5 |-> IF i = 5 THEN <<"*">> ELSE NumeralText(target[i])]
==============================================================================
