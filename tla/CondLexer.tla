------------------------------- MODULE CondLexer -------------------------------
(***************************************************************************)
(* The lexer of the conditions of rules.  Each operator returns the token  *)
(* at the head of a text and what is left of the text.                     *)
(*                                                                         *)
(* A text is a sequence of symbols: single characters, and whole words     *)
(* ("event", "time", names) where the code compares or copies them whole.  *)
(* A value is a sequence of symbols too.  A token is [type, value].        *)
(***************************************************************************)
EXTENDS Integers, Sequences, SequencesExt, TLC

Digit == {"0", "1", "2", "3", "4", "5", "6", "7", "8", "9"}

Token(type) == [type |-> type, value |-> <<>>]

\* The first position of a symbol of C in s from position i on, or one past the end.
Find(s, C, i) == LET at == {j \in i..Len(s) : s[j] \in C}
                 IN  IF at = {} THEN Len(s) + 1
                     ELSE CHOOSE j \in at : \A k \in at : j <= k

From(s, i) == SubSeq(s, i, Len(s))

Lexed(token, rest) == [token |-> token, rest |-> rest]

TwoCharacter ==
    (<<"&", "&">> :> "AND") @@ (<<"|", "|">> :> "OR") @@ (<<">", "=">> :> "GE")
        @@ (<<"<", "=">> :> "LE") @@ (<<"=", "=">> :> "EQ") @@ (<<"!", "=">> :> "NE")

OneCharacter == ("(" :> "LPAREN") @@ (")" :> "RPAREN") @@ (">" :> "GT") @@ ("<" :> "LT")

\* {time}, {event.name}, {device.name}; a bare word is device data without a
\* name, and an empty reference ends the input.
LexBraced(s) ==
    LET close   == Find(s, {"}"}, 2)
        content == SubSeq(s, 2, close - 1)
        dot     == Find(content, {"."}, 1)
        token   == IF content = <<>> THEN Token("END")
                   ELSE IF content = <<"time">> THEN Token("TIME")
                   ELSE IF /\ Len(content) > 2
                           /\ SubSeq(content, 1, 2) = <<"event", ".">>
                   THEN [type |-> "EVENT_PARAM", value |-> From(content, 3)]
                   ELSE [type  |-> "DEVICE_DATA",
                         value |-> <<SubSeq(content, 1, dot - 1), From(content, dot + 1)>>]
    IN  Lexed(token, From(s, close + 1))

\* A string ends at the next quote that is not escaped, or with the input.
RECURSIVE LexString(_, _)
LexString(s, value) ==
    IF s = <<>> THEN Lexed([type |-> "STRING", value |-> value], <<>>)
    ELSE IF Head(s) = "\"" THEN Lexed([type |-> "STRING", value |-> value], Tail(s))
    ELSE IF Head(s) = "\\" /\ Len(s) > 1 THEN LexString(From(s, 3), Append(value, s[2]))
    ELSE LexString(Tail(s), Append(value, Head(s)))

\* Digits with at most one dot.
RECURSIVE LexNumber(_, _)
LexNumber(s, value) ==
    IF s # <<>> /\ (Head(s) \in Digit \/ (Head(s) = "." /\ ~Contains(value, ".")))
    THEN LexNumber(Tail(s), Append(value, Head(s)))
    ELSE Lexed([type |-> "NUMBER", value |-> value], s)

StartsNumber(s) == \/ Head(s) \in Digit
                   \/ Head(s) = "." /\ Len(s) > 1 /\ s[2] \in Digit

\* Spaces are skipped, and so is every symbol that starts no token.
RECURSIVE NextToken(_)
NextToken(s) ==
    IF s = <<>> THEN Lexed(Token("END"), s)
    ELSE IF Len(s) > 1 /\ SubSeq(s, 1, 2) \in DOMAIN TwoCharacter
    THEN Lexed(Token(TwoCharacter[SubSeq(s, 1, 2)]), From(s, 3))
    ELSE IF Head(s) \in DOMAIN OneCharacter THEN Lexed(Token(OneCharacter[Head(s)]), Tail(s))
    ELSE IF Head(s) = "{" THEN LexBraced(s)
    ELSE IF Head(s) = "\"" THEN LexString(Tail(s), <<>>)
    ELSE IF StartsNumber(s) THEN LexNumber(s, <<>>)
    ELSE NextToken(Tail(s))

\* The tokens the parser may come to see: it never asks for one after END.
RECURSIVE Tokens(_)
Tokens(s) == LET next == NextToken(s)
             IN  IF next.token.type = "END" THEN <<>>
                 ELSE <<next.token>> \o Tokens(next.rest)
==============================================================================
