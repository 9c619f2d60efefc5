------------------------------ MODULE SplitSql ------------------------------
(***************************************************************************)
(* split_sql of migration/migrate.py: a migration file is executed one     *)
(* statement at a time, so its text is cut at the semicolons that are not  *)
(* inside a string, an identifier, a comment or a dollar-quoted body.      *)
(* A text is a sequence of characters. "n" stands for a line break, "b"    *)
(* for a backslash, "e" for E, "x" for another ASCII letter or _, "u" for  *)
(* a letter that is not ASCII, "1" for a digit and "+" for anything else.  *)
(***************************************************************************)
EXTENDS Naturals, Sequences, FiniteSetsExt

CONSTANT SqlTexts \* the texts to be split

Quotes == {"'", "\""}
Blanks == {"n", " "}
Letters == {"e", "x", "u"}
Digits == {"1"}
Chars == Quotes \cup Blanks \cup Letters \cup Digits \cup {";", "$", "-", "/", "*", "b", "+"}

ASSUME SqlTextsAssumption == SqlTexts \subseteq Seq(Chars)

\* The word begins at position i.
At(text, i, word) ==
    /\ i + Len(word) - 1 <= Len(text)
    /\ \A k \in 1..Len(word) : text[i + k - 1] = word[k]

LineComment == <<"-", "-">>
BlockComment == <<"/", "*">>

\* The characters of a tag in dollar_tag_re, and the tag that begins at i, or <<>>.
TagChars == {"e", "x", "1"}

DollarTag(text, i) ==
    LET ends == {j \in i+1..Len(text) :
                    /\ text[i] = "$" /\ text[j] = "$"
                    /\ \A k \in i+1..j-1 : text[k] \in TagChars} IN
    IF ends = {} THEN <<>> ELSE SubSeq(text, i, Min(ends))

\* The context that opens at i outside any other: how it is opened and closed
\* (<<>>: none).
Opens(text, i) ==
    CASE At(text, i, LineComment)  -> [open |-> LineComment, close |-> <<"n">>]
      [] At(text, i, BlockComment) -> [open |-> BlockComment, close |-> <<"*", "/">>]
      [] text[i] \in Quotes           -> [open |-> <<text[i]>>, close |-> <<text[i]>>]
      [] OTHER -> [open |-> DollarTag(text, i), close |-> DollarTag(text, i)]

\* Variant: any tag ends a dollar-quoted body.
EndsAtAnyTag(text, i, close) ==
    At(text, i, close) \/ (close[1] = "$" /\ DollarTag(text, i) # <<>>)

Ends(text, i, close) == At(text, i, close)

\* In a string or an identifier a doubled quote does not end it.
Doubled(text, i, close) ==
    close[1] \in Quotes /\ At(text, i, close) /\ At(text, i + 1, close)

\* The loop of split_sql is at a position, in the context that `close` ends.
States == [at : Nat \ {0}, close : Seq(Chars)]

\* One turn of the loop.
Advance(text, s) ==
    LET context == Opens(text, s.at) IN
    IF s.close = <<>> THEN
        IF context.open = <<>> THEN [s EXCEPT !.at = @ + 1]
        ELSE [at |-> s.at + Len(context.open), close |-> context.close]
    ELSE IF Doubled(text, s.at, s.close) THEN [s EXCEPT !.at = @ + 2]
    ELSE IF Ends(text, s.at, s.close) THEN [at |-> s.at + Len(s.close), close |-> <<>>]
    ELSE [s EXCEPT !.at = @ + 1]

\* Where split_sql cuts: at the semicolons it meets in no context.
Cuts(text) ==
    LET cuts[s \in States] ==
            IF s.at > Len(text) THEN {}
            ELSE (IF s.close = <<>> /\ text[s.at] = ";" THEN {s.at} ELSE {})
                 \cup cuts[Advance(text, s)]
    IN cuts[[at |-> 1, close |-> <<>>]]

\* The pieces between the cuts, as intervals of positions.
Pieces(text, cuts) ==
    {piece \in (1..Len(text) + 1) \X (0..Len(text)) :
        /\ piece[1] = 1 \/ piece[1] - 1 \in cuts
        /\ piece[2] = Len(text) \/ piece[2] + 1 \in cuts
        /\ (piece[1]..piece[2]) \cap cuts = {}}

\* The first character of a line of the piece that is not blank (strip).
BeginsLine(text, piece, i) ==
    /\ text[i] \notin Blanks
    /\ \A k \in piece[1]..i-1 : text[k] = " " \/ \E m \in k..i-1 : text[m] = "n"

\* _emit keeps a piece with a line that is not empty and not a comment.
Emits(text, piece) ==
    \E i \in piece[1]..piece[2] : BeginsLine(text, piece, i) /\ ~At(text, i, LineComment)

-----------------------------------------------------------------------------
(* The reference: the tokens of PostgreSQL's lexer, which runs over the whole *)
(* text. It knows names, which may hold a $, and the tags it accepts.         *)

\* The position behind the first `word` at or after `from`.
Past(text, from, word) ==
    LET ends == {j \in from..Len(text) : At(text, j, word)} IN
    IF ends = {} THEN Len(text) + 1 ELSE Min(ends) + Len(word)

\* The position behind the name that begins at i.
NameEnd(text, i) ==
    Min({j \in i+1..Len(text)+1 :
            j <= Len(text) => text[j] \notin Letters \cup Digits \cup {"$"}})

\* The delimiter of a dollar-quoted string that begins at i, or <<>>: its tag is
\* empty or a name without a $.
Delimiter(text, i) ==
    LET ends == {j \in i+1..Len(text) :
                    /\ text[i] = "$" /\ text[j] = "$"
                    /\ \A k \in i+1..j-1 : text[k] \in Letters \cup Digits
                    /\ text[i+1] \notin Digits} IN
    IF ends = {} THEN <<>> ELSE SubSeq(text, i, Min(ends))

\* The position behind the token that begins at i. (A doubled quote is lexed as
\* two strings, which comes to the same.)
After(text, i) ==
    CASE At(text, i, LineComment)  -> Past(text, i + 2, <<"n">>)
      [] At(text, i, BlockComment) -> Past(text, i + 2, <<"*", "/">>)
      [] text[i] \in Quotes        -> Past(text, i + 1, <<text[i]>>)
      [] text[i] \in Letters       -> NameEnd(text, i)
      [] Delimiter(text, i) # <<>> ->
            Past(text, i + Len(Delimiter(text, i)), Delimiter(text, i))
      [] OTHER -> i + 1

\* Where the tokens begin.
TopLevel(text) ==
    LET top[i \in 1..Len(text) + 1] ==
            IF i > Len(text) THEN {} ELSE {i} \cup top[After(text, i)]
    IN top[1]

\* What split_sql reads otherwise than PostgreSQL. No migration has any of it.
NestsComments(text) ==
    \E i \in TopLevel(text) : /\ At(text, i, BlockComment)
                              /\ \E j \in i+2..After(text, i)-2 : At(text, j, BlockComment)

NamesWithDollar(text) ==
    \E i \in TopLevel(text) : /\ text[i] \in Letters
                              /\ \E j \in i..NameEnd(text, i)-1 : text[j] = "$"

\* A parameter ($1), which begins no delimiter.
NumbersParameters(text) ==
    \E i \in TopLevel(text) : text[i] = "$" /\ i < Len(text) /\ text[i+1] \in Digits

TagsNotAscii(text) ==
    \E i \in TopLevel(text), k \in 1..Len(text) :
        k <= Len(Delimiter(text, i)) /\ Delimiter(text, i)[k] = "u"

\* A backslash in (or after) an E'...' string, where it escapes a quote.
Escapes(text) ==
    \E i \in TopLevel(text) : /\ text[i] = "e" /\ i < Len(text) /\ text[i+1] = "'"
                              /\ \E j \in i+2..Len(text) : text[j] = "b"

Foreign(text) ==
    \/ NestsComments(text) \/ NamesWithDollar(text) \/ NumbersParameters(text)
    \/ TagsNotAscii(text) \/ Escapes(text)

Comments(text, i) == At(text, i, LineComment) \/ At(text, i, BlockComment)

HasCode(text, piece) ==
    \E i \in TopLevel(text) \cap (piece[1]..piece[2]) : ~Comments(text, i) /\ text[i] \notin Blanks

HasBlockComment(text, piece) ==
    \E i \in TopLevel(text) \cap (piece[1]..piece[2]) : At(text, i, BlockComment)

\* A text without the constructs of Foreign is cut exactly at the semicolons that
\* are tokens: doubled quotes, quotes in comments, comments in strings, tags in
\* bodies, a $ among operators and what is never closed included.
CutsAtStatements(text) ==
    Foreign(text) \/ Cuts(text) = {i \in TopLevel(text) : text[i] = ";"}

\* No piece with a statement in it is dropped; what is kept without one holds a
\* block comment.
KeepsStatements(text) ==
    Foreign(text) \/
    \A piece \in Pieces(text, Cuts(text)) :
        /\ HasCode(text, piece) => Emits(text, piece)
        /\ Emits(text, piece) => HasCode(text, piece) \/ HasBlockComment(text, piece)
=============================================================================
