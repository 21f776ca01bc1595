----------------------------- MODULE MCConfParser -----------------------------
(* Instances of ConfParser for TLC. *)
EXTENDS ConfParser

CONSTANT MaxLength  \* of any text

AnyTexts == UNION {[1 .. n -> Chars] : n \in 1 .. MaxLength}

Blank(n, e)   == [kind |-> "blank", indent |-> n, left |-> 0, right |-> 0, name |-> <<>>,
                  value |-> <<>>, quoted |-> FALSE, eol |-> e]
Comment(n, e) == [Blank(n, e) EXCEPT !.kind = "comment", !.value = <<"space", "quote", "=">>]

\* Values that need no quotes, and values that do.
PlainValues == {<<Letter>>, <<Other, "quote", "#">>, <<"#", "=", Letter>>}
QuotedValues == {<<>>, <<Letter, "space", "#">>, <<"backslash", "quote">>, <<Letter, "CR", "LF", Letter>>,
                 <<"=", "LF", Letter, "space">>}

Definition(n, l, r, x, q, e) ==
    [kind |-> "definition", indent |-> n, left |-> l, right |-> r,
     name |-> <<Letter, Letter>>, value |-> x, quoted |-> q, eol |-> e]

AnyEol == {<<"LF">>, <<"CR">>, <<"CR", "LF">>}

Lines(ends) ==
    {Blank(n, e) : n \in 0 .. 1, e \in ends}
    \cup {Comment(n, e) : n \in 0 .. 1, e \in ends \ {<<>>}}
    \cup {Definition(n, s[1], s[2], x, FALSE, e) :
            n \in 0 .. 1, s \in (0 .. 1) \X (0 .. 1), x \in PlainValues, e \in ends}
    \cup {Definition(0, n, n, x, TRUE, e) : n \in {0, 2}, x \in QuotedValues, e \in ends}

\* Any value of up to three characters that the scanner is meant for.
AnyValues == {<<>>} \cup UNION {[1 .. n -> Chars] : n \in 1 .. 3}

AnyDefinitions ==
    {Definition(0, 1, 1, x, FALSE, <<"LF">>) : x \in {x \in AnyValues : Plain(x)}}
    \cup {Definition(0, 1, 1, x, TRUE, <<"LF">>) : x \in {x \in AnyValues : Quotable(x)}}

\* One or two lines; only the last may lack its end.
AnyDocuments ==
    {<<l>> : l \in AnyDefinitions}
    \cup {<<l>> : l \in Lines(AnyEol \cup {<<>>})}
    \cup {<<k, l>> : k \in Lines(AnyEol), l \in Lines(AnyEol \cup {<<>>})}
=============================================================================
