------------------------------ MODULE ConfParser ------------------------------
(***************************************************************************)
(* _srvd_conf_file_read of conf.c: the scanner that reads name = value     *)
(* lines from a buffer.  A character is what the scanner tells apart.  The *)
(* buffer holds the text and a terminator; what lies beyond it is unknown, *)
(* so a read there may find any character.  Positions count from zero.     *)
(*                                                                         *)
(* Memory for the items never runs out here; Conf has that.                *)
(***************************************************************************)
EXTENDS Integers, Sequences, FiniteSetsExt, SequencesExt

Letter == "letter"   \* isalnum or ':'
Other  == "other"
NUL    == "NUL"
Space  == {"space"}
Eol    == {"CR", "LF"}
Chars  == {Letter, Other, "=", "#", "quote", "backslash"} \cup Space \cup Eol

CONSTANTS
    Texts,      \* contents of files: sequences of Chars
    Documents   \* sequences of lines, see Line

\* A blank line, a comment, or a definition: the spaces before its name and on
\* the sides of its '=', its value between quotes or not, and how it ends.
Line == [kind : {"blank", "comment", "definition"}, indent : Nat, left : Nat, right : Nat,
         name : Seq(Chars), value : Seq(Chars), quoted : BOOLEAN, eol : {<<"LF">>, <<"CR">>,
         <<"CR", "LF">>, <<>>}]

\* A name: what it begins with is no space, end of a line or comment.
Nameable(x) ==
    x # <<>> /\ x[1] \notin Space \cup Eol \cup {"#"} /\ \A k \in 2 .. Len(x) : x[k] = Letter

\* A value that needs no quotes.
Plain(x) == x # <<>> /\ x[1] # "quote" /\ \A k \in DOMAIN x : x[k] \notin Space \cup Eol

\* A value that can stand between quotes: a quote in it is escaped, but not as
\* the first thing on a line, and its end does not take the closing quote with it.
Quotable(x) ==
    /\ \A k \in DOMAIN x : x[k] = "quote" =>
         k > 1 /\ x[k - 1] = "backslash" /\ (k > 2 => x[k - 2] \notin Eol)
    /\ x # <<>> => x[Len(x)] \notin Eol \cup {"backslash"}

\* A document the scanner is meant for.
Legible(d) ==
    \A k \in DOMAIN d :
        /\ d[k].eol = <<>> => k = Len(d)
        /\ d[k].kind = "comment" =>
             d[k].eol # <<>> /\ \A n \in DOMAIN d[k].value : d[k].value[n] \notin Eol
        /\ d[k].kind = "definition" =>
             /\ Nameable(d[k].name)
             /\ IF d[k].quoted THEN Quotable(d[k].value) ELSE Plain(d[k].value)

ASSUME TextsAssumption == Texts \subseteq Seq(Chars)
ASSUME DocumentsAssumption == \A d \in Documents : d \in Seq(Line) /\ Legible(d)

Spaces(n) == [k \in 1 .. n |-> "space"]
Quote(l)  == IF l.quoted THEN <<"quote">> ELSE <<>>

Written(l) ==
    Spaces(l.indent) \o
    (CASE l.kind = "blank"   -> <<>>
       [] l.kind = "comment" -> <<"#">> \o l.value
       [] OTHER -> l.name \o Spaces(l.left) \o <<"=">> \o Spaces(l.right)
                   \o Quote(l) \o l.value \o Quote(l))
    \o l.eol

VARIABLES
    text,       \* the file's characters
    document,   \* the lines it was written from, a singleton, or {}
    pc,         \* "top" of the loop, or a label of the switch
    state, status,
    bp,         \* the cursor
    name, value,  \* [start, end] of each, value NoSpan before one is read
    items,      \* conf->nodes: name and value as spans, the newest first
    reach       \* auxiliary: the last position read

values == <<name, value>>
vars   == <<text, document, pc, state, status, bp, values, items, reach>>

NoSpan == [start |-> 0, end |-> -1]
Size   == Len(text)        \* _BP_EOF_CHECK: buffer_size - 1

\* Mutant of AtEnd: the terminator is taken for a character of the text.
MutAtEnd(p) == p > Size
AtEnd(p) == p >= Size

Init ==
    /\ \/ text \in Texts /\ document = {}
       \/ \E d \in Documents : text = FlattenSeq([k \in DOMAIN d |-> Written(d[k])]) /\ document = {d}
    /\ pc = "top" /\ state = "global" /\ status = TRUE /\ bp = 0
    /\ name = NoSpan /\ value = NoSpan /\ items = <<>> /\ reach = 0

-----------------------------------------------------------------------------
(* Reading *)

\* What *p may be.
At(p) == IF p < Size THEN {text[p + 1]} ELSE IF p = Size THEN {NUL} ELSE Chars \cup {NUL}

Read(p) == reach' = Max({reach, p})

\* while(p++ && !_BP_EOF_CHECK(p) && *p in S)
Skip(p, S) ==
    LET stops == {k \in p + 1 .. Size + 1 : AtEnd(k) \/ At(k) \cap S = {}} IN
    IF stops = {} THEN p + 1 ELSE Min(stops)

Names == {Letter}
Inline == (Chars \cup {NUL}) \ Eol    \* _BP_COMMENT_READ, _BP_LINE_READ

\* _BP_EOL_READ at a character c, which may also be a space.
AfterEol(p, c) ==
    IF c = "CR" THEN {IF d = "LF" THEN p + 2 ELSE p + 1 : d \in At(p + 1)} ELSE {p + 1}

EolRead(c) ==
    /\ bp' \in AfterEol(bp, c)
    /\ Read(IF c = "CR" THEN bp + 1 ELSE bp)

-----------------------------------------------------------------------------
(* The loop *)

\* A comment is skipped in every state, and the end not checked again after it.
Top ==
    /\ pc = "top" /\ ~AtEnd(bp)
    /\ bp' = IF "#" \in At(bp) THEN Skip(bp, Inline) ELSE bp
    /\ Read(bp)
    /\ pc' = state
    /\ UNCHANGED <<text, document, state, status, values, items>>

SkipBlank ==
    /\ pc = "global"
    /\ \E c \in At(bp) \cap (Eol \cup Space) : EolRead(c)
    /\ pc' = "top"
    /\ UNCHANGED <<text, document, state, status, values, items>>

\* The first character of a name may be any.
ReadName ==
    /\ pc = "global"
    /\ At(bp) \ (Eol \cup Space) # {}
    /\ bp' = Skip(bp, Names)
    /\ name' = [start |-> bp, end |-> bp']
    /\ Read(bp)
    /\ state' = "assign" /\ pc' = "assign"
    /\ UNCHANGED <<text, document, status, value, items>>

AssignSpace ==
    /\ pc = "assign"
    /\ At(bp) \cap Space # {}
    /\ bp' = Skip(bp, Space)
    /\ Read(bp)
    /\ pc' = "top"
    /\ UNCHANGED <<text, document, state, status, values, items>>

Assign ==
    /\ pc = "assign"
    /\ "=" \in At(bp)
    /\ bp' = Skip(bp, Space)
    /\ Read(bp)
    /\ state' = "value" /\ pc' = "value"
    /\ UNCHANGED <<text, document, status, values, items>>

\* Mutant of Reject: the error is only logged.
MutReject == UNCHANGED status
Reject == status' = FALSE

\* A comment, the end of the line or something else where '=' should be.
NoAssign ==
    /\ pc = "assign"
    /\ \E c \in At(bp) \ (Space \cup {"="}) :
         \/ c = "#" /\ bp' = Skip(bp, Inline) /\ Read(bp) /\ state' = "global"
         \/ c \in Eol /\ EolRead(c) /\ state' = "global"
         \/ c \notin Eol \cup {"#"} /\ bp' = bp + 1 /\ Read(bp) /\ UNCHANGED state
    /\ Reject
    /\ pc' = "top"
    /\ UNCHANGED <<text, document, values, items>>

ValueSpace ==
    /\ pc = "value"
    /\ At(bp) \cap Space # {}
    /\ bp' = Skip(bp, Space)
    /\ Read(bp)
    /\ pc' = "top"
    /\ UNCHANGED <<text, document, state, status, values, items>>

NoValue ==
    /\ pc = "value"
    /\ At(bp) \cap Eol # {}
    /\ Read(bp)
    /\ state' = "close" /\ pc' = "top"
    /\ UNCHANGED <<text, document, status, bp, values, items>>

OpenQuote ==
    /\ pc = "value"
    /\ "quote" \in At(bp)
    /\ value' = [start |-> bp + 1, end |-> -1]
    /\ Read(bp)
    /\ pc' = "quoted"
    /\ UNCHANGED <<text, document, state, status, bp, name, items>>

\* Mutant of Escaped: a backslash is like any other character.
MutEscaped(p) == FALSE
Escaped(p) == "backslash" \in At(p) /\ "quote" \in At(p + 1)

Goes(p) == ~AtEnd(p) /\ At(p) # {"quote"}

\* One turn of the loop.  After the end of a line it skips one more character.
Quoted ==
    LET p == bp + 1 IN
    /\ pc = "quoted"
    /\ \/ /\ ~Goes(p)
          /\ bp' = p /\ pc' = "unquote"
          /\ Read(IF AtEnd(p) THEN bp ELSE p)
       \/ /\ Goes(p)
          /\ \E c \in At(p) :
               /\ \/ Escaped(p) /\ bp' = p + 1
                  \/ ~Escaped(p) /\ c \in Eol /\ bp' \in AfterEol(p, c)
                  \/ ~Escaped(p) /\ c \notin Eol /\ bp' = p
               /\ Read(IF c \in {"backslash", "CR"} THEN p + 1 ELSE p)
          /\ UNCHANGED pc
    /\ UNCHANGED <<text, document, state, status, values, items>>

Unclosed ==
    /\ pc = "unquote"
    /\ At(bp) \ {"quote"} # {}
    /\ Read(bp)
    /\ Reject
    /\ state' = "global" /\ pc' = "top"
    /\ UNCHANGED <<text, document, bp, values, items>>

CloseQuote ==
    /\ pc = "unquote"
    /\ "quote" \in At(bp)
    /\ value' = [value EXCEPT !.end = bp]
    /\ bp' = bp + 1
    /\ Read(bp)
    /\ state' = "close" /\ pc' = "close"
    /\ UNCHANGED <<text, document, status, name, items>>

ReadValue ==
    /\ pc = "value"
    /\ At(bp) \ (Space \cup Eol \cup {"quote"}) # {}
    /\ bp' = IF AtEnd(bp) THEN bp ELSE Skip(bp, Inline \ Space)
    /\ value' = [start |-> bp, end |-> bp']
    /\ Read(bp')
    /\ state' = "close" /\ pc' = "close"
    /\ UNCHANGED <<text, document, status, name, items>>

\* item_add copies the name and the value; without a value it copies from NULL.
AddItem ==
    IF value = NoSpan
      THEN pc' = "crashed" /\ UNCHANGED items
      ELSE items' = <<[name |-> name, value |-> value]>> \o items /\ pc' = "top"

CloseLine ==
    /\ pc = "close"
    /\ \E c \in At(bp) :
         IF c \in Eol THEN EolRead(c) /\ UNCHANGED status
         ELSE /\ Read(bp)
              /\ IF AtEnd(bp) THEN UNCHANGED <<bp, status>>
                              ELSE bp' = Skip(bp, Inline) /\ Reject
    /\ IF status' THEN AddItem ELSE pc' = "top" /\ UNCHANGED items
    /\ name' = NoSpan /\ value' = NoSpan
    /\ state' = "global"
    /\ UNCHANGED <<text, document>>

Finish ==
    /\ pc = "top" /\ AtEnd(bp)
    /\ status' = (status /\ state = "global")
    /\ items' = IF status' THEN items ELSE <<>>
    /\ pc' = "done"
    /\ UNCHANGED <<text, document, state, bp, values, reach>>

Next ==
    \/ Top \/ SkipBlank \/ ReadName \/ AssignSpace \/ Assign \/ NoAssign
    \/ ValueSpace \/ NoValue \/ OpenQuote \/ Quoted \/ Unclosed \/ CloseQuote \/ ReadValue
    \/ CloseLine \/ Finish

Spec == Init /\ [][Next]_vars

-----------------------------------------------------------------------------
(* Properties *)

\* "With _BP_EOF_CHECK(), we leave an extra byte at the end, so we can safely read
\* bp and bp + 1" (conf.c:258): no read goes beyond the terminator.  The code does
\* otherwise after a comment that ends the file (conf.c:262) and at the end of a
\* name, a space or a quoted value there, where it goes on without a check.
SafeToRead == reach <= Size

\* How far the cursor can get beyond the text when it does leave the buffer.
Overrun == 6

Span == [start : 0 .. Size + Overrun, end : -1 .. Size + Overrun]

\* Types.  The bound on the cursor is what holds instead of SafeToRead.
TypeOK ==
    /\ pc \in {"top", "global", "assign", "value", "quoted", "unquote", "close", "done", "crashed"}
    /\ state \in {"global", "assign", "value", "close"} /\ status \in BOOLEAN
    /\ bp \in 0 .. Size + Overrun /\ reach \in 0 .. Size + Overrun
    /\ name \in Span /\ value \in Span
    /\ items \in Seq([name : Span, value : Span])

Text(span) == SubSeq(text, span.start + 1, span.end)

\* The names and values that the first k lines define, the last first.
Defined(d) ==
    LET defined[k \in 0 .. Len(d)] ==
        IF k = 0 THEN <<>>
        ELSE IF d[k].kind = "definition" THEN <<<<d[k].name, d[k].value>>>> \o defined[k - 1]
        ELSE defined[k - 1]
    IN defined

\* What a document says is read as it was written, whatever spaces, blank
\* lines, comments, quotes and line ends it uses: every definition, the last
\* first, and without a look beyond the buffer.
ReadAsWritten ==
    \A d \in document :
        /\ pc # "crashed" /\ reach <= Size
        /\ pc = "done" =>
            /\ status
            /\ [k \in DOMAIN items |-> <<Text(items[k].name), Text(items[k].value)>>]
               = Defined(d)[Len(d)]

In(p, span) == span.start <= p /\ p < span.end

\* A comment that p is in starts its line, but for spaces.
InComment(p) ==
    \E k \in 0 .. p :
        /\ text[k + 1] = "#"
        /\ \A l \in k .. p : text[l + 1] \notin Eol
        /\ \A l \in 0 .. k - 1 :
             text[l + 1] \notin Space => \E e \in l .. k - 1 : text[e + 1] \in Eol

\* A file that is accepted by a scan that stayed in the buffer is understood to its
\* last character: what is neither in a name nor in a value is a space, the end of
\* a line, one '=' per item, a quote or a comment; the names and values lie in the
\* buffer one after another.  Of a scan that left it nothing is said, since what it
\* found there may be anything.  Within the buffer the one thing that ends the
\* process is a definition without a value (conf.c:386).
NothingIgnored ==
    /\ pc = "done" /\ status /\ reach <= Size =>
        LET Glue(p) == \A k \in DOMAIN items : ~In(p, items[k].name) /\ ~In(p, items[k].value)
            glue == {p \in 0 .. Size - 1 : Glue(p) /\ ~InComment(p)}
        IN
        /\ \A p \in glue : text[p + 1] \in Space \cup Eol \cup {"=", "quote"}
        /\ Cardinality({p \in glue : text[p + 1] = "="}) = Len(items)
        /\ \A k \in DOMAIN items :
             /\ items[k].name.start < items[k].name.end
             /\ items[k].name.end < items[k].value.start
             /\ items[k].value.start <= items[k].value.end /\ items[k].value.end <= Size
             /\ k > 1 => items[k].value.end < items[k - 1].name.start
    /\ pc = "crashed" /\ reach <= Size =>
         \E k \in 1 .. Size, e \in 1 .. Size :
             /\ text[k] = "=" /\ k < e /\ text[e] \in Eol
             /\ \A l \in k + 1 .. e - 1 : text[l] \in Space
=============================================================================
