------------------------------ MODULE CodeScan ------------------------------
(***************************************************************************)
(* What the build reads of source it does not execute: scanCode, which      *)
(* tells a page's code from its strings, comments and regex literals for    *)
(* `export const hydrate`, the imports and the asset paths; and codeMask,   *)
(* which the two repair passes of a dev build ask of emitted code. Both are *)
(* run on programs written token by token, so that what each character is   *)
(* is known from how it was written. A word, a keyword, a statement the     *)
(* build looks for and a path are one character each.                       *)
(***************************************************************************)
EXTENDS Naturals, Sequences, FiniteSets, FiniteSetsExt, SequencesExt

CONSTANTS
    StringTexts, RegexTexts, CommentTexts, ChunkTexts,   \* what the literals hold
    Statements,   \* of "H" (export const hydrate), "I" (import), "M" (const X = memo()),
                  \* "D" (export default memo()) and "V" (var X = X)
    MaxTokens

ASSUME CodeScanAssumption == MaxTokens \in Nat /\ Statements \subseteq {"H", "I", "M", "D", "V"}

VARIABLES
    text, kind,   \* the characters, and what each was written as
    goal,         \* what may come next: a statement, a line, an operand, an operator
    open,         \* the brackets still open
    forms,        \* "element": jsx, which emitted code has not; "misread": a form scanCode takes the wrong way
    tokens

scanVars == <<text, kind, goal, open, forms, tokens>>

Word(ch) == ch \in {"w", "return", "if"} \cup Statements
Precedes(ch) == ch \in {"(", "<", "=", "+", ";", "{", "}"}     \* of the signs a regex may follow
IsSpace(ch) == ch \in {" ", "\n"}
Quotes == {"'"}

-----------------------------------------------------------------------------
\* Literals, from the index that opens them.

Char(t, i) == IF i \in DOMAIN t THEN t[i] ELSE ""
FirstFrom(t, i, Test(_)) ==
    LET found == {j \in i .. Len(t) : Test(j)} IN IF found = {} THEN Len(t) + 1 ELSE Min(found)

\* A backslash takes the next character with it.
Escaped(t, from, j) ==
    LET run == {m \in from .. j - 1 : \A k \in m .. j - 1 : t[k] = "\\"} IN Cardinality(run) % 2 = 1

LineEnd(t, i) == FirstFrom(t, i, LAMBDA j : t[j] = "\n")
CommentEnd(t, i) == FirstFrom(t, i, LAMBDA j : t[j] = "*" /\ Char(t, j + 1) = "/")
QuoteEnd(t, i) == FirstFrom(t, i + 1, LAMBDA j : t[j] \in {t[i], "\n"} /\ ~Escaped(t, i + 1, j))
BacktickEnd(t, i) == FirstFrom(t, i + 1, LAMBDA j : t[j] = "tick" /\ ~Escaped(t, i + 1, j))
InClass(t, from, j) ==
    \E a \in from .. j - 1 :
        /\ t[a] = "[" /\ ~Escaped(t, from, a)
        /\ \A b \in a .. j - 1 : t[b] = "]" => Escaped(t, from, b)
RegexEnd(t, i) ==
    FirstFrom(t, i + 1, LAMBDA j :
        /\ ~Escaped(t, i + 1, j)
        /\ t[j] = "\n" \/ (t[j] = "/" /\ ~InClass(t, i + 1, j)))

-----------------------------------------------------------------------------
\* scanCode: comments blanked, strings as spans. What came before a slash is
\* a tail of signs and words with the spaces left out.

KeywordEnds(tail) ==
    /\ tail # <<>> /\ Last(tail) = "return"
    /\ Len(tail) > 1 => ~Word(tail[Len(tail) - 1])
RegexCanStart(tail) == tail = <<>> \/ Precedes(Last(tail)) \/ KeywordEnds(tail)

\* An apostrophe of jsx text opens no string.
Quoted(t, i) == Char(t, QuoteEnd(t, i)) = t[i]

ScanStep(t, s) ==
    LET i == s.i
        ch == t[i]
        next == Char(t, i + 1)
        Blanked(j) == [s EXCEPT !.i = j, !.comments = @ \cup (i .. j - 1)]
        Span(j) == [s EXCEPT !.i = j + 1, !.strings = @ \cup (i .. j), !.tail = Append(@, ch)]
    IN CASE ch = "/" /\ next = "/" -> Blanked(LineEnd(t, i))
         [] ch = "/" /\ next = "*" -> Blanked(CommentEnd(t, i + 2) + 2)
         [] ch = "tick" -> Span(BacktickEnd(t, i))
         [] ch \in Quotes /\ Quoted(t, i) -> Span(QuoteEnd(t, i))
         [] ch = "/" /\ next \notin {"/", "*"} /\ RegexCanStart(s.tail) ->
                LET j == RegexEnd(t, i)
                IN [s EXCEPT !.i = IF Char(t, j) = "/" THEN j + 1 ELSE j, !.tail = Append(@, "/")]
         [] OTHER -> [s EXCEPT !.i = i + 1, !.tail = IF IsSpace(ch) THEN @ ELSE Append(@, ch)]

ScanCode(t) ==
    FoldLeft(LAMBDA s, n : IF s.i > Len(t) THEN s ELSE ScanStep(t, s),
             [i |-> 1, tail |-> <<>>, strings |-> {}, comments |-> {}], [n \in DOMAIN t |-> n])

AtLineStart(t, i) == i = 1 \/ t[i - 1] = "\n"

\* The hydrate statements the build finds, the first of which decides.
ParseHydrate(t) ==
    LET s == ScanCode(t)
    IN {i \in DOMAIN t : t[i] = "H" /\ AtLineStart(t, i) /\ i \notin s.strings \cup s.comments}

ScanImportSpecifiers(t) ==
    LET s == ScanCode(t) IN {i \in DOMAIN t : t[i] = "I" /\ i \notin s.strings \cup s.comments}

\* In code only a string literal names an asset.
ScanAssetRefs(t) ==
    LET s == ScanCode(t) IN {i \in DOMAIN t : t[i] = "A" /\ i \in s.strings \ s.comments}

-----------------------------------------------------------------------------
\* codeMask: the content of every literal blanked, the code of a template's
\* interpolations kept.

\* slip: no sign but the last one is looked at.
IncDecNever(t, i) == FALSE
IncDec(t, i) ==
    LET run == {m \in 1 .. i : \A k \in m .. i : t[k] = "+"} IN t[i] = "+" /\ Cardinality(run) % 2 = 0

MaskRegex(s) ==
    \/ s.sig = "" \/ Precedes(s.sig) \/ s.word = "return"
    \/ s.sig = ")" /\ s.control

InChunk(t, s) ==
    LET i == s.i
        ch == t[i]
    IN CASE ch = "\\" -> [s EXCEPT !.i = i + 2, !.blank = @ \cup {i, i + 1}]
         [] ch = "tick" -> [s EXCEPT !.i = i + 1, !.chunk = FALSE, !.sig = "tick", !.word = ""]
         [] ch = "$" /\ Char(t, i + 1) = "{" ->
                [s EXCEPT !.i = i + 2, !.chunk = FALSE, !.depths = Append(@, 0),
                          !.sig = "{", !.word = "", !.incDec = FALSE]
         [] OTHER -> [s EXCEPT !.i = i + 1, !.blank = @ \cup {i}]

\* The brace that closes an interpolation is no sign of the code.
BodyEnds(t, s) == t[s.i] = "}" /\ s.depths # <<>> /\ Last(s.depths) = 0

Deeper(s, ch) ==
    IF s.depths = <<>> \/ ch \notin {"{", "}"} THEN s.depths
    ELSE [s.depths EXCEPT ![Len(s.depths)] = IF ch = "{" THEN @ + 1 ELSE @ - 1]

InCode(t, s) ==
    LET i == s.i
        ch == t[i]
        next == Char(t, i + 1)
        Literal(j) ==
            [s EXCEPT !.i = j + 1, !.blank = @ \cup (i + 1 .. j - 1),
                      !.sig = ch, !.word = "", !.incDec = FALSE]
        Comment(j) == [s EXCEPT !.i = j, !.blank = @ \cup (i .. j - 1)]
    IN CASE BodyEnds(t, s) -> [s EXCEPT !.i = i + 1, !.chunk = TRUE, !.depths = Front(@)]
         [] ch = "/" /\ next = "/" -> Comment(LineEnd(t, i))
         [] ch = "/" /\ next = "*" -> Comment(CommentEnd(t, i + 2) + 2)
         [] ch \in Quotes -> Literal(QuoteEnd(t, i))
         [] ch = "tick" -> [s EXCEPT !.i = i + 1, !.chunk = TRUE, !.incDec = FALSE]
         [] ch = "/" /\ next \notin {"/", "*"} /\ ~s.incDec /\ MaskRegex(s) -> Literal(RegexEnd(t, i))
         [] Word(ch) ->
                [s EXCEPT !.i = i + 1, !.sig = "w", !.incDec = FALSE,
                          !.word = IF i > 1 /\ Word(t[i - 1]) THEN "w" ELSE ch]
         [] IsSpace(ch) -> [s EXCEPT !.i = i + 1]
         [] OTHER ->
                [s EXCEPT !.i = i + 1, !.sig = ch, !.word = "", !.incDec = IncDec(t, i),
                          !.depths = Deeper(s, ch),
                          !.parens = CASE ch = "(" -> Append(@, s.word = "if")
                                       [] ch = ")" /\ @ # <<>> -> Front(@)
                                       [] OTHER -> @,
                          !.control = IF ch = ")" THEN s.parens # <<>> /\ Last(s.parens) ELSE @]

CodeMask(t) ==
    LET done ==
            FoldLeft(LAMBDA s, n : CASE s.i > Len(t) -> s [] s.chunk -> InChunk(t, s) [] OTHER -> InCode(t, s),
                     [i |-> 1, blank |-> {}, chunk |-> FALSE, depths |-> <<>>, parens |-> <<>>,
                      control |-> FALSE, sig |-> "", word |-> "", incDec |-> FALSE],
                     [n \in DOMAIN t |-> n])
    IN [i \in DOMAIN t |-> IF i \in done.blank /\ t[i] # "\n" THEN " " ELSE t[i]]

\* hocRegistrations: the memo of a module's top level, one per name.
Depth(mask, i) ==
    Cardinality({j \in 1 .. i - 1 : mask[j] = "{"}) - Cardinality({j \in 1 .. i - 1 : mask[j] = "}"})
TopLevel(mask, i) == Depth(mask, i) = 0
HocRegistrations(t) ==
    LET mask == CodeMask(t) IN {i \in DOMAIN t : mask[i] = "M" /\ AtLineStart(mask, i) /\ TopLevel(mask, i)}

\* nameDefaultHoc: the one default export that binds no name.
NameDefaultHoc(t) ==
    LET mask == CodeMask(t) IN {i \in DOMAIN t : mask[i] = "D" /\ AtLineStart(mask, i)}

\* fixRefreshRedeclare: the lines cut from the code.
FixRefreshRedeclare(t) ==
    LET mask == CodeMask(t) IN {i \in DOMAIN t : mask[i] = "V" /\ AtLineStart(mask, i)}

-----------------------------------------------------------------------------
\* The programs.

CodeScanInit ==
    /\ text = <<>> /\ kind = <<>> /\ goal = "statement" /\ open = <<>> /\ forms = {} /\ tokens = 0

Writes(chars, as, next) ==
    /\ tokens < MaxTokens /\ tokens' = tokens + 1
    /\ text' = text \o chars /\ kind' = kind \o as
    /\ goal' = next

Code(chars, next) == Writes(chars, [i \in DOMAIN chars |-> "code"], next)
Wrapped(before, inside, after, what) ==
    LET chars == before \o inside \o after
    IN Writes(chars, [i \in DOMAIN chars |->
                         IF i > Len(before) /\ i <= Len(before) + Len(inside) THEN what ELSE "code"], "operator")

Inside == IF open = <<>> THEN "" ELSE Last(open)
FreshText == goal \in {"statement", "line"}
TakesOperand == goal \in {"statement", "operand"}

AWord == goal # "operator" /\ Code(<<" ", "w">>, "operator") /\ UNCHANGED <<open, forms>>
AString ==
    /\ TakesOperand
    /\ \E x \in StringTexts : Wrapped(<<"'">>, x, <<"'">>, "string")
    /\ UNCHANGED <<open, forms>>
ATemplate ==
    /\ TakesOperand
    /\ \E x \in ChunkTexts : Wrapped(<<"tick">>, x, <<"tick">>, "template")
    /\ UNCHANGED <<open, forms>>

Signs ==
    SelectSeq([i \in DOMAIN text |-> IF kind[i] = "code" THEN text[i] ELSE " "], LAMBDA ch : ~IsSpace(ch))

\* scanCode takes a slash for a division after the head of an if, and after a
\* keyword with a word before it on the line above.
LooksLikeDivision(signs) ==
    signs # <<>> /\ (Last(signs) = ")" \/ (Last(signs) = "return" /\ ~KeywordEnds(signs)))

\* Nothing is divided by a regex.
ARegex ==
    /\ TakesOperand
    /\ Signs # <<>> => Last(Signs) # "/"
    /\ \E x \in RegexTexts : Wrapped(<<" ", "/">>, x, <<"/">>, "regex")
    /\ forms' = forms \cup {f \in {"misread"} : LooksLikeDivision(Signs)}
    /\ UNCHANGED open

\* A literal inside an interpolation ends scanCode's span at its backtick.
OpensBody ==
    /\ TakesOperand /\ Code(<<"tick", "$", "{">>, "operand")
    /\ open' = Append(open, "${") /\ forms' = forms \cup {"misread"}
ClosesBody ==
    /\ goal = "operator" /\ Inside = "${"
    /\ \E x \in ChunkTexts : Wrapped(<<"}">>, x, <<"tick">>, "template")
    /\ open' = Front(open) /\ UNCHANGED forms

AComment ==
    /\ \E x \in CommentTexts :
          LET chars == <<" ", "/", "*">> \o x \o <<"*", "/">>
          IN Writes(chars, [i \in DOMAIN chars |-> IF i = 1 THEN "code" ELSE "comment"], goal)
    /\ UNCHANGED <<open, forms>>
ALineComment ==
    /\ goal # "operator"
    /\ \E x \in CommentTexts :
          LET chars == <<" ", "/", "/">> \o x \o <<"\n">>
          IN Writes(chars, [i \in DOMAIN chars |-> IF i \in {1, Len(chars)} THEN "code" ELSE "comment"], goal)
    /\ UNCHANGED <<open, forms>>

Opens == TakesOperand /\ Code(<<"(">>, "operand") /\ open' = Append(open, "(") /\ UNCHANGED forms
AHead == FreshText /\ Code(<<" ", "if", "(", "w", ")">>, "statement") /\ UNCHANGED <<open, forms>>
Closes ==
    /\ goal = "operator" /\ Inside = "(" /\ Code(<<")">>, "operator")
    /\ open' = Front(open) /\ UNCHANGED forms
OpensBlock == FreshText /\ Code(<<"{">>, "statement") /\ open' = Append(open, "{") /\ UNCHANGED forms
ClosesBlock ==
    /\ FreshText /\ Inside = "{" /\ Code(<<"}">>, "statement")
    /\ open' = Front(open) /\ UNCHANGED forms

Returns == FreshText /\ Code(<<" ", "return">>, "operand") /\ UNCHANGED <<open, forms>>
Binary ==
    /\ goal = "operator" /\ \E sign \in {"=", "+", "/"} : Code(<<sign>>, "operand")
    /\ UNCHANGED <<open, forms>>
\* scanCode takes the slash after it for a regex.
Increments ==
    /\ goal = "operator" /\ Last(text) = "w" /\ Code(<<"+", "+">>, "operator")
    /\ forms' = forms \cup {"misread"} /\ UNCHANGED open
Ends ==
    /\ goal = "operator" /\ Inside \in {"", "{"}
    /\ \/ Code(<<";">>, "statement")
       \/ Code(<<"\n">>, "line")
    /\ UNCHANGED <<open, forms>>
\* The apostrophe of a text opens no string.
AnElement ==
    /\ TakesOperand /\ Code(<<"(", "<", "w", ">", "'", "<", "/", "w", ">", "\n", ")">>, "operator")
    /\ forms' = forms \cup {"element"} /\ UNCHANGED open
AStatement ==
    /\ FreshText
    /\ \E ch \in Statements : (ch \in {"H", "I", "D"} => open = <<>>) /\ Code(<<"\n", ch, ";">>, "statement")
    /\ UNCHANGED <<open, forms>>

CodeScanNext ==
    \/ AWord \/ AString \/ ARegex \/ ATemplate \/ OpensBody \/ ClosesBody
    \/ AComment \/ ALineComment
    \/ Opens \/ AHead \/ Closes \/ OpensBlock \/ ClosesBlock
    \/ Returns \/ Binary \/ Increments \/ Ends \/ AnElement \/ AStatement

CodeScanSpec == CodeScanInit /\ [][CodeScanNext]_scanVars

-----------------------------------------------------------------------------
\* The mask keeps the code as it was written, to the character, and nothing
\* else: an index found on it addresses the original, and a literal never
\* answers for the code (build.ts 1680-1685).
MaskIsFaithful ==
    "element" \notin forms =>
    CodeMask(text) =
        [i \in DOMAIN text |-> IF kind[i] = "code" \/ text[i] = "\n" THEN text[i] ELSE " "]

\* The repairs of a dev build name and cut statements of the module, at its top
\* level where a name must be in scope, and never a line of the user's text.
RepairsTouchCodeOnly ==
    "element" \notin forms =>
    LET written == {i \in DOMAIN text : kind[i] = "code"}
        Count(ch, i) == Cardinality({j \in written : j < i /\ text[j] = ch})
    IN /\ NameDefaultHoc(text) = {i \in written : text[i] = "D"}
       /\ HocRegistrations(text) = {i \in written : text[i] = "M" /\ Count("{", i) = Count("}", i)}
       /\ FixRefreshRedeclare(text) = {i \in written : text[i] = "V"}

ToldApart ==
    LET written == {i \in DOMAIN text : kind[i] = "code"}
    IN /\ ParseHydrate(text) = {i \in written : text[i] = "H"}
       /\ ScanImportSpecifiers(text) = {i \in written : text[i] = "I"}
       /\ ScanAssetRefs(text) = {i \in DOMAIN text : text[i] = "A" /\ kind[i] \in {"string", "template"}}

\* The build reads the statement a page has, its imports and the assets its
\* strings name, whatever its comments, strings and regex literals hold, for
\* the forms scanCode was written for.
ScanTellsApart == "misread" \notin forms => ToldApart

\* The same of every page (build.ts 136-137: comments, string literals and
\* regex literals "must be told apart"). It does not hold of the forms "misread".
AllToldApart == ToldApart

\* Code is told from what only looks like it: by the mask, by the repairs that
\* go by the mask, and by the scan.
CodeIsToldFromText == MaskIsFaithful /\ RepairsTouchCodeOnly /\ ScanTellsApart
=============================================================================
