-------------------------------- MODULE Lexer --------------------------------
(***************************************************************************)
(* The lexer (src/frontend/lexer/Lexer.cpp): the parser takes tokens with  *)
(* Lex and looks at tokens ahead of it with LookAhead, in any order.  A    *)
(* token is its kind, where it starts and its length; the lines are        *)
(* sequences of characters, and are indexed from 0 as in the code.         *)
(***************************************************************************)
EXTENDS Naturals, Sequences, SequencesExt

CONSTANTS
  Sources,   \* [lines, peek]: the lines, and how far the parser looks ahead
  Keywords,  \* set of sequences of letters
  Letters, Digits

VARIABLES
  source,
  at,      \* <<LineIndex, ColumnIndex>>
  buffer,  \* TokenBuffer
  given    \* the tokens Lex returned to the parser, in order

vars == <<source, at, buffer, given>>

EOF == "EOF"
NUL == "NUL"
White == {" ", "\t"}
Separators == White \cup {";", ":"}
Pairs == {<<"+", "+">>, <<"+", "=">>, <<"-", "-">>, <<"-", "=">>, <<"-", ">">>,
          <<"*", "=">>, <<"/", "/">>, <<"/", "=">>, <<"=", "=">>, <<"<", "<">>,
          <<"<", "=">>, <<">", ">">>, <<">", "=">>, <<"!", "=">>, <<"&", "&">>}
Symbols == {".", ",", "+", "-", "*", "/", "%", "=", "<", ">", "!", "?", "&", ":",
            ";", "(", ")", "[", "]", "{", "}"}
NameChars == Letters \cup Digits \cup {"_"}
Blanks == White \cup {NUL}

ASSUME CharacterAssumption ==
  /\ Letters \cap Digits = {}
  /\ (Letters \cup Digits) \cap (Symbols \cup White \cup {"_", EOF, NUL}) = {}
  /\ \A word \in Keywords : word \in Seq(Letters) /\ word # <<>>

Token(kind, p, n) == [kind |-> kind, at |-> p, len |-> n]
EndOfFile == Token("eof", <<0, 0>>, 0)
NoToken == Token("none", <<0, 0>>, 0)

Line(src, p) == src[p[1] + 1]

\* EatNextChar
Eat(src, p) ==
  IF p[1] >= Len(src) THEN p
  ELSE IF p[2] + 1 >= Len(Line(src, p)) THEN <<p[1] + 1, 0>>
  ELSE <<p[1], p[2] + 1>>

\* GetNextChar leaves an empty line behind, one only...
Leave(src, p) == IF p[1] < Len(src) /\ Line(src, p) = <<>> THEN Eat(src, p) ELSE p

\* ... and looks at the character.
CharAt(src, q) ==
  IF q[1] >= Len(src) \/ (q[1] + 1 = Len(src) /\ q[2] = Len(Line(src, q))) THEN EOF
  ELSE IF q[2] = Len(Line(src, q)) THEN NUL
  ELSE Line(src, q)[q[2] + 1]

Char(src, p) == CharAt(src, Leave(src, p))

NextOnLine(src, p) ==
  IF p[2] + 1 >= Len(Line(src, p)) THEN EOF ELSE Line(src, p)[p[2] + 2]

\* The characters and ends of lines in front of line l.
Before(src, l) ==
  LET before[k \in 0..Len(src)] == IF k = 0 THEN 0 ELSE before[k - 1] + Len(src[k]) + 1
  IN before[l]
Size(src) == Before(src, Len(src))

\* GetNextChar and EatNextChar in turn, k times from p.
Walk(src, p) ==
  LET walk[k \in 0..Size(src)] == IF k = 0 THEN p ELSE Eat(src, Leave(src, walk[k - 1]))
  IN walk

\* The end of the run of characters of a class, and its length.
Run(src, p, class) ==
  LET walk == Walk(src, p)
      n == CHOOSE n \in 0..Size(src) :
             /\ Char(src, walk[n]) \notin class
             /\ \A k \in 0..(n - 1) : Char(src, walk[k]) \in class
  IN [at |-> Leave(src, walk[n]), len |-> n]

\* Each of these returns a token or NoToken, and where lexing goes on.
LexKeyword(src, p) ==
  LET text == SubSeq(Line(src, p), p[2] + 1, Len(Line(src, p)))
      ends == {i \in DOMAIN text : text[i] \in Separators}
      n == IF ends = {} THEN Len(text) ELSE (CHOOSE i \in ends : \A j \in ends : i <= j) - 1
      eaten[i \in 0..n] == IF i = 0 THEN p ELSE Eat(src, eaten[i - 1])
  IN IF SubSeq(text, 1, n) \in Keywords
     THEN <<Token("keyword", p, n), eaten[n]>>
     ELSE <<NoToken, p>>

LexSymbol(src, p) ==
  IF Char(src, p) \notin Symbols THEN <<NoToken, p>>
  ELSE IF <<Char(src, p), NextOnLine(src, p)>> \in Pairs
  THEN <<Token("symbol", p, 2), Eat(src, Eat(src, p))>>
  ELSE <<Token("symbol", p, 1), Eat(src, p)>>

\* whole = [at, len] are the digits at p, fraction those behind a point.
WithFraction(p, whole, fraction) ==
  IF fraction.len = 0 THEN <<NoToken, fraction.at>>
  ELSE <<Token("number", p, whole.len + 1 + fraction.len), fraction.at>>

NumberFrom(src, p, whole) ==
  IF Char(src, whole.at) = "."
  THEN WithFraction(p, whole, Run(src, Eat(src, whole.at), Digits))
  ELSE IF whole.len = 0 THEN <<NoToken, whole.at>>
  ELSE <<Token("number", p, whole.len), whole.at>>

\* A number that ends in a point is none, but has been eaten.
LexNumber(src, p) == NumberFrom(src, p, Run(src, p, Digits))

NameFrom(src, p, name) ==
  IF name.len = 0 \/ Char(src, p) \in Digits THEN <<NoToken, Leave(src, p)>>
  ELSE <<Token("identifier", p, name.len), name.at>>

LexIdentifier(src, p) ==
  NameFrom(src, p, Run(src, p, NameChars))

\* The first of these that is a token.
OrIdentifier(identifier) ==
  IF identifier[1] # NoToken THEN identifier
  ELSE <<Token("invalid", <<0, 0>>, 0), identifier[2]>>

OrNumber(src, number) ==
  IF number[1] # NoToken THEN number ELSE OrIdentifier(LexIdentifier(src, number[2]))

OrSymbol(src, p, symbol) ==
  IF symbol[1] # NoToken THEN symbol ELSE OrNumber(src, LexNumber(src, p))

OrKeyword(src, p, keyword) ==
  IF keyword[1] # NoToken THEN keyword ELSE OrSymbol(src, p, LexSymbol(src, p))

LexToken(src, p) == OrKeyword(src, p, LexKeyword(src, p))

IsComment(src, t) ==
  t.kind = "symbol" /\ t.len = 2 /\ Line(src, t.at)[t.at[2] + 1] = "/"
    /\ Line(src, t.at)[t.at[2] + 2] = "/"

\* What Lex reads at p: the token, which may be a comment, and where it ends.
OrEndOfFile(src, q) ==
  IF Char(src, q) = EOF THEN <<EndOfFile, q>> ELSE LexToken(src, q)

LexAt(src, p) == OrEndOfFile(src, Run(src, p, Blanks).at)

\* Behind a comment Lex calls itself at the beginning of the next line.
BehindComment(lexed) == <<lexed[2][1] + 1, 0>>

OrNextLine(src, lexed, lex) ==
  IF IsComment(src, lexed[1]) THEN lex[BehindComment(lexed)[1]]
  ELSE [at |-> lexed[2], token |-> lexed[1]]

\* Lex at the beginning of a line, with nothing in the buffer.
LexLines(src, first) ==
  LET lex[l \in 0..(Len(src) + 1)] == OrNextLine(src, LexAt(src, <<l, 0>>), lex)
  IN lex[first]

\* Lex on the lexer's state x = [at, buffer], with the token it returns: it takes the
\* first of the buffer...
Taken(x, p) == [at |-> p, buffer |-> Tail(x.buffer), token |-> Head(x.buffer)]

\* ... or reads one.  The call behind a comment has the default argument, and takes
\* from the buffer.
Kept(x, read) == [at |-> read.at, buffer |-> x.buffer, token |-> read.token]

OrBehindComment(src, x, lexed) ==
  IF ~IsComment(src, lexed[1]) THEN Kept(x, [at |-> lexed[2], token |-> lexed[1]])
  ELSE IF x.buffer # <<>> THEN Taken(x, BehindComment(lexed))
  ELSE Kept(x, LexLines(src, BehindComment(lexed)[1]))

Reading(src, x) == OrBehindComment(src, x, LexAt(src, x.at))

\* Mutation: the buffer is forgotten.
LexAlways(src, x, lookAhead) == Reading(src, x)

LexIn(src, x, lookAhead) ==
  IF x.buffer # <<>> /\ ~lookAhead THEN Taken(x, x.at) ELSE Reading(src, x)

Buffered(x) == [at |-> x.at, buffer |-> Append(x.buffer, x.token)]

\* The tokens after the first ones are lexed, up to the n-th.
FillFrom(src, x, first, n) ==
  LET fill[i \in 0..n] ==
        IF i <= first THEN x ELSE Buffered(LexIn(src, fill[i - 1], TRUE))
  IN fill[n]

\* Mutation: one token too few.
FillTooFew(src, x, n) == FillFrom(src, x, Len(x.buffer) + 1, n)

\* The loop of LookAhead(n).
Fill(src, x, n) == FillFrom(src, x, Len(x.buffer), n)

State == [at |-> at, buffer |-> buffer]
Text == source.lines

Init ==
  /\ source \in Sources
  /\ \E x \in {Fill(source.lines, [at |-> <<0, 0>>, buffer |-> <<>>], 1)} :
       at = x.at /\ buffer = x.buffer
  /\ given = <<>>

AtTheEnd == given # <<>> /\ Last(given) = EndOfFile

Lex ==
  /\ ~AtTheEnd
  /\ \E x \in {LexIn(Text, State, FALSE)} :
       /\ at' = x.at
       /\ buffer' = x.buffer
       /\ given' = Append(given, x.token)
  /\ UNCHANGED source

\* GetCurrentToken and Is look at the first token.
LookAhead(n) ==
  /\ ~AtTheEnd
  /\ n > Len(buffer)
  /\ \E x \in {Fill(Text, State, n)} : at' = x.at /\ buffer' = x.buffer
  /\ UNCHANGED <<source, given>>

Done == AtTheEnd /\ UNCHANGED vars

Next == Lex \/ (\E n \in 1..source.peek : LookAhead(n)) \/ Done

Spec == Init /\ [][Next]_vars

-----------------------------------------------------------------------------
(* What the tokens of a text are: line by line, the longest token first, up *)
(* to the end of the line or to a comment.                                  *)

Word(line, i, class) ==
  CHOOSE n \in 0..(Len(line) - i + 1) :
    /\ \A k \in i..(i + n - 1) : line[k] \in class
    /\ i + n > Len(line) \/ line[i + n] \notin class

Number(line, i) ==
  LET n == Word(line, i, Digits)
      fraction == i + n + 1
  IN IF fraction <= Len(line) /\ line[i + n] = "." /\ line[fraction] \in Digits
     THEN n + 1 + Word(line, fraction, Digits)
     ELSE n

\* The tokens of the line of index l from its i-th character on.
TokensOfLine(line, l, first) ==
  LET tokens[i \in 1..(Len(line) + 1)] ==
        IF i > Len(line) THEN <<>>
        ELSE LET c == line[i]
                 next == IF i < Len(line) THEN line[i + 1] ELSE EOF
                 name == Word(line, i, NameChars)
                 Then(kind, n) == <<Token(kind, <<l, i - 1>>, n)>> \o tokens[i + n]
             IN IF c \in White THEN tokens[i + 1]
                ELSE IF <<c, next>> = <<"/", "/">> THEN <<>>
                ELSE IF c \in Digits THEN Then("number", Number(line, i))
                ELSE IF c \in Letters \cup {"_"}
                THEN Then(IF SubSeq(line, i, i + name - 1) \in Keywords
                          THEN "keyword" ELSE "identifier", name)
                ELSE Then("symbol", IF <<c, next>> \in Pairs THEN 2 ELSE 1)
  IN tokens[first]

\* The tokens of the lines from the one of index l on.
TokensFrom(src, first) ==
  LET tokens[l \in 0..Len(src)] ==
        IF l = Len(src) THEN <<>> ELSE TokensOfLine(src[l + 1], l, 1) \o tokens[l + 1]
  IN tokens[first]

TokensOf(src) == TokensFrom(src, 0)

-----------------------------------------------------------------------------
(* The texts that the lexer can read. *)

\* With what a token would go on in the next line that is not empty.
Continuations(kind) ==
  CASE kind = "identifier" -> NameChars
    [] kind = "number" -> Digits \cup {"."}
    [] OTHER -> {}

\* What follows token t in its line: a keyword needs a separator, and a point behind a
\* number a digit.
EndsReadably(t, line) ==
  LET end == t.at[2] + t.len IN
  /\ t.kind = "keyword" /\ end < Len(line) => line[end + 1] \in Separators
  /\ t.kind = "number" /\ end < Len(line) => line[end + 1] # "."

\* The next line that is not empty does not go on with the last token of a line.
StopsReadably(src, t) ==
  t.at[2] + t.len = Len(Line(src, t.at)) =>
    \A m \in (t.at[1] + 2)..Len(src) :
      src[m] # <<>> /\ (\A k \in (t.at[1] + 2)..(m - 1) : src[k] = <<>>) =>
        Head(src[m]) \notin Continuations(t.kind)

IsSlashes(line, i) == i \in 1..(Len(line) - 1) /\ line[i] = "/" /\ line[i + 1] = "/"

Characters == White \cup NameChars \cup Symbols

\* A comment says something, and the parser does not look ahead over one.
Readable(s) ==
  /\ s.lines \in Seq(Seq(Characters))
  /\ \A i \in DOMAIN TokensOf(s.lines) :
       LET t == TokensOf(s.lines)[i]
       IN EndsReadably(t, Line(s.lines, t.at)) /\ StopsReadably(s.lines, t)
  /\ \A l \in DOMAIN s.lines : ~IsSlashes(s.lines[l], Len(s.lines[l]) - 1)
  /\ \/ s.peek = 1
     \/ s.peek \in Nat /\ \A l \in DOMAIN s.lines : \A i \in DOMAIN s.lines[l] : ~IsSlashes(s.lines[l], i)

-----------------------------------------------------------------------------
(* Properties *)

\* What the parser was given and what is buffered for it are the tokens of the
\* text, each once and in their order, and then the end of the file: no mixture
\* of looking ahead and taking tokens changes what the parser reads.
DeliversTheTokens ==
  LET expected == TokensOf(Text)
      seen == given \o buffer
  IN \A i \in DOMAIN seen :
       seen[i] = IF i <= Len(expected) THEN expected[i] ELSE EndOfFile

\* LookAhead(n) leaves at least n tokens in the buffer, the n-th of which it
\* returns.
FillsTheBuffer ==
  [][\A n \in 1..source.peek : LookAhead(n) => Len(buffer') >= n]_vars
=============================================================================
