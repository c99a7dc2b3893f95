------------------------------- MODULE MCLexer -------------------------------
(***************************************************************************)
(* All texts of two short lines over a few characters that meet in tokens. *)
(***************************************************************************)
EXTENDS Lexer, TLC

If == {<<"i", "f">>}
TwoLetters == {"i", "f"}
OneDigit == {"1"}
Few == TwoLetters \cup OneDigit \cup {".", "+", "/", " "}
LinesUpTo(n) == UNION {[1..k -> Few] : k \in 0..n}

HasComment(line) == \E i \in DOMAIN line : IsSlashes(line, i)

\* Behind a comment the parser looks only at the current token.
Texts ==
  {s \in {[lines |-> <<first, second>>,
           peek |-> IF HasComment(first) \/ HasComment(second) THEN 1 ELSE 3] :
            first \in LinesUpTo(3), second \in LinesUpTo(2)} : Readable(s)}

\* f // and a second line, looking two tokens ahead
CommentAhead ==
  {[lines |-> <<<<"f", " ", "/", "/", "1">>, <<"+">>>>, peek |-> 2]}

\* A bare comment at the end of a line.
BareComment ==
  {[lines |-> <<<<"f", "/", "/">>, <<"+">>>>, peek |-> 1]}
=============================================================================
