---------------------------- MODULE MCPreProcessor ----------------------------
(***************************************************************************)
(* Files of a few lines: two plain macros, a function macro, text in which *)
(* they occur, and two files to include.                                   *)
(***************************************************************************)
EXTENDS PreProcessor

A == <<"A">>
B == <<"B">>
F == <<"F", "r">>
Names == <<A, B, F>>
UsedLetters == {"A", "B", "F", "x", "y", "z", "q", "r"}

Plain(id, body) == [kind |-> "define", id |-> id, params |-> <<>>, body |-> body]
TwoParameters ==
  [kind |-> "define", id |-> F, params |-> <<<<"x">>, <<"y">>>>,
   body |-> <<"(", "y", "-", "x", "+", "x", ")">>]
OneParameter ==
  [kind |-> "define", id |-> F, params |-> <<<<"x">>>>, body |-> <<"x", "+", "1">>]
CallOf(arguments) == F \o <<"(">> \o arguments \o <<")">>
IncludeOf(f) == [kind |-> "include", file |-> f]

\* A may stand for B, which comes behind it; B stands for no other macro.  A line
\* calls F at most once, and the names of macros and parameters stand alone.
Lines ==
  {Plain(A, <<>>), Plain(A, <<"B", "+", "B">>), Plain(B, <<"1">>), Plain(B, <<"q">>),
   TwoParameters, IncludeOf("f"), IncludeOf("g"), TextLine(<<>>),
   TextLine(<<"q", "r">>), TextLine(<<"A", "+", "A">>),
   TextLine(<<"-">> \o CallOf(<<"q", ",", "B">>) \o <<";", "A">>)}

\* Reasons to stop.
Wrong == {IncludeOf("h"), TextLine(F \o <<"+", "A">>)}

\* g is included by f.
Included ==
  [f |-> <<Plain(B, <<"2">>), IncludeOf("g"), TextLine(<<"A", ",", "B">>)>>,
   g |-> <<TextLine(<<"B">>), Plain(A, <<"z">>), TextLine(<<>>)>>]

UpToFour ==
  {p \in UNION {[1..n -> Lines] : n \in 1..4} :
     Cardinality({i \in DOMAIN p : p[i].kind # "text"}) \in 1..3}
  \cup {p \in [1..3 -> Lines \cup Wrong] :
          \E i \in 1..3 : p[i] \in Wrong}

-----------------------------------------------------------------------------
(* The smallest files for which the code does not do what C says:            *)
(* FinishedLinesAreExpanded, and Terminates for the last family.             *)

\* The second argument is cut at the first comma again: Fr(1,2,3).
ThreeParameters ==
  {<<[kind |-> "define", id |-> F, params |-> <<<<"x">>, <<"y">>, <<"z">>>>,
      body |-> <<"x", "+", "y", "+", "z">>],
     TextLine(CallOf(<<"1", ",", "2", ",", "3">>))>>}

\* The first closing parenthesis ends a call: Fr((q)), Fr(Fr(q)).
NestedParentheses ==
  {<<OneParameter, TextLine(CallOf(<<"(", "q", ")">>))>>,
   <<OneParameter, TextLine(CallOf(CallOf(<<"q">>)))>>}

\* The second call of a line stays: Fr(1)+Fr(2).
CalledTwice ==
  {<<OneParameter, TextLine(CallOf(<<"1">>) \o <<"+">> \o CallOf(<<"2">>))>>}

\* Macros and parameters are replaced inside of longer names: Aq, qA; xq.
LongerName ==
  {<<Plain(A, <<"1">>), TextLine(<<"A", "q">>)>>,
   <<Plain(A, <<"1">>), TextLine(<<"q", "A">>)>>}
ParameterInName ==
  {<<[OneParameter EXCEPT !.body = <<"x", "q">>], TextLine(CallOf(<<"1">>))>>}

\* B stands for A, which was tried before.
EarlierMacro ==
  {<<Plain(A, <<"1">>), Plain(B, <<"A">>), TextLine(<<"B">>)>>}

\* A macro that stands for itself is replaced for ever.
SelfMention == {<<Plain(A, <<"A">>), TextLine(<<"A">>)>>}
=============================================================================
