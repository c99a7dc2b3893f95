------------------------------ MODULE LexerProofs ------------------------------
(***************************************************************************)
(* The lexer delivers the tokens of every text that it can read, whatever  *)
(* mixture of looking ahead and taking tokens the parser uses.             *)
(*                                                                         *)
(* Rest is what is left of the text at a position: the tokens behind it.   *)
(* Blanks, empty lines and comments leave it as it is (BlankStep,          *)
(* LexAtReads), and LexToken takes its first token (ReadsTheNext).  The    *)
(* inductive invariant IInv says that what the parser has been given and   *)
(* what is buffered are the first tokens of the text, and that the lexer   *)
(* stands before the others.                                               *)
(***************************************************************************)
EXTENDS Lexer, SequenceLemmas

AllTexts == Seq(Seq(Characters))

LEMMA LinesOfText ==
  ASSUME NEW src \in AllTexts
  PROVE  /\ Len(src) \in Nat /\ DOMAIN src = 1..Len(src)
         /\ \A l \in 0..(Len(src) - 1) :
              /\ src[l + 1] \in Seq(Characters) /\ Len(src[l + 1]) \in Nat
              /\ DOMAIN src[l + 1] = 1..Len(src[l + 1])
              /\ \A i \in 1..Len(src[l + 1]) : src[l + 1][i] \in Characters
              /\ src[l + 1] = <<>> <=> Len(src[l + 1]) = 0
<1>1. Len(src) \in Nat /\ DOMAIN src = 1..Len(src)
  BY LenProperties DEF AllTexts
<1>2. ASSUME NEW l \in 0..(Len(src) - 1)
      PROVE  src[l + 1] \in Seq(Characters)
  <2>1. l + 1 \in 1..Len(src)
    BY <1>1
  <2> QED BY <2>1, ElementOfSeq DEF AllTexts
<1>3. \A line \in Seq(Characters) :
        /\ Len(line) \in Nat /\ DOMAIN line = 1..Len(line)
        /\ \A i \in 1..Len(line) : line[i] \in Characters
        /\ line = <<>> <=> Len(line) = 0
  BY LenProperties, ElementOfSeq, EmptySeq
<1> QED BY <1>1, <1>2, <1>3

\* What kind of character each one is.
LEMMA KindsOfCharacters ==
  /\ EOF \notin Characters /\ NUL \notin Characters /\ EOF \notin Blanks
  /\ White \cap NameChars = {} /\ White \cap Symbols = {} /\ Symbols \cap NameChars = {}
  /\ Digits \cap (Letters \cup {"_"}) = {}
  /\ Separators \cap NameChars = {}
<1>1. Symbols \cap {EOF, NUL, "_"} = {} /\ White \cap {EOF, NUL, "_"} = {} /\ White \cap Symbols = {}
  BY DEF Symbols, White, EOF, NUL
<1>2. Separators \subseteq White \cup Symbols
  BY DEF Separators, Symbols
<1>3. EOF # NUL /\ "_" # EOF /\ "_" # NUL
  BY DEF EOF, NUL
<1> QED BY <1>1, <1>2, <1>3, CharacterAssumption DEF Characters, NameChars, Blanks

-----------------------------------------------------------------------------
(* Walking over a text *)

BeforeStep(src, before, k) == IF k = 0 THEN 0 ELSE before[k - 1] + Len(src[k]) + 1

LEMMA BeforeExists ==
  ASSUME NEW src \in AllTexts
  PROVE  \E before : before = [k \in 0..Len(src) |-> BeforeStep(src, before, k)]
<1> DEFINE Good == {n \in Nat : \E f : f = [k \in 0..n |-> BeforeStep(src, f, k)]}
<1>1. 0 \in Good
  <2>1. [k \in 0..0 |-> 0] = [k \in 0..0 |-> BeforeStep(src, [j \in 0..0 |-> 0], k)]
    BY DEF BeforeStep
  <2> QED BY <2>1
<1>2. ASSUME NEW n \in Nat \ {0}, n - 1 \in Good PROVE n \in Good
  <2>1. PICK g : g = [k \in 0..(n - 1) |-> BeforeStep(src, g, k)]
    BY <1>2
  <2> DEFINE h == [k \in 0..n |-> IF k < n THEN g[k] ELSE BeforeStep(src, g, n)]
  <2>2. ASSUME NEW k \in 0..n PROVE h[k] = BeforeStep(src, h, k)
    <3>1. k # 0 => k - 1 \in 0..n /\ h[k - 1] = g[k - 1]
      OBVIOUS
    <3>2. BeforeStep(src, h, k) = BeforeStep(src, g, k)
      BY <3>1 DEF BeforeStep
    <3>3. k < n => k \in 0..(n - 1)
      OBVIOUS
    <3>4. k < n => g[k] = BeforeStep(src, g, k)
      BY <2>1, <3>3
    <3>5. ~(k < n) => k = n
      OBVIOUS
    <3> QED BY <3>2, <3>4, <3>5
  <2>3. h = [k \in 0..n |-> BeforeStep(src, h, k)]
    BY <2>2
  <2> QED BY <2>3
<1> HIDE DEF Good
<1>3. Len(src) \in Good
  BY <1>1, <1>2, Induction, LinesOfText
<1> QED BY <1>3 DEF Good

LEMMA BeforeUnfold ==
  ASSUME NEW src \in AllTexts, NEW l \in 0..Len(src)
  PROVE  Before(src, l) = IF l = 0 THEN 0 ELSE Before(src, l - 1) + Len(src[l]) + 1
<1> DEFINE before == CHOOSE g : g = [k \in 0..Len(src) |-> BeforeStep(src, g, k)]
<1>1. before = [k \in 0..Len(src) |-> BeforeStep(src, before, k)]
  BY BeforeExists
<1>2. \A k : Before(src, k) = before[k]
  BY DEF Before, BeforeStep
<1> HIDE DEF before
<1>3. before[l] = BeforeStep(src, before, l)
  BY <1>1
<1> QED BY <1>2, <1>3 DEF BeforeStep

\* The characters in front of the lines are counted, and grow with the lines.
LEMMA BeforeCounts ==
  ASSUME NEW src \in AllTexts
  PROVE  /\ \A l \in 0..Len(src) : Before(src, l) \in Nat
         /\ \A l \in 0..(Len(src) - 1) :
              /\ Before(src, l + 1) = Before(src, l) + Len(src[l + 1]) + 1
              /\ Before(src, l + 1) <= Size(src)
         /\ Size(src) \in Nat /\ Size(src) = Before(src, Len(src))
<1> DEFINE Good == {n \in Nat : n <= Len(src) => Before(src, n) \in Nat}
           Small == {d \in Nat : d <= Len(src) => Before(src, Len(src) - d) <= Size(src)}
<1>1. Len(src) \in Nat
  BY LinesOfText
<1>2. 0 \in Good
  BY <1>1, BeforeUnfold
<1>3. ASSUME NEW n \in Nat \ {0}, n - 1 \in Good PROVE n \in Good
  <2> SUFFICES ASSUME n <= Len(src) PROVE Before(src, n) \in Nat
    OBVIOUS
  <2>1. n \in 0..Len(src) /\ n # 0 /\ n - 1 \in 0..(Len(src) - 1) /\ n - 1 + 1 = n
    BY <1>1
  <2>2. Len(src[n]) \in Nat
    BY <2>1, LinesOfText
  <2>3. Before(src, n) = Before(src, n - 1) + Len(src[n]) + 1
    BY <2>1, BeforeUnfold
  <2>4. Before(src, n - 1) \in Nat
    BY <1>1, <1>3, <2>1
  <2> QED BY <2>2, <2>3, <2>4
<1>4. \A l \in 0..Len(src) : Before(src, l) \in Nat
  <2> HIDE DEF Good
  <2>1. Nat \subseteq Good
    BY <1>2, <1>3, Induction
  <2> QED BY <1>1, <2>1 DEF Good
<1>5. ASSUME NEW l \in 0..(Len(src) - 1)
      PROVE  /\ Before(src, l + 1) = Before(src, l) + Len(src[l + 1]) + 1
             /\ Len(src[l + 1]) \in Nat /\ Before(src, l) \in Nat
  <2>1. l + 1 \in 0..Len(src) /\ l + 1 # 0 /\ l + 1 - 1 = l /\ l \in 0..Len(src)
    BY <1>1
  <2> QED BY <1>4, <2>1, BeforeUnfold, LinesOfText
<1>6. Size(src) = Before(src, Len(src)) /\ Size(src) \in Nat
  BY <1>1, <1>4 DEF Size
<1>7. 0 \in Small
  BY <1>1, <1>6
<1>8. ASSUME NEW d \in Nat \ {0}, d - 1 \in Small PROVE d \in Small
  <2> SUFFICES ASSUME d <= Len(src) PROVE Before(src, Len(src) - d) <= Size(src)
    OBVIOUS
  <2> DEFINE l == Len(src) - d
  <2>1. l \in 0..(Len(src) - 1) /\ l + 1 = Len(src) - (d - 1) /\ d - 1 <= Len(src) /\ l + 1 \in 0..Len(src)
    BY <1>1
  <2>2. Before(src, l + 1) <= Size(src)
    BY <1>8, <2>1
  <2>3. Before(src, l + 1) = Before(src, l) + Len(src[l + 1]) + 1 /\ Len(src[l + 1]) \in Nat
    BY <1>5, <2>1
  <2>4. Before(src, l) \in Nat
    BY <1>5, <2>1
  <2> HIDE DEF l
  <2>5. Before(src, l) <= Size(src)
    BY <1>6, <2>2, <2>3, <2>4
  <2> QED BY <2>5 DEF l
<1>9. ASSUME NEW l \in 0..Len(src) PROVE Before(src, l) <= Size(src)
  <2> HIDE DEF Small
  <2>1. Nat \subseteq Small
    BY <1>7, <1>8, Induction
  <2>2. Len(src) - l \in Nat /\ Len(src) - l <= Len(src) /\ Len(src) - (Len(src) - l) = l
    BY <1>1
  <2>3. Len(src) - l \in Small
    BY <2>1, <2>2
  <2> QED BY <2>2, <2>3 DEF Small
<1>10. \A l \in 0..(Len(src) - 1) : l + 1 \in 0..Len(src)
  BY <1>1
<1> QED BY <1>4, <1>5, <1>6, <1>9, <1>10

WalkStep(src, p, walk, k) == IF k = 0 THEN p ELSE Eat(src, Leave(src, walk[k - 1]))

LEMMA WalkExists ==
  ASSUME NEW src \in AllTexts, NEW p
  PROVE  \E walk : walk = [k \in 0..Size(src) |-> WalkStep(src, p, walk, k)]
<1> DEFINE Good == {n \in Nat : \E f : f = [k \in 0..n |-> WalkStep(src, p, f, k)]}
<1>1. 0 \in Good
  <2>1. [k \in 0..0 |-> p] = [k \in 0..0 |-> WalkStep(src, p, [j \in 0..0 |-> p], k)]
    BY DEF WalkStep
  <2> QED BY <2>1
<1>2. ASSUME NEW n \in Nat \ {0}, n - 1 \in Good PROVE n \in Good
  <2>1. PICK g : g = [k \in 0..(n - 1) |-> WalkStep(src, p, g, k)]
    BY <1>2
  <2> DEFINE h == [k \in 0..n |-> IF k < n THEN g[k] ELSE WalkStep(src, p, g, n)]
  <2>2. ASSUME NEW k \in 0..n PROVE h[k] = WalkStep(src, p, h, k)
    <3>1. k # 0 => k - 1 \in 0..n /\ h[k - 1] = g[k - 1]
      OBVIOUS
    <3>2. WalkStep(src, p, h, k) = WalkStep(src, p, g, k)
      BY <3>1 DEF WalkStep
    <3>3. k < n => k \in 0..(n - 1)
      OBVIOUS
    <3>4. k < n => g[k] = WalkStep(src, p, g, k)
      BY <2>1, <3>3
    <3>5. ~(k < n) => k = n
      OBVIOUS
    <3> QED BY <3>2, <3>4, <3>5
  <2>3. h = [k \in 0..n |-> WalkStep(src, p, h, k)]
    BY <2>2
  <2> QED BY <2>3
<1> HIDE DEF Good
<1>3. Size(src) \in Good
  BY <1>1, <1>2, Induction, BeforeCounts
<1> QED BY <1>3 DEF Good

LEMMA WalkUnfold ==
  ASSUME NEW src \in AllTexts, NEW p
  PROVE  /\ Walk(src, p)[0] = p
         /\ \A k \in 1..Size(src) : Walk(src, p)[k] = Eat(src, Leave(src, Walk(src, p)[k - 1]))
<1> DEFINE walk == CHOOSE g : g = [k \in 0..Size(src) |-> WalkStep(src, p, g, k)]
<1>1. walk = [k \in 0..Size(src) |-> WalkStep(src, p, walk, k)]
  BY WalkExists
<1>2. Walk(src, p) = walk
  BY DEF Walk, WalkStep
<1> HIDE DEF walk
<1>3. \A k \in 0..Size(src) : walk[k] = WalkStep(src, p, walk, k)
  BY <1>1
<1>4. Size(src) \in Nat
  BY BeforeCounts
<1> QED BY <1>2, <1>3, <1>4 DEF WalkStep

\* The run of a class ends at the first character that is not of it.
LEMMA RunEnds ==
  ASSUME NEW src \in AllTexts, NEW p, NEW class, NEW n \in 0..Size(src),
         Char(src, Walk(src, p)[n]) \notin class,
         \A k \in 0..(n - 1) : Char(src, Walk(src, p)[k]) \in class
  PROVE  Run(src, p, class) = [at |-> Leave(src, Walk(src, p)[n]), len |-> n]
<1> DEFINE Is(m) == /\ Char(src, Walk(src, p)[m]) \notin class
                    /\ \A k \in 0..(m - 1) : Char(src, Walk(src, p)[k]) \in class
           first == CHOOSE m \in 0..Size(src) : Is(m)
<1>1. Is(n)
  OBVIOUS
<1>2. Is(first) /\ first \in 0..Size(src)
  BY <1>1
<1>3. Size(src) \in Nat
  BY BeforeCounts
<1>4. first = n
  <2>1. ~(first < n)
    <3>1. first < n => first \in 0..(n - 1)
      BY <1>2, <1>3
    <3> QED BY <1>1, <1>2, <3>1
  <2>2. ~(n < first)
    <3>1. n < first => n \in 0..(first - 1)
      BY <1>2, <1>3
    <3> QED BY <1>1, <1>2, <3>1
  <2> QED BY <1>2, <1>3, <2>1, <2>2
<1> HIDE DEF first
<1>5. Run(src, p, class) = [at |-> Leave(src, Walk(src, p)[first]), len |-> first]
  BY DEF Run, first
<1> QED BY <1>4, <1>5

-----------------------------------------------------------------------------
(* Positions, and the character at each *)

IsPosition(src, p) ==
  /\ p = <<p[1], p[2]>> /\ p[1] \in 0..Len(src) /\ p[2] \in Nat
  /\ p[2] # 0 => p[1] < Len(src) /\ p[2] < Len(Line(src, p))

Rank(src, p) == Before(src, p[1]) + p[2]

\* The position behind the first e characters of line l.
Behind(src, l, e) == IF e < Len(src[l + 1]) THEN <<l, e>> ELSE <<l + 1, 0>>

\* On a line with text.
LEMMA OnALine ==
  ASSUME NEW src \in AllTexts, NEW l \in 0..(Len(src) - 1), NEW c \in 0..(Len(src[l + 1]) - 1)
  PROVE  /\ Leave(src, <<l, c>>) = <<l, c>>
         /\ Char(src, <<l, c>>) = src[l + 1][c + 1]
         /\ Eat(src, <<l, c>>) = Behind(src, l, c + 1)
         /\ IsPosition(src, <<l, c>>)
<1>1. /\ Len(src) \in Nat /\ Len(src[l + 1]) \in Nat /\ Len(src[l + 1]) # 0 /\ src[l + 1] # <<>>
      /\ l < Len(src) /\ ~(l >= Len(src)) /\ c < Len(src[l + 1])
  BY LinesOfText
<1>2. <<l, c>>[1] = l /\ <<l, c>>[2] = c /\ Line(src, <<l, c>>) = src[l + 1]
  BY DEF Line
<1>3. Leave(src, <<l, c>>) = <<l, c>>
  BY <1>1, <1>2 DEF Leave
<1>4. Char(src, <<l, c>>) = src[l + 1][c + 1]
  BY <1>1, <1>2, <1>3 DEF Char, CharAt
<1>5. Eat(src, <<l, c>>) = Behind(src, l, c + 1)
  BY <1>1, <1>2 DEF Eat, Behind
<1> QED BY <1>1, <1>2, <1>3, <1>4, <1>5 DEF IsPosition

\* At the beginning of an empty line, and at the end.
LEMMA OnNoLine ==
  ASSUME NEW src \in AllTexts, NEW l \in 0..Len(src), l < Len(src) => Len(src[l + 1]) = 0
  PROVE  /\ Leave(src, <<l, 0>>) = IF l < Len(src) THEN <<l + 1, 0>> ELSE <<l, 0>>
         /\ Eat(src, <<l, 0>>) = IF l < Len(src) THEN <<l + 1, 0>> ELSE <<l, 0>>
         /\ CharAt(src, <<l, 0>>) = IF l + 1 < Len(src) THEN NUL ELSE EOF
         /\ IsPosition(src, <<l, 0>>)
<1>1. Len(src) \in Nat
  BY LinesOfText
<1>2. <<l, 0>>[1] = l /\ <<l, 0>>[2] = 0 /\ Line(src, <<l, 0>>) = src[l + 1]
  BY DEF Line
<1>3. l < Len(src) <=> ~(l >= Len(src))
  BY <1>1
<1>4. l < Len(src) => src[l + 1] = <<>>
  BY <1>1, LinesOfText
<1>5. Eat(src, <<l, 0>>) = IF l < Len(src) THEN <<l + 1, 0>> ELSE <<l, 0>>
  BY <1>1, <1>2, <1>3 DEF Eat
<1>6. Leave(src, <<l, 0>>) = IF l < Len(src) THEN <<l + 1, 0>> ELSE <<l, 0>>
  BY <1>2, <1>3, <1>4, <1>5 DEF Leave
<1>7. CharAt(src, <<l, 0>>) = IF l + 1 < Len(src) THEN NUL ELSE EOF
  BY <1>1, <1>2 DEF CharAt
<1> QED BY <1>1, <1>2, <1>5, <1>6, <1>7 DEF IsPosition

\* A position is on a line with text, or there is no text.
LEMMA PositionCases ==
  ASSUME NEW src \in AllTexts, NEW p, IsPosition(src, p)
  PROVE  \/ p[1] \in 0..(Len(src) - 1) /\ p[2] \in 0..(Len(src[p[1] + 1]) - 1)
         \/ /\ p = <<p[1], 0>> /\ p[1] \in 0..Len(src)
            /\ p[1] < Len(src) => Len(src[p[1] + 1]) = 0
<1>1. Len(src) \in Nat /\ \A l \in 0..(Len(src) - 1) : Len(src[l + 1]) \in Nat
  BY LinesOfText
<1>2. p = <<p[1], p[2]>> /\ p[1] \in 0..Len(src) /\ p[2] \in Nat
  BY DEF IsPosition
<1>3. p[2] # 0 => p[1] < Len(src) /\ p[2] < Len(src[p[1] + 1])
  BY DEF IsPosition, Line
<1>4. p[1] < Len(src) => p[1] \in 0..(Len(src) - 1)
  BY <1>1, <1>2
<1>5. CASE p[1] < Len(src) /\ p[2] < Len(src[p[1] + 1])
  BY <1>1, <1>2, <1>4, <1>5
<1>6. CASE ~(p[1] < Len(src) /\ p[2] < Len(src[p[1] + 1]))
  <2>1. p[2] = 0
    BY <1>3, <1>6
  <2>2. p[1] < Len(src) => Len(src[p[1] + 1]) = 0
    BY <1>1, <1>4, <1>6, <2>1
  <2> QED BY <1>2, <2>1, <2>2
<1> QED BY <1>5, <1>6

\* What is behind some characters of a line is a position.
LEMMA BehindIsPosition ==
  ASSUME NEW src \in AllTexts, NEW l \in 0..(Len(src) - 1), NEW e \in 0..Len(src[l + 1])
  PROVE  IsPosition(src, Behind(src, l, e))
<1>1. Len(src) \in Nat /\ Len(src[l + 1]) \in Nat
  BY LinesOfText
<1>2. <<l, e>>[1] = l /\ <<l, e>>[2] = e /\ <<l + 1, 0>>[1] = l + 1 /\ <<l + 1, 0>>[2] = 0
  OBVIOUS
<1>3. Line(src, <<l, e>>) = src[l + 1]
  BY DEF Line
<1> QED BY <1>1, <1>2, <1>3 DEF Behind, IsPosition

-----------------------------------------------------------------------------
(* The tokens of a line *)

Lines == Seq(Characters)

LEMMA WordIs ==
  ASSUME NEW line \in Lines, NEW i \in 1..(Len(line) + 1), NEW class
  PROVE  /\ Word(line, i, class) \in 0..(Len(line) - i + 1)
         /\ \A k \in i..(i + Word(line, i, class) - 1) : line[k] \in class
         /\ \/ i + Word(line, i, class) > Len(line)
            \/ line[i + Word(line, i, class)] \notin class
<1> DEFINE Ends == {n \in Nat : i + n > Len(line) \/ line[i + n] \notin class}
           Is(n) == /\ \A k \in i..(i + n - 1) : line[k] \in class
                    /\ i + n > Len(line) \/ line[i + n] \notin class
<1>1. Len(line) \in Nat
  BY LenProperties DEF Lines
<1>2. Len(line) - i + 1 \in Ends
  BY <1>1
<1>3. PICK n \in Ends : \A k \in Ends : n <= k
  <2> HIDE DEF Ends
  <2>1. Ends \subseteq Nat
    BY DEF Ends
  <2> QED BY <1>2, <2>1, LeastNumber
<1>4. n \in 0..(Len(line) - i + 1)
  <2>1. n <= Len(line) - i + 1 /\ n \in Nat
    BY <1>2, <1>3
  <2> QED BY <1>1, <2>1
<1>5. ASSUME NEW k \in i..(i + n - 1) PROVE line[k] \in class
  <2>1. k - i \in Nat /\ ~(n <= k - i) /\ i + (k - i) = k
    BY <1>4
  <2> QED BY <1>3, <2>1
<1>6. Is(n)
  BY <1>3, <1>5
<1>7. Word(line, i, class) = CHOOSE m \in 0..(Len(line) - i + 1) : Is(m)
  BY DEF Word
<1> HIDE DEF Is
<1>8. Word(line, i, class) \in 0..(Len(line) - i + 1) /\ Is(Word(line, i, class))
  BY <1>4, <1>6, <1>7
<1> QED BY <1>8 DEF Is

\* There is only one such length.
LEMMA WordIsUnique ==
  ASSUME NEW line \in Lines, NEW i \in 1..(Len(line) + 1), NEW class, NEW n \in Nat,
         i + n <= Len(line) + 1,
         \A k \in i..(i + n - 1) : line[k] \in class,
         i + n > Len(line) \/ line[i + n] \notin class
  PROVE  Word(line, i, class) = n
<1> DEFINE w == Word(line, i, class)
<1>1. Len(line) \in Nat
  BY LenProperties DEF Lines
<1>2. /\ w \in 0..(Len(line) - i + 1)
      /\ \A k \in i..(i + w - 1) : line[k] \in class
      /\ i + w > Len(line) \/ line[i + w] \notin class
  BY WordIs
<1> HIDE DEF w
<1>3. ~(w < n)
  <2>1. w < n => i + w \in i..(i + n - 1) /\ ~(i + w > Len(line))
    BY <1>1, <1>2
  <2> QED BY <1>2, <2>1
<1>4. ~(n < w)
  <2>1. n < w => i + n \in i..(i + w - 1) /\ ~(i + n > Len(line))
    BY <1>1, <1>2
  <2> QED BY <1>2, <2>1
<1>5. w = n
  BY <1>2, <1>3, <1>4
<1> QED BY <1>5 DEF w

LEMMA WordIsLong ==
  ASSUME NEW line \in Lines, NEW i \in 1..Len(line), NEW class, line[i] \in class
  PROVE  Word(line, i, class) \in 1..(Len(line) - i + 1)
<1>1. Len(line) \in Nat
  BY LenProperties DEF Lines
<1>2. i \in 1..(Len(line) + 1)
  BY <1>1
<1>3. /\ Word(line, i, class) \in 0..(Len(line) - i + 1)
      /\ i + Word(line, i, class) > Len(line) \/ line[i + Word(line, i, class)] \notin class
  BY <1>2, WordIs
<1>4. Word(line, i, class) # 0
  <2> SUFFICES ASSUME Word(line, i, class) = 0 PROVE FALSE
    OBVIOUS
  <2>1. i + 0 = i /\ ~(i > Len(line))
    BY <1>1
  <2> QED BY <1>3, <2>1
<1> QED BY <1>1, <1>3, <1>4

\* The parts of a number: its digits, and those behind a point.
LEMMA NumberIs ==
  ASSUME NEW line \in Lines, NEW i \in 1..Len(line), line[i] \in Digits
  PROVE  LET n == Word(line, i, Digits)
             m == Word(line, i + n + 1, Digits)
         IN /\ n \in 1..(Len(line) - i + 1)
            /\ \/ /\ i + n + 1 <= Len(line) /\ line[i + n] = "." /\ line[i + n + 1] \in Digits
                  /\ m \in 1..(Len(line) - (i + n + 1) + 1) /\ Number(line, i) = n + 1 + m
               \/ /\ ~(i + n + 1 <= Len(line) /\ line[i + n] = "." /\ line[i + n + 1] \in Digits)
                  /\ Number(line, i) = n
<1> DEFINE n == Word(line, i, Digits)
           m == Word(line, i + n + 1, Digits)
<1>1. Len(line) \in Nat
  BY LenProperties DEF Lines
<1>2. n \in 1..(Len(line) - i + 1)
  BY WordIsLong
<1>3. Number(line, i) = IF i + n + 1 <= Len(line) /\ line[i + n] = "." /\ line[i + n + 1] \in Digits
                        THEN n + 1 + m ELSE n
  BY DEF Number
<1> HIDE DEF n
<1>4. CASE i + n + 1 <= Len(line) /\ line[i + n] = "." /\ line[i + n + 1] \in Digits
  <2>1. i + n + 1 \in 1..Len(line)
    BY <1>1, <1>2, <1>4
  <2>2. m \in 1..(Len(line) - (i + n + 1) + 1)
    BY <1>4, <2>1, WordIsLong
  <2> QED BY <1>2, <1>3, <1>4, <2>2 DEF n
<1>5. CASE ~(i + n + 1 <= Len(line) /\ line[i + n] = "." /\ line[i + n + 1] \in Digits)
  BY <1>2, <1>3, <1>5 DEF n
<1> QED BY <1>4, <1>5

NextTo(line, i) == IF i < Len(line) THEN line[i + 1] ELSE EOF
StartsComment(line, i) == <<line[i], NextTo(line, i)>> = <<"/", "/">>

KindAt(line, i) ==
  IF line[i] \in Digits THEN "number"
  ELSE IF line[i] \in Letters \cup {"_"}
  THEN IF SubSeq(line, i, i + Word(line, i, NameChars) - 1) \in Keywords
       THEN "keyword" ELSE "identifier"
  ELSE "symbol"

LengthAt(line, i) ==
  IF line[i] \in Digits THEN Number(line, i)
  ELSE IF line[i] \in Letters \cup {"_"} THEN Word(line, i, NameChars)
  ELSE IF <<line[i], NextTo(line, i)>> \in Pairs THEN 2 ELSE 1

LEMMA LengthFits ==
  ASSUME NEW line \in Lines, NEW i \in 1..Len(line)
  PROVE  LengthAt(line, i) \in 1..(Len(line) - i + 1)
<1>1. Len(line) \in Nat
  BY LenProperties DEF Lines
<1>2. CASE line[i] \in Digits
  <2> DEFINE n == Word(line, i, Digits)
             m == Word(line, i + n + 1, Digits)
  <2>1. n \in 1..(Len(line) - i + 1)
    BY <1>2, NumberIs
  <2>2. Number(line, i) = n \/ (i + n + 1 <= Len(line) /\ m \in 1..(Len(line) - (i + n + 1) + 1) /\ Number(line, i) = n + 1 + m)
    BY <1>2, NumberIs
  <2> HIDE DEF n, m
  <2>3. Number(line, i) \in 1..(Len(line) - i + 1)
    BY <1>1, <2>1, <2>2
  <2> QED BY <1>2, <2>3 DEF LengthAt
<1>3. CASE line[i] \notin Digits /\ line[i] \in Letters \cup {"_"}
  <2>1. line[i] \in NameChars
    BY <1>3 DEF NameChars
  <2>2. Word(line, i, NameChars) \in 1..(Len(line) - i + 1)
    BY <2>1, WordIsLong
  <2> QED BY <1>3, <2>2 DEF LengthAt
<1>4. CASE line[i] \notin Digits /\ line[i] \notin Letters \cup {"_"}
  <2>1. <<line[i], NextTo(line, i)>> \in Pairs => i < Len(line)
    <3>1. \A pair \in Pairs : pair[2] # EOF
      BY DEF Pairs, EOF
    <3>2. NextTo(line, i) # EOF => i < Len(line)
      BY DEF NextTo
    <3>3. <<line[i], NextTo(line, i)>>[2] = NextTo(line, i)
      OBVIOUS
    <3> QED BY <3>1, <3>2, <3>3
  <2>2. LengthAt(line, i) = IF <<line[i], NextTo(line, i)>> \in Pairs THEN 2 ELSE 1
    BY <1>4 DEF LengthAt
  <2> QED BY <1>1, <2>1, <2>2
<1> QED BY <1>2, <1>3, <1>4

LineStep(line, l, tokens, i) ==
  IF i > Len(line) THEN <<>>
  ELSE LET c == line[i]
           next == IF i < Len(line) THEN line[i + 1] ELSE EOF
           name == Word(line, i, NameChars)
           Then(kind, n) == <<Token(kind, <<l, i - 1>>, n)>> \o tokens[i + n]
       IN IF c \in White THEN tokens[i + 1]
          ELSE IF <<c, next>> = <<"/", "/">> THEN <<>>
          ELSE IF c \in Digits THEN Then("number", Number(line, i))
          ELSE IF c \in Letters \cup {"_"}
          THEN Then(IF SubSeq(line, i, i + name - 1) \in Keywords
                    THEN "keyword" ELSE "identifier", name)
          ELSE Then("symbol", IF <<c, next>> \in Pairs THEN 2 ELSE 1)

LEMMA LineStepIs ==
  ASSUME NEW line, NEW l, NEW tokens, NEW i
  PROVE  LineStep(line, l, tokens, i) =
           IF i > Len(line) THEN <<>>
           ELSE IF line[i] \in White THEN tokens[i + 1]
           ELSE IF StartsComment(line, i) THEN <<>>
           ELSE <<Token(KindAt(line, i), <<l, i - 1>>, LengthAt(line, i))>>
                  \o tokens[i + LengthAt(line, i)]
<1>1. CASE line[i] \in Digits
  BY <1>1 DEF LineStep, StartsComment, NextTo, KindAt, LengthAt
<1>2. CASE line[i] \notin Digits /\ line[i] \in Letters \cup {"_"}
  BY <1>2 DEF LineStep, StartsComment, NextTo, KindAt, LengthAt
<1>3. CASE line[i] \notin Digits /\ line[i] \notin Letters \cup {"_"}
  BY <1>3 DEF LineStep, StartsComment, NextTo, KindAt, LengthAt
<1> QED BY <1>1, <1>2, <1>3

LEMMA LineTokensExist ==
  ASSUME NEW line \in Lines, NEW l
  PROVE  \E tokens : tokens = [i \in 1..(Len(line) + 1) |-> LineStep(line, l, tokens, i)]
<1> DEFINE N == Len(line) + 1
           Good == {d \in Nat : d < N => \E f : f = [i \in (N - d)..N |-> LineStep(line, l, f, i)]}
<1>1. N \in Nat /\ N >= 1 /\ Len(line) \in Nat
  BY LenProperties DEF Lines
<1>2. 0 \in Good
  <2>1. ASSUME NEW i \in N..N, NEW f PROVE LineStep(line, l, f, i) = <<>>
    <3>1. i > Len(line)
      BY <1>1
    <3> QED BY <3>1, LineStepIs
  <2>2. [i \in N..N |-> <<>>] = [i \in N..N |-> LineStep(line, l, [j \in N..N |-> <<>>], i)]
    BY <2>1
  <2>3. N - 0 = N
    BY <1>1
  <2> QED BY <2>2, <2>3
<1>3. ASSUME NEW d \in Nat \ {0}, d - 1 \in Good PROVE d \in Good
  <2> SUFFICES ASSUME d < N PROVE \E f : f = [i \in (N - d)..N |-> LineStep(line, l, f, i)]
    OBVIOUS
  <2> DEFINE b == N - d
  <2>1. b \in 1..Len(line) /\ d - 1 < N /\ N - (d - 1) = b + 1
    BY <1>1
  <2>2. PICK g : g = [i \in (b + 1)..N |-> LineStep(line, l, g, i)]
    BY <1>3, <2>1
  <2> HIDE DEF b
  <2> DEFINE h == [i \in b..N |-> IF i > b THEN g[i] ELSE LineStep(line, l, g, b)]
  <2>3. ASSUME NEW i \in b..N PROVE h[i] = LineStep(line, l, h, i)
    <3>1. LineStep(line, l, h, i) = LineStep(line, l, g, i)
      <4>1. CASE i > Len(line)
        BY <4>1, LineStepIs
      <4>2. CASE ~(i > Len(line))
        <5>1. i \in 1..Len(line)
          BY <1>1, <2>1, <4>2
        <5>2. LengthAt(line, i) \in 1..(Len(line) - i + 1)
          BY <5>1, LengthFits
        <5>3. i + 1 \in b..N /\ i + 1 > b /\ i + LengthAt(line, i) \in b..N /\ i + LengthAt(line, i) > b
          BY <1>1, <2>1, <5>1, <5>2
        <5>4. h[i + 1] = g[i + 1] /\ h[i + LengthAt(line, i)] = g[i + LengthAt(line, i)]
          BY <5>3
        <5> HIDE DEF h
        <5> QED BY <5>4, LineStepIs
      <4> QED BY <4>1, <4>2
    <3>2. i > b => i \in (b + 1)..N
      BY <1>1, <2>1
    <3>3. i > b => g[i] = LineStep(line, l, g, i)
      BY <2>2, <3>2
    <3>4. ~(i > b) => i = b
      BY <1>1, <2>1
    <3> QED BY <3>1, <3>3, <3>4
  <2>4. h = [i \in b..N |-> LineStep(line, l, h, i)]
    BY <2>3
  <2> QED BY <2>4 DEF b
<1> HIDE DEF Good
<1>4. N - 1 \in Good
  <2>1. Nat \subseteq Good
    BY <1>2, <1>3, Induction
  <2> QED BY <1>1, <2>1
<1>5. N - 1 < N /\ N - (N - 1) = 1
  BY <1>1
<1> QED BY <1>4, <1>5 DEF Good

LEMMA TokensOfLineUnfold ==
  ASSUME NEW line \in Lines, NEW l, NEW i \in 1..(Len(line) + 1)
  PROVE  TokensOfLine(line, l, i) =
           IF i > Len(line) THEN <<>>
           ELSE IF line[i] \in White THEN TokensOfLine(line, l, i + 1)
           ELSE IF StartsComment(line, i) THEN <<>>
           ELSE <<Token(KindAt(line, i), <<l, i - 1>>, LengthAt(line, i))>>
                  \o TokensOfLine(line, l, i + LengthAt(line, i))
<1> DEFINE tokens == CHOOSE g : g = [k \in 1..(Len(line) + 1) |-> LineStep(line, l, g, k)]
<1>1. tokens = [k \in 1..(Len(line) + 1) |-> LineStep(line, l, tokens, k)]
  BY LineTokensExist
<1>2. \A k : TokensOfLine(line, l, k) = tokens[k]
  BY DEF TokensOfLine, LineStep
<1> HIDE DEF tokens
<1>3. tokens[i] = LineStep(line, l, tokens, i)
  BY <1>1
<1>4. tokens[i] =
        IF i > Len(line) THEN <<>>
        ELSE IF line[i] \in White THEN tokens[i + 1]
        ELSE IF StartsComment(line, i) THEN <<>>
        ELSE <<Token(KindAt(line, i), <<l, i - 1>>, LengthAt(line, i))>>
               \o tokens[i + LengthAt(line, i)]
  BY <1>3, LineStepIs
<1>5. /\ TokensOfLine(line, l, i) = tokens[i]
      /\ TokensOfLine(line, l, i + 1) = tokens[i + 1]
      /\ TokensOfLine(line, l, i + LengthAt(line, i)) = tokens[i + LengthAt(line, i)]
  BY <1>2
<1> QED BY <1>4, <1>5

\* From behind, each index rests on those behind it.
LEMMA Backwards ==
  ASSUME NEW a \in Nat, NEW b \in Nat, NEW Good,
         \A i \in a..b : (\A j \in (i + 1)..b : j \in Good) => i \in Good
  PROVE  a..b \subseteq Good
<1> SUFFICES ASSUME (a..b) \ Good # {} PROVE FALSE
  OBVIOUS
<1> DEFINE Bad == (a..b) \ Good
<1>1. Max(Bad) \in Bad /\ \A x \in Bad : x <= Max(Bad)
  <2>1. Bad \subseteq Nat /\ \A x \in Bad : x <= b
    OBVIOUS
  <2> HIDE DEF Bad
  <2>2. Bad # {}
    BY DEF Bad
  <2> QED BY <2>1, <2>2, MaxInSet
<1>2. PICK m \in Bad : \A x \in Bad : x <= m
  BY <1>1
<1>3. ASSUME NEW j \in (m + 1)..b PROVE j \in Good
  <2>1. j \in a..b /\ ~(j <= m)
    BY <1>2
  <2> QED BY <1>2, <2>1
<1> QED BY <1>2, <1>3

TokenSet == [kind : {"keyword", "identifier", "number", "symbol"}, at : Nat \X Nat, len : Nat]

LEMMA TokensAreTokens ==
  ASSUME NEW line \in Lines, NEW l \in Nat, NEW i \in 1..Len(line)
  PROVE  /\ Token(KindAt(line, i), <<l, i - 1>>, LengthAt(line, i)) \in TokenSet
         /\ Token(KindAt(line, i), <<l, i - 1>>, LengthAt(line, i)).at = <<l, i - 1>>
         /\ Token(KindAt(line, i), <<l, i - 1>>, LengthAt(line, i)).kind = KindAt(line, i)
         /\ Token(KindAt(line, i), <<l, i - 1>>, LengthAt(line, i)).len = LengthAt(line, i)
<1>1. Len(line) \in Nat
  BY LenProperties DEF Lines
<1>2. LengthAt(line, i) \in Nat
  BY <1>1, LengthFits
<1>3. KindAt(line, i) \in {"keyword", "identifier", "number", "symbol"}
  BY DEF KindAt
<1>4. i - 1 \in Nat
  BY <1>1
<1> QED BY <1>2, <1>3, <1>4 DEF Token, TokenSet

LEMMA TokensOfLineType ==
  ASSUME NEW line \in Lines, NEW l \in Nat
  PROVE  \A i \in 1..(Len(line) + 1) : TokensOfLine(line, l, i) \in Seq(TokenSet)
<1> DEFINE Good == {i \in 1..(Len(line) + 1) : TokensOfLine(line, l, i) \in Seq(TokenSet)}
<1>1. Len(line) \in Nat
  BY LenProperties DEF Lines
<1>2. ASSUME NEW i \in 1..(Len(line) + 1), \A j \in (i + 1)..(Len(line) + 1) : j \in Good
      PROVE  i \in Good
  <2> SUFFICES TokensOfLine(line, l, i) \in Seq(TokenSet)
    OBVIOUS
  <2>1. CASE i > Len(line)
    <3>1. TokensOfLine(line, l, i) = <<>>
      BY <2>1, TokensOfLineUnfold
    <3> QED BY <3>1, EmptySeq
  <2>2. CASE ~(i > Len(line))
    <3> DEFINE t == Token(KindAt(line, i), <<l, i - 1>>, LengthAt(line, i))
               n == LengthAt(line, i)
    <3>1. i \in 1..Len(line)
      BY <1>1, <2>2
    <3>2. n \in 1..(Len(line) - i + 1) /\ t \in TokenSet
      BY <3>1, LengthFits, TokensAreTokens
    <3>3. i + 1 \in (i + 1)..(Len(line) + 1) /\ i + n \in (i + 1)..(Len(line) + 1)
      BY <1>1, <3>1, <3>2
    <3>4. TokensOfLine(line, l, i + 1) \in Seq(TokenSet) /\ TokensOfLine(line, l, i + n) \in Seq(TokenSet)
      BY <1>2, <3>3
    <3>5. TokensOfLine(line, l, i) =
            IF line[i] \in White THEN TokensOfLine(line, l, i + 1)
            ELSE IF StartsComment(line, i) THEN <<>>
            ELSE <<t>> \o TokensOfLine(line, l, i + n)
      BY <2>2, TokensOfLineUnfold
    <3> HIDE DEF t, n
    <3>6. <<t>> \in Seq(TokenSet) /\ <<>> \in Seq(TokenSet)
      BY <3>2, EmptySeq
    <3>7. <<t>> \o TokensOfLine(line, l, i + n) \in Seq(TokenSet)
      BY <3>4, <3>6, ConcatProperties
    <3> QED BY <3>4, <3>5, <3>6, <3>7
  <2> QED BY <2>1, <2>2
<1> HIDE DEF Good
<1>3. 1..(Len(line) + 1) \subseteq Good
  <2> DEFINE N == Len(line) + 1
  <2>1. 1 \in Nat /\ N \in Nat
    BY <1>1
  <2>2. \A i \in 1..N : (\A j \in (i + 1)..N : j \in Good) => i \in Good
    BY <1>2
  <2> HIDE DEF N
  <2>3. 1..N \subseteq Good
    BY <2>1, <2>2, Backwards
  <2> QED BY <2>3 DEF N
<1> QED BY <1>3 DEF Good

FromStep(src, tokens, l) ==
  IF l = Len(src) THEN <<>> ELSE TokensOfLine(src[l + 1], l, 1) \o tokens[l + 1]

LEMMA TokensFromExist ==
  ASSUME NEW src \in AllTexts
  PROVE  \E tokens : tokens = [l \in 0..Len(src) |-> FromStep(src, tokens, l)]
<1> DEFINE N == Len(src)
           Good == {d \in Nat : d <= N => \E f : f = [l \in (N - d)..N |-> FromStep(src, f, l)]}
<1>1. N \in Nat
  BY LinesOfText
<1>2. 0 \in Good
  <2>1. ASSUME NEW l \in N..N, NEW f PROVE FromStep(src, f, l) = <<>>
    <3>1. l = Len(src)
      BY <1>1
    <3> QED BY <3>1 DEF FromStep
  <2>2. [l \in N..N |-> <<>>] = [l \in N..N |-> FromStep(src, [j \in N..N |-> <<>>], l)]
    BY <2>1
  <2>3. N - 0 = N
    BY <1>1
  <2> QED BY <2>2, <2>3
<1>3. ASSUME NEW d \in Nat \ {0}, d - 1 \in Good PROVE d \in Good
  <2> SUFFICES ASSUME d <= N PROVE \E f : f = [l \in (N - d)..N |-> FromStep(src, f, l)]
    OBVIOUS
  <2> DEFINE b == N - d
  <2>1. b \in 0..(N - 1) /\ d - 1 <= N /\ N - (d - 1) = b + 1
    BY <1>1
  <2>2. PICK g : g = [l \in (b + 1)..N |-> FromStep(src, g, l)]
    BY <1>3, <2>1
  <2> HIDE DEF b
  <2> DEFINE h == [l \in b..N |-> IF l > b THEN g[l] ELSE FromStep(src, g, b)]
  <2>3. ASSUME NEW l \in b..N PROVE h[l] = FromStep(src, h, l)
    <3>1. FromStep(src, h, l) = FromStep(src, g, l)
      <4>1. CASE l = N
        BY <4>1 DEF FromStep
      <4>2. CASE l # N
        <5>1. l + 1 \in b..N /\ l + 1 > b
          BY <1>1, <2>1, <4>2
        <5>2. h[l + 1] = g[l + 1]
          BY <5>1
        <5> HIDE DEF h
        <5> QED BY <5>2 DEF FromStep
      <4> QED BY <4>1, <4>2
    <3>2. l > b => l \in (b + 1)..N
      BY <1>1, <2>1
    <3>3. l > b => g[l] = FromStep(src, g, l)
      BY <2>2, <3>2
    <3>4. ~(l > b) => l = b
      BY <1>1, <2>1
    <3> QED BY <3>1, <3>3, <3>4
  <2>4. h = [l \in b..N |-> FromStep(src, h, l)]
    BY <2>3
  <2> QED BY <2>4 DEF b
<1> HIDE DEF Good
<1>4. N \in Good
  <2>1. Nat \subseteq Good
    BY <1>2, <1>3, Induction
  <2> QED BY <1>1, <2>1
<1>5. N <= N /\ N - N = 0
  BY <1>1
<1> QED BY <1>4, <1>5 DEF Good

LEMMA TokensFromUnfold ==
  ASSUME NEW src \in AllTexts, NEW l \in 0..Len(src)
  PROVE  TokensFrom(src, l) =
           IF l = Len(src) THEN <<>>
           ELSE TokensOfLine(src[l + 1], l, 1) \o TokensFrom(src, l + 1)
<1> DEFINE tokens == CHOOSE g : g = [k \in 0..Len(src) |-> FromStep(src, g, k)]
<1>1. tokens = [k \in 0..Len(src) |-> FromStep(src, tokens, k)]
  BY TokensFromExist
<1>2. \A k : TokensFrom(src, k) = tokens[k]
  BY DEF TokensFrom, FromStep
<1> HIDE DEF tokens
<1>3. tokens[l] = FromStep(src, tokens, l)
  BY <1>1
<1>4. TokensFrom(src, l) = tokens[l] /\ TokensFrom(src, l + 1) = tokens[l + 1]
  BY <1>2
<1> QED BY <1>3, <1>4 DEF FromStep

LEMMA TokensFromType ==
  ASSUME NEW src \in AllTexts
  PROVE  \A l \in 0..Len(src) : TokensFrom(src, l) \in Seq(TokenSet)
<1> DEFINE Good == {l \in 0..Len(src) : TokensFrom(src, l) \in Seq(TokenSet)}
<1>1. Len(src) \in Nat
  BY LinesOfText
<1>2. ASSUME NEW l \in 0..Len(src), \A j \in (l + 1)..Len(src) : j \in Good
      PROVE  l \in Good
  <2> SUFFICES TokensFrom(src, l) \in Seq(TokenSet)
    OBVIOUS
  <2>1. CASE l = Len(src)
    BY <2>1, TokensFromUnfold, EmptySeq
  <2>2. CASE l # Len(src)
    <3>1. l \in 0..(Len(src) - 1) /\ l + 1 \in (l + 1)..Len(src)
      BY <1>1, <2>2
    <3>2. TokensFrom(src, l + 1) \in Seq(TokenSet)
      BY <1>2, <3>1
    <3>3. src[l + 1] \in Lines /\ 1 \in 1..(Len(src[l + 1]) + 1)
      BY <3>1, LinesOfText DEF Lines
    <3>4. TokensOfLine(src[l + 1], l, 1) \in Seq(TokenSet)
      BY <3>3, TokensOfLineType
    <3>5. TokensOfLine(src[l + 1], l, 1) \o TokensFrom(src, l + 1) \in Seq(TokenSet)
      BY <3>2, <3>4, ConcatProperties
    <3> QED BY <2>2, <3>5, TokensFromUnfold
  <2> QED BY <2>1, <2>2
<1> HIDE DEF Good
<1>3. 0..Len(src) \subseteq Good
  BY <1>1, <1>2, Backwards
<1> QED BY <1>3 DEF Good

-----------------------------------------------------------------------------
(* The tokens that are still to be read, and skipping blanks *)

\* What is left of the text at position p.
Rest(src, p) ==
  IF p[1] = Len(src) THEN <<>>
  ELSE TokensOfLine(Line(src, p), p[1], p[2] + 1) \o TokensFrom(src, p[1] + 1)

LEMMA RestOfALine ==
  ASSUME NEW src \in AllTexts, NEW l \in 0..(Len(src) - 1), NEW c \in Nat
  PROVE  Rest(src, <<l, c>>) = TokensOfLine(src[l + 1], l, c + 1) \o TokensFrom(src, l + 1)
<1>1. Len(src) \in Nat
  BY LinesOfText
<1>2. l # Len(src)
  BY <1>1
<1> QED BY <1>2 DEF Rest, Line

LEMMA RestAtStart ==
  ASSUME NEW src \in AllTexts, NEW l \in 0..Len(src)
  PROVE  Rest(src, <<l, 0>>) = TokensFrom(src, l)
<1>1. Len(src) \in Nat
  BY LinesOfText
<1>2. 0 + 1 = 1
  OBVIOUS
<1> QED BY <1>1, <1>2, TokensFromUnfold DEF Rest, Line

LEMMA RestBehind ==
  ASSUME NEW src \in AllTexts, NEW l \in 0..(Len(src) - 1), NEW e \in 0..Len(src[l + 1])
  PROVE  Rest(src, Behind(src, l, e)) =
           TokensOfLine(src[l + 1], l, e + 1) \o TokensFrom(src, l + 1)
<1>1. Len(src) \in Nat /\ Len(src[l + 1]) \in Nat /\ src[l + 1] \in Lines
  BY LinesOfText DEF Lines
<1>2. CASE e < Len(src[l + 1])
  <2>1. Behind(src, l, e) = <<l, e>>
    BY <1>2 DEF Behind
  <2>2. e \in Nat
    OBVIOUS
  <2> QED BY <2>1, <2>2, RestOfALine
<1>3. CASE ~(e < Len(src[l + 1]))
  <2>1. Behind(src, l, e) = <<l + 1, 0>> /\ e = Len(src[l + 1])
    BY <1>1, <1>3 DEF Behind
  <2>2. e + 1 \in 1..(Len(src[l + 1]) + 1) /\ e + 1 > Len(src[l + 1])
    BY <1>1, <2>1
  <2>3. TokensOfLine(src[l + 1], l, e + 1) = <<>>
    BY <1>1, <2>2, TokensOfLineUnfold
  <2>4. l + 1 \in 0..Len(src)
    BY <1>1
  <2>5. <<>> \o TokensFrom(src, l + 1) = TokensFrom(src, l + 1)
    BY <2>4, TokensFromType, ConcatEmptySeq
  <2>6. Rest(src, <<l + 1, 0>>) = TokensFrom(src, l + 1)
    BY <2>4, RestAtStart
  <2> QED BY <2>1, <2>3, <2>5, <2>6
<1> QED BY <1>2, <1>3

LEMMA RestType ==
  ASSUME NEW src \in AllTexts, NEW p, IsPosition(src, p)
  PROVE  Rest(src, p) \in Seq(TokenSet)
<1>1. Len(src) \in Nat
  BY LinesOfText
<1>2. CASE p[1] \in 0..(Len(src) - 1) /\ p[2] \in 0..(Len(src[p[1] + 1]) - 1)
  <2>1. p = <<p[1], p[2]>>
    BY DEF IsPosition
  <2> DEFINE l == p[1]
             c == p[2]
  <2>2. /\ l \in 0..(Len(src) - 1) /\ c \in 0..(Len(src[l + 1]) - 1)
        /\ c \in Nat /\ p = <<l, c>> /\ l \in Nat
    BY <1>2, <2>1
  <2> HIDE DEF l, c
  <2>3. Len(src[l + 1]) \in Nat /\ src[l + 1] \in Lines
    BY <2>2, LinesOfText DEF Lines
  <2>4. c + 1 \in 1..(Len(src[l + 1]) + 1) /\ l + 1 \in 0..Len(src)
    BY <1>1, <2>2, <2>3
  <2>5. TokensOfLine(src[l + 1], l, c + 1) \in Seq(TokenSet)
    BY <2>2, <2>3, <2>4, TokensOfLineType
  <2>6. TokensFrom(src, l + 1) \in Seq(TokenSet)
    BY <2>4, TokensFromType
  <2>7. Rest(src, <<l, c>>) = TokensOfLine(src[l + 1], l, c + 1) \o TokensFrom(src, l + 1)
    BY <2>2, RestOfALine
  <2> QED BY <2>2, <2>5, <2>6, <2>7, ConcatProperties
<1>3. CASE p = <<p[1], 0>> /\ p[1] \in 0..Len(src)
  <2>1. Rest(src, <<p[1], 0>>) = TokensFrom(src, p[1])
    BY <1>3, RestAtStart
  <2> QED BY <1>3, <2>1, TokensFromType
<1> QED BY <1>2, <1>3, PositionCases

\* An empty line has no tokens.
LEMMA EmptyLine ==
  ASSUME NEW src \in AllTexts, NEW l \in 0..(Len(src) - 1), Len(src[l + 1]) = 0
  PROVE  /\ IsPosition(src, <<l + 1, 0>>)
         /\ Rest(src, <<l + 1, 0>>) = Rest(src, <<l, 0>>)
         /\ Rank(src, <<l + 1, 0>>) = Rank(src, <<l, 0>>) + 1
<1>1. Len(src) \in Nat /\ l \in 0..Len(src) /\ 0 \in 0..Len(src[l + 1])
  BY LinesOfText
<1>2. Behind(src, l, 0) = <<l + 1, 0>>
  BY DEF Behind
<1>3. IsPosition(src, <<l + 1, 0>>)
  BY <1>1, <1>2, BehindIsPosition
<1>4. Rest(src, <<l + 1, 0>>) = TokensOfLine(src[l + 1], l, 0 + 1) \o TokensFrom(src, l + 1)
  BY <1>1, <1>2, RestBehind
<1>5. Rest(src, <<l, 0>>) = TokensOfLine(src[l + 1], l, 0 + 1) \o TokensFrom(src, l + 1)
  BY RestOfALine
<1>6. Before(src, l + 1) = Before(src, l) + 0 + 1 /\ Before(src, l) \in Nat
  BY <1>1, BeforeCounts
<1>7. Rank(src, <<l + 1, 0>>) = Before(src, l + 1) + 0 /\ Rank(src, <<l, 0>>) = Before(src, l) + 0
  BY DEF Rank
<1>8. Rank(src, <<l + 1, 0>>) = Rank(src, <<l, 0>>) + 1
  BY <1>6, <1>7
<1> QED BY <1>3, <1>4, <1>5, <1>8

\* A blank is eaten where the lexer stands.
LEMMA EatBlank ==
  ASSUME NEW src \in AllTexts, NEW p, IsPosition(src, p), CharAt(src, p) \in Blanks
  PROVE  /\ IsPosition(src, Eat(src, p))
         /\ Rest(src, Eat(src, p)) = Rest(src, p)
         /\ Rank(src, Eat(src, p)) >= Rank(src, p) + 1
         /\ Eat(src, p)[1] >= p[1]
<1>1. Len(src) \in Nat
  BY LinesOfText
<1>2. p = <<p[1], p[2]>>
  BY DEF IsPosition
<1> DEFINE l == p[1]
           c == p[2]
<1>3. CASE l \in 0..(Len(src) - 1) /\ c \in 0..(Len(src[l + 1]) - 1)
  <2>1. p = <<l, c>> /\ l \in 0..(Len(src) - 1) /\ c \in 0..(Len(src[l + 1]) - 1) /\ l \in Nat
    BY <1>2, <1>3
  <2> HIDE DEF l, c
  <2>2. /\ Leave(src, p) = p /\ Char(src, p) = src[l + 1][c + 1]
        /\ Eat(src, p) = Behind(src, l, c + 1)
    BY <2>1, OnALine
  <2>3. Len(src[l + 1]) \in Nat /\ src[l + 1] \in Lines
    BY <2>1, LinesOfText DEF Lines
  <2>4. c + 1 \in 1..Len(src[l + 1]) /\ c + 1 \in 0..Len(src[l + 1]) /\ c + 1 \in 1..(Len(src[l + 1]) + 1) /\ c \in Nat
        /\ ~(c + 1 > Len(src[l + 1]))
    BY <2>1, <2>3
  <2>5. src[l + 1][c + 1] \in White
    <3>1. src[l + 1][c + 1] \in Characters
      BY <2>1, <2>4, LinesOfText
    <3>2. src[l + 1][c + 1] \in Blanks
      BY <2>2 DEF Char
    <3> QED BY <3>1, <3>2, KindsOfCharacters DEF Blanks
  <2>6. TokensOfLine(src[l + 1], l, c + 1) = TokensOfLine(src[l + 1], l, c + 1 + 1)
    BY <2>3, <2>4, <2>5, TokensOfLineUnfold
  <2>7. Rest(src, p) = TokensOfLine(src[l + 1], l, c + 1) \o TokensFrom(src, l + 1)
    BY <2>1, <2>4, RestOfALine
  <2>8. Rest(src, Behind(src, l, c + 1)) = TokensOfLine(src[l + 1], l, c + 1 + 1) \o TokensFrom(src, l + 1)
    BY <2>1, <2>4, RestBehind
  <2>9. IsPosition(src, Behind(src, l, c + 1))
    BY <2>1, <2>4, BehindIsPosition
  <2>10. Before(src, l + 1) = Before(src, l) + Len(src[l + 1]) + 1 /\ Before(src, l) \in Nat
    <3>1. l \in 0..Len(src)
      BY <1>1, <2>1
    <3> QED BY <2>1, <3>1, BeforeCounts
  <2>11. Rank(src, Behind(src, l, c + 1)) >= Before(src, l) + c + 1 /\ Behind(src, l, c + 1)[1] >= l
    <3>1. CASE c + 1 < Len(src[l + 1])
      <4>1. Behind(src, l, c + 1) = <<l, c + 1>>
        BY <3>1 DEF Behind
      <4>2. Rank(src, <<l, c + 1>>) = Before(src, l) + (c + 1) /\ <<l, c + 1>>[1] = l
        BY DEF Rank
      <4> QED BY <2>1, <2>4, <2>10, <4>1, <4>2
    <3>2. CASE ~(c + 1 < Len(src[l + 1]))
      <4>1. Behind(src, l, c + 1) = <<l + 1, 0>>
        BY <3>2 DEF Behind
      <4>2. Rank(src, <<l + 1, 0>>) = Before(src, l + 1) + 0 /\ <<l + 1, 0>>[1] = l + 1
        BY DEF Rank
      <4>3. c + 1 <= Len(src[l + 1])
        BY <2>3, <2>4
      <4>4. Rank(src, <<l + 1, 0>>) >= Before(src, l) + c + 1
        BY <2>3, <2>4, <2>10, <4>2, <4>3
      <4> QED BY <2>1, <4>1, <4>2, <4>4
    <3> QED BY <3>1, <3>2
  <2>12. Rank(src, p) = Before(src, l) + c /\ p[1] = l
    BY <2>1 DEF Rank
  <2> QED BY <2>2, <2>6, <2>7, <2>8, <2>9, <2>11, <2>12
<1>4. CASE p = <<l, 0>> /\ l \in 0..Len(src) /\ (l < Len(src) => Len(src[l + 1]) = 0)
  <2>1. p = <<l, 0>> /\ l \in 0..Len(src) /\ (l < Len(src) => Len(src[l + 1]) = 0) /\ l \in Nat
    BY <1>4
  <2> HIDE DEF l
  <2>2. /\ Eat(src, p) = (IF l < Len(src) THEN <<l + 1, 0>> ELSE <<l, 0>>)
        /\ CharAt(src, p) = (IF l + 1 < Len(src) THEN NUL ELSE EOF)
    BY <2>1, OnNoLine
  <2>3. l + 1 < Len(src)
    BY <2>2, KindsOfCharacters
  <2>4. l \in 0..(Len(src) - 1) /\ l < Len(src) /\ Len(src[l + 1]) = 0
    BY <1>1, <2>1, <2>3
  <2>5. /\ IsPosition(src, <<l + 1, 0>>) /\ Rest(src, <<l + 1, 0>>) = Rest(src, <<l, 0>>)
        /\ Rank(src, <<l + 1, 0>>) = Rank(src, <<l, 0>>) + 1
    BY <2>4, EmptyLine
  <2>6. Rank(src, <<l, 0>>) = Before(src, l) + 0 /\ Before(src, l) \in Nat
    BY <2>1, BeforeCounts DEF Rank
  <2>7. Eat(src, p) = <<l + 1, 0>> /\ <<l + 1, 0>>[1] = l + 1 /\ p[1] = l
    BY <2>1, <2>2, <2>4
  <2> QED BY <2>1, <2>5, <2>6, <2>7
<1> QED BY <1>3, <1>4, PositionCases

\* Leaving an empty line behind changes nothing.
LEMMA LeaveIsPosition ==
  ASSUME NEW src \in AllTexts, NEW p, IsPosition(src, p)
  PROVE  /\ IsPosition(src, Leave(src, p))
         /\ Rest(src, Leave(src, p)) = Rest(src, p)
         /\ Rank(src, Leave(src, p)) >= Rank(src, p) /\ Rank(src, p) \in Nat
         /\ Leave(src, p)[1] >= p[1] /\ p[1] \in Nat
<1>1. Len(src) \in Nat
  BY LinesOfText
<1>2. p = <<p[1], p[2]>> /\ p[1] \in 0..Len(src) /\ p[2] \in Nat
  BY DEF IsPosition
<1>3. Rank(src, p) \in Nat
  <2>1. Rank(src, p) = Before(src, p[1]) + p[2] /\ Before(src, p[1]) \in Nat
    BY <1>2, BeforeCounts DEF Rank
  <2> QED BY <1>2, <2>1
<1>4. CASE Leave(src, p) = p
  BY <1>2, <1>3, <1>4
<1>5. CASE Leave(src, p) # p
  <2> DEFINE l == p[1]
             c == p[2]
  <2>1. p = <<l, c>> /\ l \in 0..Len(src) /\ l \in Nat
    BY <1>2
  <2>2. ~(l \in 0..(Len(src) - 1) /\ c \in 0..(Len(src[l + 1]) - 1))
    <3> SUFFICES ASSUME l \in 0..(Len(src) - 1), c \in 0..(Len(src[l + 1]) - 1) PROVE FALSE
      OBVIOUS
    <3> HIDE DEF l, c
    <3>1. Leave(src, <<l, c>>) = <<l, c>>
      BY OnALine
    <3> QED BY <1>5, <2>1, <3>1
  <2>3. p = <<l, 0>> /\ (l < Len(src) => Len(src[l + 1]) = 0)
    BY <2>2, PositionCases
  <2> HIDE DEF l, c
  <2>4. Leave(src, p) = IF l < Len(src) THEN <<l + 1, 0>> ELSE <<l, 0>>
    BY <2>1, <2>3, OnNoLine
  <2>5. l < Len(src) /\ Leave(src, p) = <<l + 1, 0>>
    BY <1>5, <2>3, <2>4
  <2>6. l \in 0..(Len(src) - 1) /\ Len(src[l + 1]) = 0
    BY <1>1, <2>1, <2>3, <2>5
  <2>7. /\ IsPosition(src, <<l + 1, 0>>) /\ Rest(src, <<l + 1, 0>>) = Rest(src, <<l, 0>>)
        /\ Rank(src, <<l + 1, 0>>) = Rank(src, <<l, 0>>) + 1
    BY <2>6, EmptyLine
  <2>8. <<l + 1, 0>>[1] = l + 1 /\ p[1] = l
    BY <2>3
  <2>9. Rank(src, Leave(src, p)) >= Rank(src, p)
    BY <1>3, <2>3, <2>5, <2>7
  <2>10. Leave(src, p)[1] >= p[1] /\ p[1] \in Nat
    BY <2>1, <2>5, <2>8
  <2> QED BY <1>3, <2>3, <2>5, <2>7, <2>9, <2>10
<1> QED BY <1>4, <1>5

LEMMA BlankStep ==
  ASSUME NEW src \in AllTexts, NEW p, IsPosition(src, p), Char(src, p) \in Blanks
  PROVE  LET q == Eat(src, Leave(src, p))
         IN /\ IsPosition(src, q) /\ Rest(src, q) = Rest(src, p)
            /\ Rank(src, q) >= Rank(src, p) + 1 /\ q[1] >= p[1]
<1> DEFINE m == Leave(src, p)
<1>1. /\ IsPosition(src, m) /\ Rest(src, m) = Rest(src, p)
      /\ Rank(src, m) >= Rank(src, p) /\ m[1] >= p[1] /\ Rank(src, p) \in Nat /\ p[1] \in Nat
  BY LeaveIsPosition
<1>2. CharAt(src, m) \in Blanks
  BY DEF Char
<1> HIDE DEF m
<1>3. Rank(src, m) \in Nat /\ m[1] \in Nat
  BY <1>1, LeaveIsPosition
<1> DEFINE q == Eat(src, m)
<1>4. /\ IsPosition(src, q) /\ Rest(src, q) = Rest(src, m)
      /\ Rank(src, q) >= Rank(src, m) + 1 /\ q[1] >= m[1]
  BY <1>1, <1>2, EatBlank
<1> HIDE DEF q
<1>5. Rank(src, q) \in Nat /\ q[1] \in Nat
  BY <1>4, LeaveIsPosition
<1>6. Rank(src, q) >= Rank(src, p) + 1 /\ q[1] >= p[1]
  BY <1>1, <1>3, <1>4, <1>5
<1> QED BY <1>1, <1>4, <1>6 DEF q, m

\* Behind all of the text there is no character.
LEMMA TheTextEnds ==
  ASSUME NEW src \in AllTexts, NEW p, IsPosition(src, p), Rank(src, p) >= Size(src)
  PROVE  Char(src, p) = EOF
<1>1. Len(src) \in Nat /\ \A l \in 0..(Len(src) - 1) : Len(src[l + 1]) \in Nat
  BY LinesOfText
<1>2. Rank(src, p) = Before(src, p[1]) + p[2]
  BY DEF Rank
<1>3. ~(p[1] \in 0..(Len(src) - 1) /\ p[2] < Len(src[p[1] + 1]) /\ p[2] \in Nat)
  <2> SUFFICES ASSUME p[1] \in 0..(Len(src) - 1), p[2] < Len(src[p[1] + 1]), p[2] \in Nat PROVE FALSE
    OBVIOUS
  <2>1. /\ Before(src, p[1] + 1) = Before(src, p[1]) + Len(src[p[1] + 1]) + 1
        /\ Before(src, p[1] + 1) <= Size(src)
    BY BeforeCounts
  <2>2. p[1] \in 0..Len(src)
    BY <1>1
  <2>3. Before(src, p[1]) \in Nat /\ Size(src) \in Nat /\ Len(src[p[1] + 1]) \in Nat
    BY <1>1, <2>2, BeforeCounts
  <2> QED BY <1>2, <2>1, <2>3
<1>4. p = <<p[1], 0>> /\ p[1] \in 0..Len(src) /\ (p[1] < Len(src) => Len(src[p[1] + 1]) = 0)
  <2>1. p[2] \in 0..(Len(src[p[1] + 1]) - 1) /\ p[1] \in 0..(Len(src) - 1)
           => p[2] \in Nat /\ p[2] < Len(src[p[1] + 1])
    BY <1>1
  <2> QED BY <1>3, <2>1, PositionCases
<1> DEFINE l == p[1]
<1>5. p = <<l, 0>> /\ l \in 0..Len(src) /\ (l < Len(src) => Len(src[l + 1]) = 0)
  BY <1>4
<1> HIDE DEF l
<1>6. l = Len(src)
  <2> SUFFICES ASSUME l # Len(src) PROVE FALSE
    OBVIOUS
  <2>1. l \in 0..(Len(src) - 1)
    BY <1>1, <1>5
  <2>2. /\ Before(src, l + 1) = Before(src, l) + Len(src[l + 1]) + 1
        /\ Before(src, l + 1) <= Size(src) /\ Before(src, l) \in Nat /\ Size(src) \in Nat
    BY <1>5, <2>1, BeforeCounts
  <2>3. Rank(src, p) = Before(src, l) + 0
    BY <1>5 DEF Rank
  <2>4. Len(src[l + 1]) \in Nat
    BY <1>1, <2>1
  <2> QED BY <2>2, <2>3, <2>4
<1>7. ~(l < Len(src)) /\ ~(l + 1 < Len(src))
  BY <1>1, <1>6
<1>8. Leave(src, <<l, 0>>) = <<l, 0>> /\ CharAt(src, <<l, 0>>) = EOF
  BY <1>5, <1>7, OnNoLine
<1> QED BY <1>5, <1>8 DEF Char

\* Over blanks, each step of a walk gets on.
LEMMA WalkOverBlanks ==
  ASSUME NEW src \in AllTexts, NEW p, IsPosition(src, p), NEW n \in 0..Size(src),
         \A k \in 0..(n - 1) : Char(src, Walk(src, p)[k]) \in Blanks
  PROVE  LET q == Walk(src, p)[n]
         IN /\ IsPosition(src, q) /\ Rest(src, q) = Rest(src, p)
            /\ Rank(src, q) >= n /\ q[1] >= p[1]
<1> DEFINE walk == Walk(src, p)
           Is(k) == /\ IsPosition(src, walk[k]) /\ Rest(src, walk[k]) = Rest(src, p)
                    /\ Rank(src, walk[k]) >= k /\ walk[k][1] >= p[1]
           Good == {k \in Nat : k <= n => Is(k)}
<1>1. walk[0] = p /\ \A k \in 1..Size(src) : walk[k] = Eat(src, Leave(src, walk[k - 1]))
  BY WalkUnfold
<1>2. \A k \in 0..(n - 1) : Char(src, walk[k]) \in Blanks
  OBVIOUS
<1> HIDE DEF walk
<1>3. Size(src) \in Nat
  BY BeforeCounts
<1>4. Is(0)
  <2>1. Rank(src, p) \in Nat /\ p[1] \in Nat
    BY LeaveIsPosition
  <2> QED BY <1>1, <2>1
<1>5. ASSUME NEW k \in Nat \ {0}, k - 1 \in Good PROVE k \in Good
  <2> SUFFICES ASSUME k <= n PROVE Is(k)
    OBVIOUS
  <2>1. k - 1 \in 0..(n - 1) /\ k \in 1..Size(src) /\ k - 1 <= n
    BY <1>3
  <2> DEFINE m == walk[k - 1]
  <2>2. /\ IsPosition(src, m) /\ Rest(src, m) = Rest(src, p)
        /\ Rank(src, m) >= k - 1 /\ m[1] >= p[1]
    BY <1>5, <2>1
  <2>3. Char(src, m) \in Blanks /\ walk[k] = Eat(src, Leave(src, m))
    BY <1>1, <1>2, <2>1
  <2> HIDE DEF m
  <2> DEFINE q == Eat(src, Leave(src, m))
  <2>4. /\ IsPosition(src, q) /\ Rest(src, q) = Rest(src, m)
        /\ Rank(src, q) >= Rank(src, m) + 1 /\ q[1] >= m[1]
    BY <2>2, <2>3, BlankStep
  <2>5. walk[k] = q
    BY <2>3
  <2> HIDE DEF q
  <2>6. /\ Rank(src, m) \in Nat /\ m[1] \in Nat /\ Rank(src, q) \in Nat /\ q[1] \in Nat
        /\ p[1] \in Nat
    BY <2>2, <2>4, LeaveIsPosition
  <2>7. Rank(src, q) >= k /\ q[1] >= p[1]
    BY <2>2, <2>4, <2>6
  <2> QED BY <2>2, <2>4, <2>5, <2>7
<1>6. Is(n)
  <2>1. 0 \in Good
    BY <1>4
  <2> HIDE DEF Good, Is
  <2>2. n \in Good
    BY <1>3, <1>5, <2>1, Induction
  <2> QED BY <1>3, <2>2 DEF Good
<1> QED BY <1>6 DEF walk

\* Behind blanks there is a character of a line, or nothing is left.
LEMMA BehindBlanks ==
  ASSUME NEW src \in AllTexts, NEW p, IsPosition(src, p)
  PROVE  LET q == Run(src, p, Blanks).at
         IN /\ IsPosition(src, q) /\ Rest(src, q) = Rest(src, p) /\ q[1] >= p[1]
            /\ CharAt(src, q) \notin Blanks
<1> DEFINE walk == Walk(src, p)
           Ends == {n \in Nat : n <= Size(src) /\ Char(src, walk[n]) \notin Blanks}
<1>1. Size(src) \in Nat
  BY BeforeCounts
<1>2. Ends # {}
  <2> SUFFICES ASSUME \A n \in 0..Size(src) : Char(src, walk[n]) \in Blanks PROVE FALSE
    BY <1>1
  <2>1. Size(src) \in 0..Size(src) /\ \A n \in 0..(Size(src) - 1) : n \in 0..Size(src)
    BY <1>1
  <2>2. IsPosition(src, walk[Size(src)]) /\ Rank(src, walk[Size(src)]) >= Size(src)
    BY <2>1, WalkOverBlanks
  <2>3. Char(src, walk[Size(src)]) = EOF
    BY <2>2, TheTextEnds
  <2> QED BY <2>1, <2>3, KindsOfCharacters
<1>3. PICK n \in Ends : \A k \in Ends : n <= k
  <2> HIDE DEF Ends
  <2>1. Ends \subseteq Nat
    BY DEF Ends
  <2> QED BY <1>2, <2>1, LeastNumber
<1>4. n \in 0..Size(src) /\ Char(src, walk[n]) \notin Blanks
  BY <1>1
<1>5. ASSUME NEW k \in 0..(n - 1) PROVE Char(src, walk[k]) \in Blanks
  <2>1. k \in Nat /\ k <= Size(src) /\ ~(n <= k)
    BY <1>1, <1>4
  <2> QED BY <1>3, <2>1
<1>6. Run(src, p, Blanks) = [at |-> Leave(src, walk[n]), len |-> n]
  BY <1>4, <1>5, RunEnds
<1>7. IsPosition(src, walk[n]) /\ Rest(src, walk[n]) = Rest(src, p) /\ walk[n][1] >= p[1]
  BY <1>4, <1>5, WalkOverBlanks
<1> DEFINE m == walk[n]
<1>8. Run(src, p, Blanks).at = Leave(src, m)
  BY <1>6
<1>9. IsPosition(src, m) /\ Rest(src, m) = Rest(src, p) /\ m[1] >= p[1] /\ Char(src, m) \notin Blanks
  BY <1>4, <1>7
<1> HIDE DEF m
<1>10. /\ IsPosition(src, Leave(src, m)) /\ Rest(src, Leave(src, m)) = Rest(src, m)
       /\ Leave(src, m)[1] >= m[1] /\ m[1] \in Nat
  BY <1>9, LeaveIsPosition
<1>11. Leave(src, m)[1] \in Nat /\ p[1] \in Nat
  BY <1>10, LeaveIsPosition
<1>12. Leave(src, m)[1] >= p[1]
  BY <1>9, <1>10, <1>11
<1> QED BY <1>8, <1>9, <1>10, <1>12 DEF Char

\* What the lexer finds there.
LEMMA NoBlankHere ==
  ASSUME NEW src \in AllTexts, NEW q, IsPosition(src, q), CharAt(src, q) \notin Blanks
  PROVE  \/ Char(src, q) = EOF /\ Rest(src, q) = <<>>
         \/ /\ q = <<q[1], q[2]>> /\ q[1] \in 0..(Len(src) - 1)
            /\ q[2] \in 0..(Len(src[q[1] + 1]) - 1)
            /\ src[q[1] + 1][q[2] + 1] \notin White
            /\ Char(src, q) # EOF
<1>1. Len(src) \in Nat
  BY LinesOfText
<1>2. q = <<q[1], q[2]>>
  BY DEF IsPosition
<1> DEFINE l == q[1]
           c == q[2]
<1>3. CASE l \in 0..(Len(src) - 1) /\ c \in 0..(Len(src[l + 1]) - 1)
  <2>1. q = <<l, c>> /\ l \in 0..(Len(src) - 1) /\ c \in 0..(Len(src[l + 1]) - 1)
    BY <1>2, <1>3
  <2> HIDE DEF l, c
  <2>2. Leave(src, <<l, c>>) = <<l, c>> /\ Char(src, <<l, c>>) = src[l + 1][c + 1]
    BY <2>1, OnALine
  <2>3. src[l + 1][c + 1] \notin Blanks
    BY <2>1, <2>2 DEF Char
  <2>4. c + 1 \in 1..Len(src[l + 1])
    <3>1. Len(src[l + 1]) \in Nat
      BY <2>1, LinesOfText
    <3> QED BY <2>1, <3>1
  <2>5. src[l + 1][c + 1] \in Characters
    BY <2>1, <2>4, LinesOfText
  <2>6. src[l + 1][c + 1] # EOF /\ src[l + 1][c + 1] \notin White
    BY <2>3, <2>5, KindsOfCharacters DEF Blanks
  <2>7. Char(src, <<l, c>>) # EOF
    BY <2>2, <2>6
  <2> QED BY <1>2, <1>3, <2>1, <2>6, <2>7 DEF l, c
<1>4. CASE q = <<l, 0>> /\ l \in 0..Len(src) /\ (l < Len(src) => Len(src[l + 1]) = 0)
  <2>1. q = <<l, 0>> /\ l \in 0..Len(src) /\ (l < Len(src) => Len(src[l + 1]) = 0)
    BY <1>4
  <2> HIDE DEF l
  <2>2. /\ Leave(src, <<l, 0>>) = (IF l < Len(src) THEN <<l + 1, 0>> ELSE <<l, 0>>)
        /\ CharAt(src, <<l, 0>>) = (IF l + 1 < Len(src) THEN NUL ELSE EOF)
    BY <2>1, OnNoLine
  <2>3. ~(l + 1 < Len(src))
    BY <2>1, <2>2 DEF Blanks
  <2> DEFINE e == Len(src)
  <2>4. e \in 0..Len(src) /\ ~(e < Len(src)) /\ ~(e + 1 < Len(src))
    BY <1>1
  <2>5. Leave(src, <<e, 0>>) = <<e, 0>> /\ CharAt(src, <<e, 0>>) = EOF
    BY <2>4, OnNoLine
  <2>6. Rest(src, <<e, 0>>) = <<>>
    BY DEF Rest
  <2>7. l = e \/ (l + 1 = e /\ l < Len(src) /\ l \in 0..(Len(src) - 1))
    BY <1>1, <2>1, <2>3
  <2> HIDE DEF e
  <2>8. CASE l = e
    <3>1. Char(src, <<l, 0>>) = EOF
      BY <2>5, <2>8 DEF Char
    <3> QED BY <2>1, <2>6, <2>8, <3>1
  <2>9. CASE l + 1 = e /\ l < Len(src) /\ l \in 0..(Len(src) - 1)
    <3>1. Leave(src, <<l, 0>>) = <<e, 0>>
      BY <2>2, <2>9
    <3>2. Char(src, <<l, 0>>) = EOF
      BY <2>5, <3>1 DEF Char
    <3>3. Rest(src, <<l + 1, 0>>) = Rest(src, <<l, 0>>)
      BY <2>1, <2>9, EmptyLine
    <3> QED BY <2>1, <2>6, <2>9, <3>2, <3>3
  <2> QED BY <2>7, <2>8, <2>9
<1> QED BY <1>3, <1>4, PositionCases

-----------------------------------------------------------------------------
(* Runs of characters on a line *)

\* No character of class X comes next behind the line of index l.
NextNot(src, l, X) ==
  \A m \in (l + 2)..Len(src) :
    src[m] # <<>> /\ (\A k \in (l + 2)..(m - 1) : src[k] = <<>>) => Head(src[m]) \notin X

\* Line d is behind line l, and only empty ones are between them.
IsNext(src, l, d) == d \in (l + 1)..Len(src) /\ \A k \in (l + 2)..d : src[k] = <<>>

LEMMA CharOfNextLine ==
  ASSUME NEW src \in AllTexts, NEW l \in 0..(Len(src) - 1), NEW X, NextNot(src, l, X),
         EOF \notin X, NUL \notin X, NEW d, IsNext(src, l, d)
  PROVE  CharAt(src, <<d, 0>>) \notin X
<1>1. Len(src) \in Nat
  BY LinesOfText
<1>2. d \in (l + 1)..Len(src) /\ d \in 0..Len(src) /\ \A k \in (l + 2)..d : src[k] = <<>>
  BY <1>1 DEF IsNext
<1>3. CASE d < Len(src) /\ src[d + 1] # <<>>
  <2>1. d \in 0..(Len(src) - 1) /\ d + 1 \in (l + 2)..Len(src) /\ d + 1 - 1 = d
    BY <1>1, <1>2, <1>3
  <2>2. Head(src[d + 1]) \notin X
    BY <1>2, <1>3, <2>1 DEF NextNot
  <2>3. 0 \in 0..(Len(src[d + 1]) - 1)
    <3>1. Len(src[d + 1]) \in Nat /\ Len(src[d + 1]) # 0
      BY <1>3, <2>1, LinesOfText
    <3> QED BY <3>1
  <2>4. Leave(src, <<d, 0>>) = <<d, 0>> /\ Char(src, <<d, 0>>) = src[d + 1][0 + 1]
    BY <2>1, <2>3, OnALine
  <2>5. Head(src[d + 1]) = src[d + 1][1]
    OBVIOUS
  <2> QED BY <2>2, <2>4, <2>5 DEF Char
<1>4. CASE ~(d < Len(src) /\ src[d + 1] # <<>>)
  <2>1. d < Len(src) => Len(src[d + 1]) = 0
    BY <1>4
  <2>2. CharAt(src, <<d, 0>>) = IF d + 1 < Len(src) THEN NUL ELSE EOF
    BY <1>2, <2>1, OnNoLine
  <2> QED BY <2>2
<1> QED BY <1>3, <1>4

LEMMA LeaveToNextLine ==
  ASSUME NEW src \in AllTexts, NEW l \in 0..(Len(src) - 1), NEW d, IsNext(src, l, d)
  PROVE  \E e : Leave(src, <<d, 0>>) = <<e, 0>> /\ IsNext(src, l, e)
<1>1. Len(src) \in Nat
  BY LinesOfText
<1>2. d \in (l + 1)..Len(src) /\ d \in 0..Len(src) /\ \A k \in (l + 2)..d : src[k] = <<>>
  BY <1>1 DEF IsNext
<1>3. CASE d < Len(src) /\ src[d + 1] = <<>>
  <2>1. Leave(src, <<d, 0>>) = <<d + 1, 0>>
    BY <1>2, <1>3, OnNoLine
  <2>2. d + 1 \in (l + 1)..Len(src) /\ \A k \in (l + 2)..(d + 1) : k = d + 1 \/ k \in (l + 2)..d
    BY <1>1, <1>2, <1>3
  <2> QED BY <1>2, <1>3, <2>1, <2>2 DEF IsNext
<1>4. CASE ~(d < Len(src) /\ src[d + 1] = <<>>)
  <2>1. Leave(src, <<d, 0>>) = <<d, 0>>
    <3>1. <<d, 0>>[1] = d /\ Line(src, <<d, 0>>) = src[d + 1]
      BY DEF Line
    <3> QED BY <1>4, <3>1 DEF Leave
  <2> QED BY <2>1
<1> QED BY <1>3, <1>4

\* Leaving twice, as the lexer does when it looks again.
LEMMA NothingGoesOn ==
  ASSUME NEW src \in AllTexts, NEW l \in 0..(Len(src) - 1), NEW X, NextNot(src, l, X),
         EOF \notin X, NUL \notin X
  PROVE  /\ Char(src, <<l + 1, 0>>) \notin X
         /\ Char(src, Leave(src, <<l + 1, 0>>)) \notin X
<1>1. IsNext(src, l, l + 1)
  <2>1. Len(src) \in Nat
    BY LinesOfText
  <2> QED BY <2>1 DEF IsNext
<1>2. PICK d : Leave(src, <<l + 1, 0>>) = <<d, 0>> /\ IsNext(src, l, d)
  BY <1>1, LeaveToNextLine
<1>3. PICK e : Leave(src, <<d, 0>>) = <<e, 0>> /\ IsNext(src, l, e)
  BY <1>2, LeaveToNextLine
<1>4. CharAt(src, <<d, 0>>) \notin X /\ CharAt(src, <<e, 0>>) \notin X
  BY <1>2, <1>3, CharOfNextLine
<1> QED BY <1>2, <1>3, <1>4 DEF Char

\* Walking over a word of a line.
LEMMA WalkOnALine ==
  ASSUME NEW src \in AllTexts, NEW l \in 0..(Len(src) - 1), NEW c \in 0..(Len(src[l + 1]) - 1),
         NEW n \in 0..(Len(src[l + 1]) - c)
  PROVE  /\ \A k \in 0..n : Walk(src, <<l, c>>)[k] = Behind(src, l, c + k)
         /\ n \in 0..Size(src)
<1> DEFINE walk == Walk(src, <<l, c>>)
           N == Len(src[l + 1])
           Good == {k \in Nat : k <= n => walk[k] = Behind(src, l, c + k)}
<1>1. N \in Nat /\ Len(src) \in Nat
  BY LinesOfText
<1>2. n \in 0..Size(src) /\ Size(src) \in Nat
  <2>1. l \in 0..Len(src)
    BY <1>1
  <2>2. /\ Before(src, l + 1) = Before(src, l) + N + 1 /\ Before(src, l) \in Nat
        /\ Before(src, l + 1) <= Size(src) /\ Size(src) \in Nat
    BY <2>1, BeforeCounts
  <2> QED BY <1>1, <2>2
<1>3. walk[0] = <<l, c>> /\ \A k \in 1..Size(src) : walk[k] = Eat(src, Leave(src, walk[k - 1]))
  BY WalkUnfold
<1> HIDE DEF walk
<1>4. 0 \in Good
  <2>1. c + 0 = c /\ c < N
    BY <1>1
  <2> QED BY <1>3, <2>1 DEF Behind
<1>5. ASSUME NEW k \in Nat \ {0}, k - 1 \in Good PROVE k \in Good
  <2> SUFFICES ASSUME k <= n PROVE walk[k] = Behind(src, l, c + k)
    OBVIOUS
  <2> DEFINE e == c + (k - 1)
  <2>1. k \in 1..Size(src) /\ k - 1 <= n /\ e \in 0..(N - 1) /\ e < N /\ e + 1 = c + k
    BY <1>1, <1>2
  <2>2. walk[k - 1] = Behind(src, l, e)
    BY <1>5, <2>1
  <2> HIDE DEF e
  <2>3. Behind(src, l, e) = <<l, e>>
    BY <2>1 DEF Behind
  <2>4. Leave(src, <<l, e>>) = <<l, e>> /\ Eat(src, <<l, e>>) = Behind(src, l, e + 1)
    BY <2>1, OnALine
  <2> QED BY <1>3, <2>1, <2>2, <2>3, <2>4
<1>6. Nat \subseteq Good
  <2> HIDE DEF Good
  <2> QED BY <1>4, <1>5, Induction
<1>7. \A k \in 0..n : k \in Nat /\ k <= n
  OBVIOUS
<1> QED BY <1>2, <1>6, <1>7 DEF walk

LEMMA RunOnALine ==
  ASSUME NEW src \in AllTexts, NEW l \in 0..(Len(src) - 1), NEW c \in 0..(Len(src[l + 1]) - 1),
         NEW class,
         c + Word(src[l + 1], c + 1, class) = Len(src[l + 1]) => Char(src, <<l + 1, 0>>) \notin class
  PROVE  LET n == Word(src[l + 1], c + 1, class)
         IN /\ Run(src, <<l, c>>, class) = [at |-> Leave(src, Behind(src, l, c + n)), len |-> n]
            /\ n \in 0..(Len(src[l + 1]) - c)
<1> DEFINE line == src[l + 1]
           n == Word(line, c + 1, class)
<1>1. Len(line) \in Nat /\ line \in Lines
  BY LinesOfText DEF Lines
<1>2. c + 1 \in 1..(Len(line) + 1)
  BY <1>1
<1>3. /\ n \in 0..(Len(line) - (c + 1) + 1)
      /\ \A k \in (c + 1)..(c + 1 + n - 1) : line[k] \in class
      /\ c + 1 + n > Len(line) \/ line[c + 1 + n] \notin class
  BY <1>1, <1>2, WordIs
<1>4. c + n = Len(line) => Char(src, <<l + 1, 0>>) \notin class
  OBVIOUS
<1>5. src[l + 1] = line
  OBVIOUS
<1> HIDE DEF n, line
<1>6. n \in 0..(Len(line) - c) /\ c \in 0..(Len(line) - 1)
  BY <1>1, <1>3, <1>5
<1>7. n \in 0..Size(src) /\ \A k \in 0..n : Walk(src, <<l, c>>)[k] = Behind(src, l, c + k)
  BY <1>5, <1>6, WalkOnALine
<1>8. ASSUME NEW k \in 0..n, c + k < Len(line)
      PROVE  Char(src, Walk(src, <<l, c>>)[k]) = line[c + k + 1]
  <2>1. Behind(src, l, c + k) = <<l, c + k>>
    BY <1>5, <1>8 DEF Behind
  <2>2. c + k \in 0..(Len(line) - 1)
    BY <1>1, <1>6, <1>8
  <2>3. Char(src, <<l, c + k>>) = line[c + k + 1]
    BY <1>5, <2>2, OnALine
  <2> QED BY <1>7, <2>1, <2>3
<1>9. ASSUME NEW k \in 0..(n - 1) PROVE Char(src, Walk(src, <<l, c>>)[k]) \in class
  <2>1. k \in 0..n /\ c + k < Len(line) /\ c + k + 1 \in (c + 1)..(c + 1 + n - 1)
    BY <1>1, <1>6
  <2> QED BY <1>3, <1>8, <2>1
<1>10. Char(src, Walk(src, <<l, c>>)[n]) \notin class
  <2>1. n \in 0..n /\ c + 1 + n = c + n + 1
    BY <1>6
  <2>2. CASE c + n < Len(line)
    <3>1. ~(c + 1 + n > Len(line))
      BY <1>1, <1>6, <2>2
    <3> QED BY <1>3, <1>8, <2>1, <2>2, <3>1
  <2>3. CASE ~(c + n < Len(line))
    <3>1. c + n = Len(line)
      BY <1>1, <1>6, <2>3
    <3>2. Behind(src, l, c + n) = <<l + 1, 0>>
      BY <1>5, <2>3 DEF Behind
    <3> QED BY <1>4, <1>7, <2>1, <3>1, <3>2
  <2> QED BY <2>2, <2>3
<1>11. Run(src, <<l, c>>, class) = [at |-> Leave(src, Walk(src, <<l, c>>)[n]), len |-> n]
  BY <1>7, <1>9, <1>10, RunEnds
<1>12. n \in 0..n
  BY <1>6
<1>13. Run(src, <<l, c>>, class) = [at |-> Leave(src, Behind(src, l, c + n)), len |-> n]
  BY <1>7, <1>11, <1>12
<1> QED BY <1>6, <1>13 DEF n, line

-----------------------------------------------------------------------------
(* The tokens that the lexer tries *)

Unseparated == Characters \ Separators

\* LexKeyword reads up to the next separator.
SeparatorsOf(text) == {i \in DOMAIN text : text[i] \in Separators}
UpToSeparator(text) ==
  IF SeparatorsOf(text) = {} THEN Len(text)
  ELSE (CHOOSE i \in SeparatorsOf(text) : \A j \in SeparatorsOf(text) : i <= j) - 1

LEMMA FirstSeparator ==
  ASSUME NEW line \in Lines, NEW c \in 0..(Len(line) - 1)
  PROVE  LET text == SubSeq(line, c + 1, Len(line))
             n == UpToSeparator(text)
         IN /\ n = Word(line, c + 1, Unseparated) /\ n \in 0..(Len(line) - c)
            /\ SubSeq(text, 1, n) = SubSeq(line, c + 1, c + n)
<1> DEFINE text == SubSeq(line, c + 1, Len(line))
           ends == SeparatorsOf(text)
           w == Word(line, c + 1, Unseparated)
           least == CHOOSE i \in ends : \A j \in ends : i <= j
           n == UpToSeparator(text)
<1>1. Len(line) \in Nat /\ \A i \in 1..Len(line) : line[i] \in Characters
  BY LenProperties, ElementOfSeq DEF Lines
<1>2. c \in Nat /\ c < Len(line) /\ c + 1 \in 1..(Len(line) + 1) /\ c + 1 <= Len(line)
  BY <1>1
<1>3. /\ text \in Seq(Characters) /\ Len(text) = Len(line) - c
      /\ \A j \in 1..(Len(line) - c) : text[j] = line[c + j]
  <2>1. \A i \in (c + 1)..Len(line) : line[i] \in Characters
    BY <1>1, <1>2
  <2>2. /\ text \in Seq(Characters) /\ Len(text) = Len(line) - (c + 1) + 1
        /\ \A j \in 1..(Len(line) - (c + 1) + 1) : text[j] = line[c + 1 + j - 1]
    BY <1>1, <1>2, <2>1, SubSeqProperties
  <2> HIDE DEF text
  <2>3. Len(line) - (c + 1) + 1 = Len(line) - c /\ \A j \in Nat : c + 1 + j - 1 = c + j
    BY <1>1, <1>2
  <2> QED BY <2>2, <2>3
<1>4. DOMAIN text = 1..(Len(line) - c)
  BY <1>3, LenProperties
<1>5. /\ w \in 0..(Len(line) - (c + 1) + 1)
      /\ \A k \in (c + 1)..(c + 1 + w - 1) : line[k] \in Unseparated
      /\ c + 1 + w > Len(line) \/ line[c + 1 + w] \notin Unseparated
  BY <1>2, WordIs
<1> HIDE DEF w, text
<1>6. w \in 0..(Len(line) - c)
  BY <1>1, <1>2, <1>5
<1>7. ASSUME NEW j \in ends PROVE j \in Nat /\ ~(j <= w) /\ j <= Len(line) - c
  <2>1. j \in 1..(Len(line) - c) /\ line[c + j] \in Separators
    BY <1>3, <1>4 DEF SeparatorsOf
  <2>2. j <= w => c + j \in (c + 1)..(c + 1 + w - 1)
    BY <1>2, <1>6, <2>1
  <2> QED BY <1>1, <1>2, <1>5, <2>1, <2>2 DEF Unseparated
<1>8. w < Len(line) - c => w + 1 \in ends
  <2> SUFFICES ASSUME w < Len(line) - c PROVE w + 1 \in ends
    OBVIOUS
  <2>1. w + 1 \in 1..(Len(line) - c) /\ c + (w + 1) = c + 1 + w /\ ~(c + 1 + w > Len(line)) /\ c + 1 + w \in 1..Len(line)
    BY <1>1, <1>2, <1>6
  <2>2. line[c + 1 + w] \in Separators
    BY <1>1, <1>5, <2>1 DEF Unseparated
  <2> QED BY <1>3, <1>4, <2>1, <2>2 DEF SeparatorsOf
<1>9. n = IF ends = {} THEN Len(text) ELSE least - 1
  BY DEF UpToSeparator
<1> HIDE DEF ends, n
<1>10. n = w
  <2>1. CASE ends = {}
    <3>1. w = Len(line) - c
      BY <1>1, <1>2, <1>6, <1>8, <2>1
    <3> QED BY <1>3, <1>9, <2>1, <3>1
  <2>2. CASE ends # {}
    <3>1. PICK j \in ends : TRUE
      BY <2>2
    <3>2. w < Len(line) - c
      BY <1>1, <1>2, <1>6, <1>7, <3>1
    <3>3. w + 1 \in ends
      BY <1>8, <3>2
    <3>4. \A k \in ends : w + 1 <= k
      BY <1>6, <1>7
    <3>5. least \in ends /\ \A k \in ends : least <= k
      BY <3>3, <3>4
    <3>6. least = w + 1
      <4>1. least \in Nat /\ least <= w + 1 /\ w + 1 <= least
        BY <1>7, <3>3, <3>4, <3>5
      <4> QED BY <1>6, <4>1
    <3> HIDE DEF least
    <3> QED BY <1>6, <1>9, <2>2, <3>6
  <2> QED BY <2>1, <2>2
<1>11. SubSeq(text, 1, w) = SubSeq(line, c + 1, c + w)
  <2>1. \A k \in 1..w : text[k] = line[c + k] /\ text[k] \in Characters
    BY <1>1, <1>2, <1>3, <1>6, ElementOfSeq
  <2>2. /\ SubSeq(text, 1, w) \in Seq(Characters)
        /\ Len(SubSeq(text, 1, w)) = IF 1 <= w THEN w - 1 + 1 ELSE 0
        /\ \A k \in 1..(w - 1 + 1) : SubSeq(text, 1, w)[k] = text[1 + k - 1]
    BY <1>6, <2>1, SubSeqProperties
  <2>3. \A k \in (c + 1)..(c + w) : line[k] \in Characters
    BY <1>1, <1>2, <1>6
  <2>4. /\ SubSeq(line, c + 1, c + w) \in Seq(Characters)
        /\ Len(SubSeq(line, c + 1, c + w)) = IF c + 1 <= c + w THEN c + w - (c + 1) + 1 ELSE 0
        /\ \A k \in 1..(c + w - (c + 1) + 1) : SubSeq(line, c + 1, c + w)[k] = line[c + 1 + k - 1]
    BY <1>2, <1>6, <2>3, SubSeqProperties
  <2>5. Len(SubSeq(text, 1, w)) = w /\ Len(SubSeq(line, c + 1, c + w)) = w
    BY <1>2, <1>6, <2>2, <2>4
  <2>6. \A k \in 1..w : SubSeq(text, 1, w)[k] = line[c + k] /\ SubSeq(line, c + 1, c + w)[k] = line[c + k]
    <3>1. \A k \in 1..w : 1 + k - 1 = k /\ c + 1 + k - 1 = c + k
      BY <1>2, <1>6
    <3>2. w - 1 + 1 = w /\ c + w - (c + 1) + 1 = w
      BY <1>2, <1>6
    <3> QED BY <2>1, <2>2, <2>4, <3>1, <3>2
  <2> DEFINE s == SubSeq(text, 1, w)
             t == SubSeq(line, c + 1, c + w)
  <2>7. s \in Seq(Characters) /\ t \in Seq(Characters) /\ Len(s) = w /\ Len(t) = w
    BY <2>2, <2>4, <2>5
  <2>8. \A k \in 1..w : s[k] = t[k]
    BY <2>6
  <2> HIDE DEF s, t
  <2>9. s = t
    BY <2>7, <2>8, SeqEqual
  <2> QED BY <2>9 DEF s, t
<1> QED BY <1>6, <1>10, <1>11 DEF w, n, text

EatenStep(src, p, eaten, i) == IF i = 0 THEN p ELSE Eat(src, eaten[i - 1])

\* Eating some characters of a line.
LEMMA EatMany ==
  ASSUME NEW src \in AllTexts, NEW l \in 0..(Len(src) - 1), NEW c \in 0..(Len(src[l + 1]) - 1),
         NEW n \in 0..(Len(src[l + 1]) - c)
  PROVE  LET eaten == CHOOSE g : g = [k \in 0..n |-> EatenStep(src, <<l, c>>, g, k)]
         IN eaten[n] = Behind(src, l, c + n)
<1> DEFINE eaten == CHOOSE g : g = [k \in 0..n |-> EatenStep(src, <<l, c>>, g, k)]
           h == [k \in 0..n |-> Behind(src, l, c + k)]
           Good == {k \in Nat : k <= n => eaten[k] = Behind(src, l, c + k)}
<1>1. Len(src[l + 1]) \in Nat /\ Len(src) \in Nat
  BY LinesOfText
<1>2. Behind(src, l, c + 0) = <<l, c>>
  <2>1. c + 0 = c /\ c < Len(src[l + 1])
    BY <1>1
  <2> QED BY <2>1 DEF Behind
<1>3. ASSUME NEW k \in 0..n, k # 0
      PROVE  Eat(src, Behind(src, l, c + (k - 1))) = Behind(src, l, c + k) /\ k - 1 \in 0..n
  <2> DEFINE e == c + (k - 1)
  <2>1. e \in 0..(Len(src[l + 1]) - 1) /\ e < Len(src[l + 1]) /\ e + 1 = c + k /\ k - 1 \in 0..n
    BY <1>1, <1>3
  <2> HIDE DEF e
  <2>2. Behind(src, l, e) = <<l, e>> /\ Eat(src, <<l, e>>) = Behind(src, l, e + 1)
    BY <2>1, OnALine DEF Behind
  <2> QED BY <2>1, <2>2 DEF e
<1>4. ASSUME NEW k \in 0..n PROVE h[k] = EatenStep(src, <<l, c>>, h, k)
  <2>1. CASE k = 0
    BY <1>2, <2>1 DEF EatenStep
  <2>2. CASE k # 0
    <3>1. h[k - 1] = Behind(src, l, c + (k - 1)) /\ h[k] = Behind(src, l, c + k)
      BY <1>3, <2>2
    <3> HIDE DEF h
    <3> QED BY <1>3, <2>2, <3>1 DEF EatenStep
  <2> QED BY <2>1, <2>2
<1>5. h = [k \in 0..n |-> EatenStep(src, <<l, c>>, h, k)]
  BY <1>4
<1> HIDE DEF h
<1>6. eaten = [k \in 0..n |-> EatenStep(src, <<l, c>>, eaten, k)]
  BY <1>5
<1> HIDE DEF eaten
<1>7. 0 \in Good
  <2>1. eaten[0] = EatenStep(src, <<l, c>>, eaten, 0)
    <3>1. 0 \in 0..n
      BY <1>1
    <3> QED BY <1>6, <3>1
  <2> QED BY <1>2, <2>1 DEF EatenStep
<1>8. ASSUME NEW k \in Nat \ {0}, k - 1 \in Good PROVE k \in Good
  <2> SUFFICES ASSUME k <= n PROVE eaten[k] = Behind(src, l, c + k)
    OBVIOUS
  <2>1. k \in 0..n /\ k # 0 /\ k - 1 <= n
    BY <1>1
  <2>2. eaten[k - 1] = Behind(src, l, c + (k - 1))
    BY <1>8, <2>1
  <2>3. eaten[k] = EatenStep(src, <<l, c>>, eaten, k)
    BY <1>6, <2>1
  <2> QED BY <1>3, <2>1, <2>2, <2>3 DEF EatenStep
<1>9. n \in Good
  <2> HIDE DEF Good
  <2>1. Nat \subseteq Good
    BY <1>7, <1>8, Induction
  <2> QED BY <1>1, <2>1
<1> QED BY <1>1, <1>9 DEF eaten

LEMMA KeywordAttempt ==
  ASSUME NEW src \in AllTexts, NEW l \in 0..(Len(src) - 1), NEW c \in 0..(Len(src[l + 1]) - 1)
  PROVE  LET n == Word(src[l + 1], c + 1, Unseparated)
         IN LexKeyword(src, <<l, c>>) =
              IF SubSeq(src[l + 1], c + 1, c + n) \in Keywords
              THEN <<Token("keyword", <<l, c>>, n), Behind(src, l, c + n)>>
              ELSE <<NoToken, <<l, c>>>>
<1> DEFINE p == <<l, c>>
           text == SubSeq(Line(src, p), p[2] + 1, Len(Line(src, p)))
           n == UpToSeparator(text)
           eaten == CHOOSE g : g = [k \in 0..n |-> EatenStep(src, p, g, k)]
<1>1. LexKeyword(src, p) = IF SubSeq(text, 1, n) \in Keywords
                           THEN <<Token("keyword", p, n), eaten[n]>> ELSE <<NoToken, p>>
  BY DEF LexKeyword, EatenStep, UpToSeparator, SeparatorsOf
<1>2. text = SubSeq(src[l + 1], c + 1, Len(src[l + 1]))
  BY DEF Line
<1>3. src[l + 1] \in Lines
  BY LinesOfText DEF Lines
<1> HIDE DEF text
<1>4. /\ n = Word(src[l + 1], c + 1, Unseparated) /\ n \in 0..(Len(src[l + 1]) - c)
      /\ SubSeq(text, 1, n) = SubSeq(src[l + 1], c + 1, c + n)
  BY <1>2, <1>3, FirstSeparator
<1> HIDE DEF n
<1>5. eaten[n] = Behind(src, l, c + n)
  BY <1>4, EatMany
<1> HIDE DEF eaten
<1> QED BY <1>1, <1>4, <1>5

LEMMA SymbolAttempt ==
  ASSUME NEW src \in AllTexts, NEW l \in 0..(Len(src) - 1), NEW c \in 0..(Len(src[l + 1]) - 1)
  PROVE  LexSymbol(src, <<l, c>>) =
           IF src[l + 1][c + 1] \notin Symbols THEN <<NoToken, <<l, c>>>>
           ELSE IF <<src[l + 1][c + 1], NextTo(src[l + 1], c + 1)>> \in Pairs
           THEN <<Token("symbol", <<l, c>>, 2), Behind(src, l, c + 2)>>
           ELSE <<Token("symbol", <<l, c>>, 1), Behind(src, l, c + 1)>>
<1> DEFINE line == src[l + 1]
           p == <<l, c>>
<1>1. Len(line) \in Nat
  BY LinesOfText
<1>2. Char(src, p) = line[c + 1] /\ Eat(src, p) = Behind(src, l, c + 1)
  BY OnALine
<1>3. NextOnLine(src, p) = NextTo(line, c + 1)
  <2>1. NextOnLine(src, p) = IF c + 1 >= Len(line) THEN EOF ELSE line[c + 2]
    BY DEF NextOnLine, Line
  <2>2. (c + 1 >= Len(line) <=> ~(c + 1 < Len(line))) /\ c + 1 + 1 = c + 2
    BY <1>1
  <2> QED BY <2>1, <2>2 DEF NextTo
<1>4. <<line[c + 1], NextTo(line, c + 1)>> \in Pairs => Eat(src, Eat(src, p)) = Behind(src, l, c + 2)
  <2> SUFFICES ASSUME <<line[c + 1], NextTo(line, c + 1)>> \in Pairs
               PROVE  Eat(src, Eat(src, p)) = Behind(src, l, c + 2)
    OBVIOUS
  <2>1. c + 1 < Len(line)
    <3>1. \A pair \in Pairs : pair[2] # EOF
      BY DEF Pairs, EOF
    <3>2. NextTo(line, c + 1) # EOF => c + 1 < Len(line)
      BY DEF NextTo
    <3>3. <<line[c + 1], NextTo(line, c + 1)>>[2] = NextTo(line, c + 1)
      OBVIOUS
    <3> QED BY <3>1, <3>2, <3>3
  <2>2. Behind(src, l, c + 1) = <<l, c + 1>>
    BY <2>1 DEF Behind
  <2>3. c + 1 \in 0..(Len(line) - 1) /\ c + 1 + 1 = c + 2
    BY <1>1, <2>1
  <2>4. Eat(src, <<l, c + 1>>) = Behind(src, l, c + 1 + 1)
    BY <2>3, OnALine
  <2> QED BY <1>2, <2>2, <2>3, <2>4
<1> HIDE DEF p
<1>5. LexSymbol(src, p) =
        IF line[c + 1] \notin Symbols THEN <<NoToken, p>>
        ELSE IF <<line[c + 1], NextTo(line, c + 1)>> \in Pairs
        THEN <<Token("symbol", p, 2), Eat(src, Eat(src, p))>>
        ELSE <<Token("symbol", p, 1), Eat(src, p)>>
  BY <1>2, <1>3 DEF LexSymbol
<1>6. Eat(src, p) = Behind(src, l, c + 1)
  BY <1>2
<1>7. CASE <<line[c + 1], NextTo(line, c + 1)>> \in Pairs
  BY <1>4, <1>5, <1>7 DEF p
<1>8. CASE <<line[c + 1], NextTo(line, c + 1)>> \notin Pairs
  BY <1>5, <1>6, <1>8 DEF p
<1> QED BY <1>7, <1>8

\* Where a run on a line ends, the lexer finds the next character of the line, or
\* none of a class that the next line does not go on with.
LEMMA BehindARun ==
  ASSUME NEW src \in AllTexts, NEW l \in 0..(Len(src) - 1), NEW e \in 0..Len(src[l + 1])
  PROVE  /\ e < Len(src[l + 1]) =>
              /\ Leave(src, Behind(src, l, e)) = <<l, e>>
              /\ Char(src, Behind(src, l, e)) = src[l + 1][e + 1]
              /\ Char(src, Leave(src, Behind(src, l, e))) = src[l + 1][e + 1]
         /\ \A X : e = Len(src[l + 1]) /\ NextNot(src, l, X) /\ EOF \notin X /\ NUL \notin X =>
              /\ Behind(src, l, e) = <<l + 1, 0>>
              /\ Char(src, Behind(src, l, e)) \notin X
              /\ Char(src, Leave(src, Behind(src, l, e))) \notin X
<1>1. Len(src[l + 1]) \in Nat
  BY LinesOfText
<1>2. ASSUME e < Len(src[l + 1])
      PROVE  /\ Leave(src, Behind(src, l, e)) = <<l, e>>
             /\ Char(src, Behind(src, l, e)) = src[l + 1][e + 1]
             /\ Char(src, Leave(src, Behind(src, l, e))) = src[l + 1][e + 1]
  <2>1. e \in 0..(Len(src[l + 1]) - 1) /\ Behind(src, l, e) = <<l, e>>
    BY <1>1, <1>2 DEF Behind
  <2>2. Leave(src, <<l, e>>) = <<l, e>> /\ Char(src, <<l, e>>) = src[l + 1][e + 1]
    BY <2>1, OnALine
  <2> QED BY <2>1, <2>2
<1>3. ASSUME NEW X, e = Len(src[l + 1]), NextNot(src, l, X), EOF \notin X, NUL \notin X
      PROVE  /\ Behind(src, l, e) = <<l + 1, 0>>
             /\ Char(src, Behind(src, l, e)) \notin X
             /\ Char(src, Leave(src, Behind(src, l, e))) \notin X
  <2>1. Behind(src, l, e) = <<l + 1, 0>>
    BY <1>1, <1>3 DEF Behind
  <2>2. Char(src, <<l + 1, 0>>) \notin X /\ Char(src, Leave(src, <<l + 1, 0>>)) \notin X
    BY <1>3, NothingGoesOn
  <2> QED BY <2>1, <2>2
<1> QED BY <1>2, <1>3

\* EOF and NUL are of no class that a token can go on with.
LEMMA NoContinuation ==
  /\ EOF \notin NameChars /\ NUL \notin NameChars
  /\ EOF \notin Digits \cup {"."} /\ NUL \notin Digits \cup {"."}
<1>1. Digits \subseteq Characters /\ "." \in Characters /\ NameChars \subseteq Characters
  BY DEF Characters, NameChars, Symbols
<1> QED BY <1>1, KindsOfCharacters

NameStarts == Letters \cup {"_"}

LEMMA IdentifierAttempt ==
  ASSUME NEW src \in AllTexts, NEW l \in 0..(Len(src) - 1), NEW c \in 0..(Len(src[l + 1]) - 1),
         src[l + 1][c + 1] \in NameStarts,
         c + Word(src[l + 1], c + 1, NameChars) = Len(src[l + 1]) => NextNot(src, l, NameChars)
  PROVE  LET n == Word(src[l + 1], c + 1, NameChars)
         IN LexIdentifier(src, <<l, c>>) =
              <<Token("identifier", <<l, c>>, n), Leave(src, Behind(src, l, c + n))>>
<1> DEFINE line == src[l + 1]
           n == Word(line, c + 1, NameChars)
<1>1. Len(line) \in Nat /\ line \in Lines /\ c + 1 \in 1..Len(line) /\ c \in Nat
  <2>1. Len(line) \in Nat
    BY LinesOfText
  <2>2. line \in Lines
    BY LinesOfText DEF Lines
  <2>3. c + 1 \in 1..Len(line) /\ c \in Nat
    BY <2>1
  <2> QED BY <2>1, <2>2, <2>3
<1>2. line[c + 1] \in NameChars
  BY DEF NameChars, NameStarts
<1>3. n \in 1..(Len(line) - (c + 1) + 1)
  BY <1>1, <1>2, WordIsLong
<1>4. c + n = Len(line) => Char(src, <<l + 1, 0>>) \notin NameChars
  BY NothingGoesOn, NoContinuation
<1>5. Run(src, <<l, c>>, NameChars) = [at |-> Leave(src, Behind(src, l, c + n)), len |-> n]
  BY <1>4, RunOnALine
<1>6. Char(src, <<l, c>>) = line[c + 1] /\ line[c + 1] \notin Digits
  BY OnALine, KindsOfCharacters DEF NameStarts
<1>7. n # 0
  BY <1>1, <1>3
<1> HIDE DEF n, line
<1>8. LexIdentifier(src, <<l, c>>) =
        NameFrom(src, <<l, c>>, [at |-> Leave(src, Behind(src, l, c + n)), len |-> n])
  BY <1>5 DEF LexIdentifier
<1>9. LexIdentifier(src, <<l, c>>) =
        <<Token("identifier", <<l, c>>, n), Leave(src, Behind(src, l, c + n))>>
  BY <1>6, <1>7, <1>8 DEF NameFrom
<1> QED BY <1>9 DEF n, line

Point == "."
Pointed == Digits \cup {Point}

\* Digits, a point and digits again, or digits that no point follows.
LEMMA NumberAttempt ==
  ASSUME NEW src \in AllTexts, NEW l \in 0..(Len(src) - 1), NEW c \in 0..(Len(src[l + 1]) - 1),
         src[l + 1][c + 1] \in Digits,
         NEW n, n = Number(src[l + 1], c + 1),
         c + n < Len(src[l + 1]) => src[l + 1][c + n + 1] # Point,
         c + n = Len(src[l + 1]) => NextNot(src, l, Pointed)
  PROVE  LexNumber(src, <<l, c>>) =
           <<Token("number", <<l, c>>, n), Leave(src, Behind(src, l, c + n))>>
<1> DEFINE line == src[l + 1]
           p == <<l, c>>
           w == Word(line, c + 1, Digits)
           v == Word(line, c + 1 + w + 1, Digits)
           Fraction == c + 1 + w + 1 <= Len(line) /\ line[c + 1 + w] = "." /\ line[c + 1 + w + 1] \in Digits
<1>1. Len(line) \in Nat
  BY LinesOfText
<1>2. line \in Lines
  BY LinesOfText DEF Lines
<1>3. c + 1 \in 1..Len(line) /\ c \in Nat
  BY <1>1
<1>4. /\ w \in 1..(Len(line) - (c + 1) + 1)
      /\ \/ Fraction /\ v \in 1..(Len(line) - (c + 1 + w + 1) + 1) /\ n = w + 1 + v
         \/ ~Fraction /\ n = w
  BY <1>2, <1>3, NumberIs
<1>5. EOF \notin Digits /\ NUL \notin Digits /\ EOF \notin Pointed /\ NUL \notin Pointed
  BY NoContinuation DEF Pointed, Point
<1>6. NextNot(src, l, Pointed) => Char(src, <<l + 1, 0>>) \notin Digits
  <2>1. NextNot(src, l, Pointed) => Char(src, <<l + 1, 0>>) \notin Pointed
    BY <1>5, NothingGoesOn
  <2> QED BY <2>1 DEF Pointed
<1> HIDE DEF w, v
<1>7. w \in Nat /\ w # 0
  BY <1>1, <1>3, <1>4
<1>8. CASE Fraction
  <2> DEFINE d == c + w + 1
  <2>1. v \in 1..(Len(line) - (c + 1 + w + 1) + 1) /\ n = w + 1 + v
    BY <1>4, <1>8
  <2>13. c + 1 + w + 1 <= Len(line) /\ line[c + 1 + w] = Point
    BY <1>8 DEF Point
  <2>2. /\ d < Len(line) /\ d \in 0..(Len(line) - 1) /\ d + 1 = c + 1 + w + 1 /\ c + w < Len(line)
        /\ c + w \in 0..(Len(line) - 1) /\ c + w \in 0..Len(line) /\ c + w + 1 = c + 1 + w
        /\ d + v = c + n
    <3>1. c + 1 + w + 1 = d + 1 /\ d \in Nat /\ c + w \in Nat /\ d = c + w + 1 /\ c + w + 1 = c + 1 + w
      BY <1>3, <1>7
    <3>2. d < Len(line) /\ d \in 0..(Len(line) - 1)
      BY <1>1, <2>13, <3>1
    <3>3. c + w < Len(line) /\ c + w \in 0..(Len(line) - 1) /\ c + w \in 0..Len(line)
      BY <1>1, <3>1, <3>2
    <3>4. v \in Nat
      BY <2>1
    <3>5. d + v = c + n
      BY <1>3, <1>7, <2>1, <3>4
    <3> QED BY <3>1, <3>2, <3>3, <3>5
  <2>3. line[c + w + 1] = Point
    BY <2>2, <2>13
  <2>4. Run(src, p, Digits) = [at |-> Leave(src, Behind(src, l, c + w)), len |-> w]
    <3>1. ~(c + w = Len(line))
      BY <1>1, <2>2
    <3> QED BY <3>1, RunOnALine DEF w
  <2>5. /\ Leave(src, Behind(src, l, c + w)) = <<l, c + w>>
        /\ Char(src, <<l, c + w>>) = line[c + w + 1]
        /\ Eat(src, <<l, c + w>>) = Behind(src, l, d)
    <3>1. Leave(src, Behind(src, l, c + w)) = <<l, c + w>>
      BY <2>2, BehindARun
    <3>2. Char(src, <<l, c + w>>) = line[c + w + 1] /\ Eat(src, <<l, c + w>>) = Behind(src, l, c + w + 1)
      BY <2>2, OnALine
    <3> QED BY <3>1, <3>2
  <2>6. Behind(src, l, d) = <<l, d>>
    BY <2>2 DEF Behind
  <2>7. d + Word(line, d + 1, Digits) = Len(line) => Char(src, <<l + 1, 0>>) \notin Digits
    BY <1>6, <2>2 DEF v
  <2>8. v = Word(line, d + 1, Digits)
    BY <2>2 DEF v
  <2> HIDE DEF d
  <2>9. Run(src, <<l, d>>, Digits) = [at |-> Leave(src, Behind(src, l, d + v)), len |-> v]
    BY <2>2, <2>7, <2>8, RunOnALine
  <2>10. v # 0
    BY <1>1, <1>3, <1>7, <2>1
  <2> HIDE DEF p, line
  <2>11. LexNumber(src, p) = WithFraction(p, [at |-> <<l, c + w>>, len |-> w],
                                          [at |-> Leave(src, Behind(src, l, d + v)), len |-> v])
    BY <2>3, <2>4, <2>5, <2>6, <2>9 DEF LexNumber, NumberFrom, Point
  <2>12. LexNumber(src, p) = <<Token("number", p, w + 1 + v), Leave(src, Behind(src, l, d + v))>>
    BY <2>10, <2>11 DEF WithFraction
  <2> QED BY <2>1, <2>2, <2>12 DEF p
<1>9. CASE ~Fraction
  <2>1. n = w /\ c + w \in 0..Len(line) /\ (~(c + w < Len(line)) => c + w = Len(line))
    BY <1>1, <1>3, <1>4, <1>7, <1>9
  <2>2. c + w = Len(line) => Char(src, <<l + 1, 0>>) \notin Digits
    BY <1>6, <2>1
  <2>3. Run(src, p, Digits) = [at |-> Leave(src, Behind(src, l, c + w)), len |-> w]
    BY <2>2, RunOnALine DEF w
  <2>4. Char(src, Leave(src, Behind(src, l, c + w))) # "."
    <3>1. CASE c + w < Len(line)
      <4>1. line[c + w + 1] # Point
        BY <2>1, <3>1
      <4>2. Char(src, Leave(src, Behind(src, l, c + w))) = line[c + w + 1]
        BY <2>1, <3>1, BehindARun
      <4> QED BY <4>1, <4>2 DEF Point
    <3>2. CASE c + w = Len(line)
      <4>1. NextNot(src, l, Pointed)
        BY <2>1, <3>2
      <4>2. Char(src, Leave(src, Behind(src, l, c + w))) \notin Pointed
        BY <1>5, <2>1, <3>2, <4>1, BehindARun
      <4> QED BY <4>2 DEF Pointed, Point
    <3> QED BY <2>1, <3>1, <3>2
  <2> HIDE DEF p, line
  <2>5. LexNumber(src, p) = <<Token("number", p, w), Leave(src, Behind(src, l, c + w))>>
    BY <1>7, <2>3, <2>4 DEF LexNumber, NumberFrom
  <2> QED BY <2>1, <2>5 DEF p
<1> QED BY <1>8, <1>9

\* Nothing is eaten where neither a digit nor a point is.
LEMMA NoNumber ==
  ASSUME NEW src \in AllTexts, NEW l \in 0..(Len(src) - 1), NEW c \in 0..(Len(src[l + 1]) - 1),
         src[l + 1][c + 1] \in NameStarts
  PROVE  LexNumber(src, <<l, c>>) = <<NoToken, <<l, c>>>>
<1> DEFINE line == src[l + 1]
           p == <<l, c>>
           w == Word(line, c + 1, Digits)
<1>1. Len(line) \in Nat
  BY LinesOfText
<1>2. line \in Lines
  BY LinesOfText DEF Lines
<1>3. c + 1 \in 1..(Len(line) + 1) /\ c \in Nat /\ c < Len(line) /\ c + 1 <= Len(line)
  BY <1>1
<1>4. line[c + 1] \notin Digits /\ line[c + 1] # "."
  BY CharacterAssumption, KindsOfCharacters DEF NameStarts, Symbols
<1>5. w = 0
  <2>1. c + 1 + 0 <= Len(line) + 1 /\ c + 1 + 0 = c + 1 /\ \A k \in (c + 1)..(c + 1 + 0 - 1) : FALSE
    BY <1>3
  <2> QED BY <1>2, <1>3, <1>4, <2>1, WordIsUnique
<1>6. c + w # Len(line) /\ c + 0 = c
  BY <1>1, <1>3, <1>5
<1>7. Run(src, p, Digits) = [at |-> Leave(src, Behind(src, l, c + w)), len |-> w]
  BY <1>6, RunOnALine
<1>8. Behind(src, l, c) = p /\ Leave(src, p) = p /\ Char(src, p) = line[c + 1]
  BY <1>3, OnALine DEF Behind
<1> HIDE DEF w
<1>9. Run(src, p, Digits) = [at |-> p, len |-> 0]
  BY <1>5, <1>6, <1>7, <1>8
<1> HIDE DEF p, line
<1>10. LexNumber(src, p) = <<NoToken, p>>
  BY <1>4, <1>8, <1>9 DEF LexNumber, NumberFrom
<1> QED BY <1>10 DEF p

-----------------------------------------------------------------------------
(* The lexer reads the token that comes next *)

LEMMA IsAToken ==
  /\ \A p, n : Token("keyword", p, n) # NoToken /\ Token("symbol", p, n) # NoToken
  /\ \A p, n : Token("number", p, n) # NoToken /\ Token("identifier", p, n) # NoToken
<1>1. \A kind, p, n : Token(kind, p, n).kind = kind
  BY DEF Token
<1>2. NoToken.kind = "none"
  BY DEF NoToken, Token
<1> QED BY <1>1, <1>2

\* What the end of a readable token says of the text behind it.
LEMMA ReadableEnds ==
  ASSUME NEW src, NEW l, NEW c, NEW kind, NEW n,
         EndsReadably(Token(kind, <<l, c>>, n), src[l + 1]),
         StopsReadably(src, Token(kind, <<l, c>>, n))
  PROVE  /\ kind = "keyword" /\ c + n < Len(src[l + 1]) => src[l + 1][c + n + 1] \in Separators
         /\ kind = "number" /\ c + n < Len(src[l + 1]) => src[l + 1][c + n + 1] # Point
         /\ kind = "identifier" /\ c + n = Len(src[l + 1]) => NextNot(src, l, NameChars)
         /\ kind = "number" /\ c + n = Len(src[l + 1]) => NextNot(src, l, Pointed)
<1> DEFINE t == Token(kind, <<l, c>>, n)
<1>1. t.kind = kind /\ t.at[1] = l /\ t.at[2] = c /\ t.len = n /\ Line(src, t.at) = src[l + 1]
  BY DEF Token, Line
<1>2. EndsReadably(t, src[l + 1]) /\ StopsReadably(src, t)
  OBVIOUS
<1> HIDE DEF t
<1>3. /\ kind = "keyword" /\ c + n < Len(src[l + 1]) => src[l + 1][c + n + 1] \in Separators
      /\ kind = "number" /\ c + n < Len(src[l + 1]) => src[l + 1][c + n + 1] # Point
  BY <1>1, <1>2 DEF EndsReadably, Point
<1>4. c + n = Len(src[l + 1]) => NextNot(src, l, Continuations(kind))
  BY <1>1, <1>2 DEF StopsReadably, NextNot
<1>5. /\ kind = "identifier" => Continuations(kind) = NameChars
      /\ kind = "number" => Continuations(kind) = Pointed
  BY DEF Continuations, Pointed, Point
<1> QED BY <1>3, <1>4, <1>5

\* What LexKeyword takes for a keyword is a whole name...
LEMMA KeywordIsAName ==
  ASSUME NEW line \in Lines, NEW c \in 0..(Len(line) - 1),
         SubSeq(line, c + 1, c + Word(line, c + 1, Unseparated)) \in Keywords
  PROVE  /\ Word(line, c + 1, Unseparated) = Word(line, c + 1, NameChars)
         /\ line[c + 1] \in Letters
<1> DEFINE u == Word(line, c + 1, Unseparated)
           word == SubSeq(line, c + 1, c + u)
<1>1. Len(line) \in Nat /\ \A i \in 1..Len(line) : line[i] \in Characters
  BY LenProperties, ElementOfSeq DEF Lines
<1>2. c + 1 \in 1..(Len(line) + 1) /\ c \in Nat /\ c + 1 <= Len(line)
  BY <1>1
<1>3. /\ u \in 0..(Len(line) - (c + 1) + 1)
      /\ c + 1 + u > Len(line) \/ line[c + 1 + u] \notin Unseparated
  BY <1>2, WordIs
<1>4. word \in Seq(Letters) /\ word # <<>>
  BY CharacterAssumption
<1> HIDE DEF u
<1>5. u \in Nat /\ c + 1 + u <= Len(line) + 1
  BY <1>1, <1>2, <1>3
<1>6. \A k \in (c + 1)..(c + u) : line[k] \in Characters
  BY <1>1, <1>2, <1>5
<1>7. /\ Len(word) = IF c + 1 <= c + u THEN c + u - (c + 1) + 1 ELSE 0
      /\ \A k \in 1..(c + u - (c + 1) + 1) : word[k] = line[c + 1 + k - 1]
  BY <1>2, <1>5, <1>6, SubSeqProperties
<1> HIDE DEF word
<1>8. c + u - (c + 1) + 1 = u /\ (c + 1 <= c + u <=> 1 <= u)
  BY <1>2, <1>5
<1>9. u # 0
  <2>1. Len(word) # 0
    BY <1>4, EmptySeq
  <2> QED BY <1>5, <1>7, <1>8, <2>1
<1>10. Len(word) = u
  BY <1>5, <1>7, <1>8, <1>9
<1>11. ASSUME NEW k \in (c + 1)..(c + u) PROVE line[k] \in Letters
  <2>1. k - c \in 1..u /\ c + 1 + (k - c) - 1 = k
    BY <1>2, <1>5
  <2>2. word[k - c] = line[k]
    BY <1>7, <1>8, <2>1
  <2>3. word[k - c] \in Letters
    BY <1>4, <1>10, <2>1, ElementOfSeq
  <2> QED BY <2>2, <2>3
<1>12. c + 1 + u > Len(line) \/ line[c + 1 + u] \notin NameChars
  <2> SUFFICES ASSUME ~(c + 1 + u > Len(line)) PROVE line[c + 1 + u] \notin NameChars
    OBVIOUS
  <2>1. c + 1 + u \in 1..Len(line)
    BY <1>1, <1>2, <1>5
  <2>2. line[c + 1 + u] \in Separators
    BY <1>1, <1>3, <2>1 DEF Unseparated
  <2> QED BY <2>2, KindsOfCharacters
<1>13. \A k \in (c + 1)..(c + 1 + u - 1) : line[k] \in NameChars
  <2>1. c + 1 + u - 1 = c + u
    BY <1>2, <1>5
  <2> QED BY <1>11, <2>1 DEF NameChars
<1>14. Word(line, c + 1, NameChars) = u
  BY <1>2, <1>5, <1>12, <1>13, WordIsUnique
<1>15. line[c + 1] \in Letters
  <2>1. c + 1 \in (c + 1)..(c + u)
    BY <1>2, <1>5, <1>9
  <2> QED BY <1>11, <2>1
<1> QED BY <1>14, <1>15 DEF u

\* ... and a name that a separator follows is taken whole.
LEMMA SeparatedName ==
  ASSUME NEW line \in Lines, NEW c \in 0..(Len(line) - 1), NEW w,
         w = Word(line, c + 1, NameChars),
         c + w < Len(line) => line[c + w + 1] \in Separators
  PROVE  Word(line, c + 1, Unseparated) = w
<1>1. Len(line) \in Nat
  BY LenProperties DEF Lines
<1>2. c + 1 \in 1..(Len(line) + 1) /\ c \in Nat
  BY <1>1
<1>3. w \in 0..(Len(line) - (c + 1) + 1) /\ \A k \in (c + 1)..(c + 1 + w - 1) : line[k] \in NameChars
  BY <1>2, WordIs
<1>4. w \in Nat /\ c + 1 + w <= Len(line) + 1 /\ c + 1 + w = c + w + 1
      /\ (~(c + 1 + w > Len(line)) => c + w < Len(line))
  BY <1>1, <1>2, <1>3
<1>5. NameChars \subseteq Unseparated /\ Separators \cap Unseparated = {}
  BY KindsOfCharacters DEF Unseparated, Characters
<1>6. c + 1 + w > Len(line) \/ line[c + 1 + w] \notin Unseparated
  BY <1>4, <1>5
<1>7. \A k \in (c + 1)..(c + 1 + w - 1) : line[k] \in Unseparated
  BY <1>3, <1>5
<1> QED BY <1>2, <1>4, <1>6, <1>7, WordIsUnique

\* The next token, and two positions behind it that are the same to the lexer.
NextToken(src, l, c) == Token(KindAt(src[l + 1], c + 1), <<l, c>>, LengthAt(src[l + 1], c + 1))
EndOfNext(src, l, c) == Behind(src, l, c + LengthAt(src[l + 1], c + 1))
IsRead(src, l, c, lexed) ==
  lexed = <<NextToken(src, l, c), EndOfNext(src, l, c)>>
    \/ lexed = <<NextToken(src, l, c), Leave(src, EndOfNext(src, l, c))>>

LEMMA KindsOfTokens ==
  ASSUME NEW line, NEW i
  PROVE  /\ line[i] \in Digits => KindAt(line, i) = "number" /\ LengthAt(line, i) = Number(line, i)
         /\ line[i] \in NameStarts =>
              /\ LengthAt(line, i) = Word(line, i, NameChars)
              /\ KindAt(line, i) =
                   IF SubSeq(line, i, i + Word(line, i, NameChars) - 1) \in Keywords
                   THEN "keyword" ELSE "identifier"
         /\ line[i] \in Symbols =>
              /\ KindAt(line, i) = "symbol"
              /\ LengthAt(line, i) = IF <<line[i], NextTo(line, i)>> \in Pairs THEN 2 ELSE 1
<1>1. Digits \cap NameStarts = {} /\ Symbols \cap Digits = {} /\ Symbols \cap NameStarts = {}
  BY KindsOfCharacters DEF NameStarts, NameChars
<1> QED BY <1>1 DEF KindAt, LengthAt, NameStarts

\* Where no keyword is, the others are tried.
LEMMA NoKeyword ==
  ASSUME NEW src \in AllTexts, NEW l \in 0..(Len(src) - 1), NEW c \in 0..(Len(src[l + 1]) - 1),
         \/ src[l + 1][c + 1] \notin Letters
         \/ SubSeq(src[l + 1], c + 1, c + Word(src[l + 1], c + 1, NameChars)) \notin Keywords
  PROVE  LexToken(src, <<l, c>>) = OrSymbol(src, <<l, c>>, LexSymbol(src, <<l, c>>))
<1> DEFINE line == src[l + 1]
           u == Word(line, c + 1, Unseparated)
           p == <<l, c>>
<1>1. line \in Lines
  BY LinesOfText DEF Lines
<1>2. SubSeq(line, c + 1, c + u) \notin Keywords
  <2> SUFFICES ASSUME SubSeq(line, c + 1, c + u) \in Keywords PROVE FALSE
    OBVIOUS
  <2>1. u = Word(line, c + 1, NameChars) /\ line[c + 1] \in Letters
    BY <1>1, KeywordIsAName
  <2> QED BY <2>1
<1>3. LexKeyword(src, p) = <<NoToken, p>>
  BY <1>2, KeywordAttempt
<1> HIDE DEF p
<1>4. LexToken(src, p) = OrSymbol(src, p, LexSymbol(src, p))
  BY <1>3 DEF LexToken, OrKeyword
<1> QED BY <1>4 DEF p

LEMMA ReadsASymbol ==
  ASSUME NEW src \in AllTexts, NEW l \in 0..(Len(src) - 1), NEW c \in 0..(Len(src[l + 1]) - 1),
         src[l + 1][c + 1] \in Symbols
  PROVE  LexToken(src, <<l, c>>) = <<NextToken(src, l, c), EndOfNext(src, l, c)>>
<1> DEFINE line == src[l + 1]
           p == <<l, c>>
           n == LengthAt(line, c + 1)
<1>1. line[c + 1] \notin Letters
  BY KindsOfCharacters DEF NameChars
<1>2. LexToken(src, p) = OrSymbol(src, p, LexSymbol(src, p))
  BY <1>1, NoKeyword
<1>3. n = (IF <<line[c + 1], NextTo(line, c + 1)>> \in Pairs THEN 2 ELSE 1)
      /\ KindAt(line, c + 1) = "symbol"
  BY KindsOfTokens
<1>4. LexSymbol(src, p) = <<Token("symbol", p, n), Behind(src, l, c + n)>>
  BY <1>3, SymbolAttempt
<1> HIDE DEF p, n
<1>5. LexToken(src, p) = <<Token("symbol", p, n), Behind(src, l, c + n)>>
  BY <1>2, <1>4, IsAToken DEF OrSymbol
<1> QED BY <1>3, <1>5 DEF p, n, NextToken, EndOfNext

LEMMA ReadsANumber ==
  ASSUME NEW src \in AllTexts, NEW l \in 0..(Len(src) - 1), NEW c \in 0..(Len(src[l + 1]) - 1),
         src[l + 1][c + 1] \in Digits,
         EndsReadably(NextToken(src, l, c), src[l + 1]), StopsReadably(src, NextToken(src, l, c))
  PROVE  LexToken(src, <<l, c>>) = <<NextToken(src, l, c), Leave(src, EndOfNext(src, l, c))>>
<1> DEFINE line == src[l + 1]
           p == <<l, c>>
           n == LengthAt(line, c + 1)
<1>1. line[c + 1] \notin Letters /\ line[c + 1] \notin Symbols
  BY KindsOfCharacters DEF NameChars
<1>2. LexToken(src, p) = OrSymbol(src, p, LexSymbol(src, p))
  BY <1>1, NoKeyword
<1>3. LexSymbol(src, p) = <<NoToken, p>>
  BY <1>1, SymbolAttempt
<1>4. n = Number(line, c + 1) /\ KindAt(line, c + 1) = "number"
  BY KindsOfTokens
<1>5. /\ c + n < Len(src[l + 1]) => src[l + 1][c + n + 1] # Point
      /\ c + n = Len(src[l + 1]) => NextNot(src, l, Pointed)
  <2>1. EndsReadably(Token("number", p, n), line) /\ StopsReadably(src, Token("number", p, n))
    BY <1>4 DEF NextToken
  <2> QED BY <2>1, ReadableEnds
<1> HIDE DEF n
<1>6. LexNumber(src, p) = <<Token("number", p, n), Leave(src, Behind(src, l, c + n))>>
  BY <1>4, <1>5, NumberAttempt
<1> HIDE DEF p
<1>7. LexToken(src, p) = <<Token("number", p, n), Leave(src, Behind(src, l, c + n))>>
  BY <1>2, <1>3, <1>6, IsAToken DEF OrSymbol, OrNumber
<1> QED BY <1>4, <1>7 DEF p, n, NextToken, EndOfNext

LEMMA ReadsAName ==
  ASSUME NEW src \in AllTexts, NEW l \in 0..(Len(src) - 1), NEW c \in 0..(Len(src[l + 1]) - 1),
         src[l + 1][c + 1] \in NameStarts,
         EndsReadably(NextToken(src, l, c), src[l + 1]), StopsReadably(src, NextToken(src, l, c))
  PROVE  IsRead(src, l, c, LexToken(src, <<l, c>>))
<1> DEFINE line == src[l + 1]
           p == <<l, c>>
           w == Word(line, c + 1, NameChars)
           kind == KindAt(line, c + 1)
<1>1. line \in Lines /\ Len(line) \in Nat
  BY LinesOfText DEF Lines
<1>2. w = LengthAt(line, c + 1)
      /\ kind = IF SubSeq(line, c + 1, c + 1 + w - 1) \in Keywords THEN "keyword" ELSE "identifier"
  BY KindsOfTokens
<1>3. EndsReadably(Token(kind, p, w), line) /\ StopsReadably(src, Token(kind, p, w))
  BY <1>2 DEF NextToken
<1>4. c + 1 + w - 1 = c + w
  <2>1. c + 1 \in 1..(Len(line) + 1) /\ c \in Nat
    BY <1>1
  <2>2. w \in 0..(Len(line) - (c + 1) + 1)
    BY <1>1, <2>1, WordIs
  <2> HIDE DEF w
  <2>3. w \in Nat
    BY <2>2
  <2> QED BY <2>1, <2>3
<1>5. CASE SubSeq(line, c + 1, c + w) \in Keywords
  <2>1. kind = "keyword"
    BY <1>2, <1>4, <1>5
  <2>2. c + w < Len(line) => line[c + w + 1] \in Separators
    BY <1>3, <2>1, ReadableEnds
  <2>3. Word(line, c + 1, Unseparated) = w
    BY <1>1, <2>2, SeparatedName
  <2>4. LexKeyword(src, p) = <<Token("keyword", p, w), Behind(src, l, c + w)>>
    BY <1>5, <2>3, KeywordAttempt
  <2> HIDE DEF p, w, kind
  <2>5. LexToken(src, p) = <<Token("keyword", p, w), Behind(src, l, c + w)>>
    BY <2>4, IsAToken DEF LexToken, OrKeyword
  <2> QED BY <1>2, <2>1, <2>5 DEF p, kind, IsRead, NextToken, EndOfNext
<1>6. CASE SubSeq(line, c + 1, c + w) \notin Keywords
  <2>1. kind = "identifier"
    BY <1>2, <1>4, <1>6
  <2>2. c + w = Len(line) => NextNot(src, l, NameChars)
    BY <1>3, <2>1, ReadableEnds
  <2>3. LexIdentifier(src, p) = <<Token("identifier", p, w), Leave(src, Behind(src, l, c + w))>>
    BY <2>2, IdentifierAttempt
  <2>4. LexNumber(src, p) = <<NoToken, p>>
    BY NoNumber
  <2>5. LexSymbol(src, p) = <<NoToken, p>>
    <3>1. line[c + 1] \notin Symbols
      BY KindsOfCharacters DEF NameStarts, NameChars
    <3> QED BY <3>1, SymbolAttempt
  <2>6. LexToken(src, p) = OrSymbol(src, p, LexSymbol(src, p))
    BY <1>6, NoKeyword
  <2> HIDE DEF p, w, kind
  <2>7. LexToken(src, p) = OrIdentifier(LexIdentifier(src, p))
    BY <2>4, <2>5, <2>6 DEF OrSymbol, OrNumber
  <2>8. LexToken(src, p) = <<Token("identifier", p, w), Leave(src, Behind(src, l, c + w))>>
    BY <2>3, <2>7, IsAToken DEF OrIdentifier
  <2> QED BY <1>2, <2>1, <2>8 DEF p, kind, IsRead, NextToken, EndOfNext
<1> QED BY <1>5, <1>6

LEMMA ReadsTheNext ==
  ASSUME NEW src \in AllTexts, NEW l \in 0..(Len(src) - 1), NEW c \in 0..(Len(src[l + 1]) - 1),
         src[l + 1][c + 1] \notin White,
         EndsReadably(NextToken(src, l, c), src[l + 1]), StopsReadably(src, NextToken(src, l, c))
  PROVE  IsRead(src, l, c, LexToken(src, <<l, c>>))
<1>1. c + 1 \in 1..Len(src[l + 1])
  <2>1. Len(src[l + 1]) \in Nat
    BY LinesOfText
  <2> QED BY <2>1
<1>2. src[l + 1][c + 1] \in Characters
  BY <1>1, LinesOfText
<1>3. src[l + 1][c + 1] \in Symbols \/ src[l + 1][c + 1] \in Digits \/ src[l + 1][c + 1] \in NameStarts
  BY <1>2 DEF Characters, NameChars, NameStarts
<1> QED BY <1>3, ReadsASymbol, ReadsANumber, ReadsAName DEF IsRead

\* The text says all its tokens readably, and there is something behind each //.
ReadableTokens(src, s) ==
  \A i \in DOMAIN s : EndsReadably(s[i], Line(src, s[i].at)) /\ StopsReadably(src, s[i])
NoBareComment(src) == \A l \in DOMAIN src : ~IsSlashes(src[l], Len(src[l]) - 1)
Commented(src) == \E l \in DOMAIN src : \E i \in DOMAIN src[l] : IsSlashes(src[l], i)

\* The first of the tokens s is read, and the others are left behind position q.
IsDelivered(src, s, token, q) ==
  /\ IsPosition(src, q)
  /\ s = <<>> => token = EndOfFile /\ Rest(src, q) = <<>>
  /\ s # <<>> => token = Head(s) /\ Rest(src, q) = Tail(s)

LEMMA FirstOfThree ==
  ASSUME NEW S, NEW t \in S, NEW a \in Seq(S), NEW b \in Seq(S),
         NEW s, s = (<<t>> \o a) \o b
  PROVE  s # <<>> /\ Head(s) = t /\ Tail(s) = a \o b /\ 1 \in DOMAIN s /\ s[1] = t
<1> DEFINE r == a \o b
<1>1. <<t>> \in Seq(S) /\ r \in Seq(S)
  BY ConcatProperties
<1>2. s = <<t>> \o r
  BY <1>1, ConcatAssociative
<1> HIDE DEF r
<1>3. /\ s \in Seq(S) /\ Len(s) = 1 + Len(r) /\ Len(r) \in Nat
      /\ \A i \in 1..(1 + Len(r)) : s[i] = IF i <= 1 THEN <<t>>[i] ELSE r[i - 1]
  <2>1. Len(<<t>>) = 1
    OBVIOUS
  <2>2. Len(r) \in Nat
    BY <1>1, LenProperties
  <2> QED BY <1>1, <1>2, <2>1, <2>2, ConcatProperties
<1>4. s # <<>> /\ DOMAIN s = 1..Len(s) /\ 1 \in 1..Len(s) /\ s[1] = t
  <2>1. s # <<>>
    BY <1>3, EmptySeq
  <2>2. DOMAIN s = 1..Len(s)
    BY <1>3, LenProperties
  <2>3. 1 \in 1..(1 + Len(r)) /\ 1 \in 1..Len(s)
    BY <1>3
  <2>4. s[1] = <<t>>[1]
    BY <1>3, <2>3
  <2> QED BY <2>1, <2>2, <2>3, <2>4
<1>5. Head(s) = t
  BY <1>3, <1>4
<1>6. Tail(s) = r
  <2>1. /\ Tail(s) \in Seq(S) /\ Len(Tail(s)) = Len(s) - 1
        /\ \A i \in 1..Len(Tail(s)) : Tail(s)[i] = s[i + 1]
    BY <1>3, <1>4, HeadTailProperties
  <2>2. Len(Tail(s)) = Len(r)
    BY <1>3, <2>1
  <2>3. ASSUME NEW i \in 1..Len(r) PROVE Tail(s)[i] = r[i]
    <3>1. i + 1 \in 1..(1 + Len(r)) /\ ~(i + 1 <= 1) /\ i + 1 - 1 = i
      BY <1>3
    <3> QED BY <1>3, <2>1, <2>2, <3>1
  <2> DEFINE u == Tail(s)
  <2>4. u \in Seq(S) /\ Len(u) = Len(r) /\ \A i \in 1..Len(u) : u[i] = r[i]
    BY <2>1, <2>2, <2>3
  <2> HIDE DEF u
  <2>5. u = r
    BY <1>1, <2>4, SeqEqual
  <2> QED BY <2>5 DEF u
<1> QED BY <1>4, <1>5, <1>6 DEF r

\* The token that comes next is the first of those that are left.
LEMMA RestOfText ==
  ASSUME NEW src \in AllTexts, NEW l \in 0..(Len(src) - 1), NEW c \in 0..(Len(src[l + 1]) - 1),
         src[l + 1][c + 1] \notin White
  PROVE  LET line == src[l + 1]
             rest == Rest(src, <<l, c>>)
         IN /\ StartsComment(line, c + 1) => rest = Rest(src, <<l + 1, 0>>)
            /\ ~StartsComment(line, c + 1) =>
                 /\ rest # <<>> /\ Head(rest) = NextToken(src, l, c)
                 /\ 1 \in DOMAIN rest /\ rest[1] = NextToken(src, l, c)
                 /\ Tail(rest) = Rest(src, EndOfNext(src, l, c))
                 /\ IsPosition(src, EndOfNext(src, l, c))
<1> DEFINE line == src[l + 1]
           rest == Rest(src, <<l, c>>)
           n == LengthAt(line, c + 1)
           t == NextToken(src, l, c)
           b == TokensFrom(src, l + 1)
<1>1. line \in Lines /\ Len(line) \in Nat /\ Len(src) \in Nat
  BY LinesOfText DEF Lines
<1>2. /\ c + 1 \in 1..Len(line) /\ c + 1 \in 1..(Len(line) + 1) /\ ~(c + 1 > Len(line)) /\ c \in Nat
      /\ c + 1 - 1 = c /\ l + 1 \in 0..Len(src) /\ l \in Nat
  BY <1>1
<1>3. rest = TokensOfLine(line, l, c + 1) \o b
  BY <1>2, RestOfALine
<1>4. b \in Seq(TokenSet)
  BY <1>2, TokensFromType
<1>5. TokensOfLine(line, l, c + 1) =
        IF StartsComment(line, c + 1) THEN <<>> ELSE <<t>> \o TokensOfLine(line, l, c + 1 + n)
  <2>1. t = Token(KindAt(line, c + 1), <<l, c + 1 - 1>>, n)
    BY <1>2 DEF NextToken
  <2>2. line[c + 1] \notin White /\ n = LengthAt(line, c + 1)
    OBVIOUS
  <2> DEFINE i == c + 1
  <2>3. /\ i \in 1..(Len(line) + 1) /\ ~(i > Len(line)) /\ line[i] \notin White
        /\ t = Token(KindAt(line, i), <<l, i - 1>>, n) /\ n = LengthAt(line, i)
    BY <1>2, <2>1, <2>2
  <2> HIDE DEF t, n, line, i
  <2>4. TokensOfLine(line, l, i) =
          IF i > Len(line) THEN <<>>
          ELSE IF line[i] \in White THEN TokensOfLine(line, l, i + 1)
          ELSE IF StartsComment(line, i) THEN <<>>
          ELSE <<Token(KindAt(line, i), <<l, i - 1>>, LengthAt(line, i))>>
                 \o TokensOfLine(line, l, i + LengthAt(line, i))
    BY <1>1, <2>3, TokensOfLineUnfold
  <2>5. TokensOfLine(line, l, i) = IF StartsComment(line, i) THEN <<>> ELSE <<t>> \o TokensOfLine(line, l, i + n)
    BY <2>3, <2>4
  <2> QED BY <2>5 DEF i
<1>6. n \in 1..(Len(line) - (c + 1) + 1)
  BY <1>1, <1>2, LengthFits
<1>7. t \in TokenSet
  <2>1. Token(KindAt(line, c + 1), <<l, c + 1 - 1>>, n) \in TokenSet
    BY <1>1, <1>2, TokensAreTokens
  <2> QED BY <1>2, <2>1 DEF NextToken
<1>8. ASSUME StartsComment(line, c + 1) PROVE rest = Rest(src, <<l + 1, 0>>)
  <2>1. rest = <<>> \o b
    BY <1>3, <1>5, <1>8
  <2>2. rest = b
    BY <1>4, <2>1, ConcatEmptySeq
  <2> QED BY <1>2, <2>2, RestAtStart
<1>9. ASSUME ~StartsComment(line, c + 1)
      PROVE  /\ rest # <<>> /\ Head(rest) = t /\ 1 \in DOMAIN rest /\ rest[1] = t
             /\ Tail(rest) = Rest(src, EndOfNext(src, l, c))
             /\ IsPosition(src, EndOfNext(src, l, c))
  <2> DEFINE e == c + n
             a == TokensOfLine(line, l, e + 1)
  <2> HIDE DEF n
  <2>1. e \in 0..Len(line) /\ e + 1 = c + 1 + n /\ e + 1 \in 1..(Len(line) + 1)
    BY <1>1, <1>2, <1>6
  <2>2. EndOfNext(src, l, c) = Behind(src, l, e)
    BY DEF EndOfNext, n
  <2> HIDE DEF e
  <2>3. IsPosition(src, Behind(src, l, e)) /\ Rest(src, Behind(src, l, e)) = a \o b
    BY <2>1, BehindIsPosition, RestBehind
  <2>4. a \in Seq(TokenSet)
    BY <1>1, <1>2, <2>1, TokensOfLineType
  <2>5. rest = (<<t>> \o a) \o b
    BY <1>3, <1>5, <1>9, <2>1
  <2> HIDE DEF a, b, t, rest
  <2>6. rest # <<>> /\ Head(rest) = t /\ Tail(rest) = a \o b /\ 1 \in DOMAIN rest /\ rest[1] = t
    BY <1>4, <1>7, <2>4, <2>5, FirstOfThree
  <2> QED BY <2>2, <2>3, <2>6
<1> QED BY <1>8, <1>9

\* A comment is two slashes, and something follows them.
LEMMA CommentToken ==
  ASSUME NEW src \in AllTexts, NEW l \in 0..(Len(src) - 1), NEW c \in 0..(Len(src[l + 1]) - 1)
  PROVE  /\ IsComment(src, NextToken(src, l, c)) => StartsComment(src[l + 1], c + 1)
         /\ StartsComment(src[l + 1], c + 1) =>
              /\ IsSlashes(src[l + 1], c + 1) /\ src[l + 1][c + 1] \in Symbols
              /\ IsComment(src, NextToken(src, l, c)) /\ LengthAt(src[l + 1], c + 1) = 2
<1> DEFINE line == src[l + 1]
           t == NextToken(src, l, c)
           n == LengthAt(line, c + 1)
           Slash == "/"
<1>1. line \in Lines /\ Len(line) \in Nat
  BY LinesOfText DEF Lines
<1>2. c + 1 \in 1..Len(line) /\ c \in Nat /\ c + 1 + 1 = c + 2
  BY <1>1
<1>3. t.kind = KindAt(line, c + 1) /\ t.len = n /\ t.at[1] = l /\ t.at[2] = c /\ Line(src, t.at) = line
  BY DEF NextToken, Token, Line
<1>4. IsComment(src, t) <=> t.kind = "symbol" /\ n = 2 /\ line[c + 1] = Slash /\ line[c + 2] = Slash
  <2> HIDE DEF t, n, line
  <2> QED BY <1>3 DEF IsComment
<1>5. StartsComment(line, c + 1) <=> line[c + 1] = Slash /\ c + 1 < Len(line) /\ line[c + 2] = Slash
  <2>1. EOF # Slash
    BY DEF EOF
  <2>2. NextTo(line, c + 1) = IF c + 1 < Len(line) THEN line[c + 2] ELSE EOF
    BY <1>2 DEF NextTo
  <2>3. StartsComment(line, c + 1) <=> line[c + 1] = Slash /\ NextTo(line, c + 1) = Slash
    BY DEF StartsComment
  <2> HIDE DEF line, Slash
  <2> QED BY <2>1, <2>2, <2>3
<1>6. n = 2 => c + 1 < Len(line)
  <2>1. n \in 1..(Len(line) - (c + 1) + 1)
    BY <1>1, <1>2, LengthFits
  <2> HIDE DEF n, line
  <2> QED BY <1>1, <1>2, <2>1
<1>7. ASSUME StartsComment(line, c + 1)
      PROVE  /\ IsSlashes(line, c + 1) /\ line[c + 1] \in Symbols
             /\ IsComment(src, t) /\ n = 2
  <2>1. Slash \in Symbols /\ <<Slash, Slash>> \in Pairs
    BY DEF Symbols, Pairs
  <2>2. line[c + 1] = Slash /\ line[c + 2] = Slash /\ line[c + 1] \in Symbols
    BY <1>5, <1>7, <2>1
  <2>3. <<line[c + 1], NextTo(line, c + 1)>> = <<Slash, Slash>>
    BY <1>7 DEF StartsComment
  <2>4. n = 2 /\ t.kind = "symbol"
    BY <1>3, <2>1, <2>2, <2>3, KindsOfTokens
  <2>5. c + 1 \in 1..(Len(line) - 1)
    <3>1. c + 1 < Len(line)
      BY <1>5, <1>7
    <3> HIDE DEF line
    <3> QED BY <1>1, <1>2, <3>1
  <2>6. IsSlashes(line, c + 1)
    BY <1>2, <2>2, <2>5 DEF IsSlashes
  <2> QED BY <1>4, <2>2, <2>4, <2>6
<1> QED BY <1>4, <1>5, <1>6, <1>7

NextLine(lexed) == BehindComment(lexed)[1]

\* What Lex reads is the next token, or a comment: then the same tokens are left
\* behind its line.
LEMMA LexAtReads ==
  ASSUME NEW src \in AllTexts, NEW p, IsPosition(src, p),
         ReadableTokens(src, Rest(src, p)), NoBareComment(src)
  PROVE  LET lexed == LexAt(src, p)
         IN \/ ~IsComment(src, lexed[1]) /\ IsDelivered(src, Rest(src, p), lexed[1], lexed[2])
            \/ /\ IsComment(src, lexed[1]) /\ Commented(src)
               /\ NextLine(lexed) \in (p[1] + 1)..Len(src)
               /\ BehindComment(lexed) = <<NextLine(lexed), 0>>
               /\ Rest(src, BehindComment(lexed)) = Rest(src, p)
<1> DEFINE q == Run(src, p, Blanks).at
           lexed == LexAt(src, p)
<1>1. /\ IsPosition(src, q) /\ Rest(src, q) = Rest(src, p) /\ q[1] >= p[1]
      /\ CharAt(src, q) \notin Blanks
  BY BehindBlanks
<1>2. lexed = IF Char(src, q) = EOF THEN <<EndOfFile, q>> ELSE LexToken(src, q)
  BY DEF LexAt, OrEndOfFile
<1> HIDE DEF q
<1>3. CASE Char(src, q) = EOF /\ Rest(src, q) = <<>>
  <2>1. lexed[1] = EndOfFile /\ lexed[2] = q
    BY <1>2, <1>3
  <2>2. ~IsComment(src, EndOfFile)
    BY DEF IsComment, EndOfFile, Token
  <2>3. Rest(src, p) = <<>>
    BY <1>1, <1>3
  <2> QED BY <1>1, <1>3, <2>1, <2>2, <2>3 DEF IsDelivered
<1>4. CASE /\ q = <<q[1], q[2]>> /\ q[1] \in 0..(Len(src) - 1)
           /\ q[2] \in 0..(Len(src[q[1] + 1]) - 1)
           /\ src[q[1] + 1][q[2] + 1] \notin White
           /\ Char(src, q) # EOF
  <2> DEFINE l == q[1]
             c == q[2]
             line == src[l + 1]
             t == NextToken(src, l, c)
             r == EndOfNext(src, l, c)
             rest == Rest(src, <<l, c>>)
  <2>1. /\ q = <<l, c>> /\ l \in 0..(Len(src) - 1) /\ c \in 0..(Len(line) - 1)
        /\ line[c + 1] \notin White /\ lexed = LexToken(src, <<l, c>>)
    BY <1>2, <1>4
  <2>2. rest = Rest(src, p) /\ p[1] \in Nat /\ l >= p[1]
    BY <1>1, <2>1, LeaveIsPosition
  <2>3. line \in Lines /\ Len(line) \in Nat /\ Len(src) \in Nat
    BY <2>1, LinesOfText DEF Lines
  <2> HIDE DEF l, c
  <2>4. /\ StartsComment(line, c + 1) => rest = Rest(src, <<l + 1, 0>>)
        /\ ~StartsComment(line, c + 1) =>
             /\ rest # <<>> /\ Head(rest) = t /\ 1 \in DOMAIN rest /\ rest[1] = t
             /\ Tail(rest) = Rest(src, r) /\ IsPosition(src, r)
    BY <2>1, RestOfText
  <2>5. CASE StartsComment(line, c + 1)
    <3>1. /\ IsSlashes(line, c + 1) /\ line[c + 1] \in Symbols
          /\ IsComment(src, t) /\ LengthAt(line, c + 1) = 2
      BY <2>1, <2>5, CommentToken
    <3>2. lexed = <<t, r>>
      BY <2>1, <3>1, ReadsASymbol
    <3>3. l + 1 \in DOMAIN src /\ l + 1 \in 1..Len(src)
      BY <2>1, <2>3, LinesOfText
    <3>4. c + 2 < Len(line)
      <4>1. c + 1 # Len(line) - 1
        BY <3>1, <3>3 DEF NoBareComment
      <4>2. c + 1 \in 1..(Len(line) - 1)
        BY <3>1 DEF IsSlashes
      <4> HIDE DEF line
      <4> QED BY <2>1, <2>3, <4>1, <4>2
    <3>5. r = <<l, c + 2>>
      BY <3>1, <3>4 DEF EndOfNext, Behind
    <3>6. BehindComment(lexed) = <<l + 1, 0>>
      <4> HIDE DEF r, t
      <4>1. lexed[2] = <<l, c + 2>>
        BY <3>2, <3>5
      <4> HIDE DEF lexed
      <4> QED BY <4>1 DEF BehindComment
    <3>7. c + 1 \in DOMAIN line
      BY <2>1, <2>3, LenProperties DEF Lines
    <3>8. Commented(src)
      BY <3>1, <3>3, <3>7 DEF Commented
    <3>9. NextLine(lexed) = l + 1 /\ l + 1 \in (p[1] + 1)..Len(src)
      <4>1. NextLine(lexed) = l + 1
        BY <3>6 DEF NextLine
      <4>2. l \in Nat
        BY <2>1
      <4> QED BY <2>2, <2>3, <3>3, <4>1, <4>2
    <3>10. lexed[1] = t
      BY <3>2
    <3> QED BY <2>2, <2>4, <2>5, <3>1, <3>6, <3>8, <3>9, <3>10
  <2>6. CASE ~StartsComment(line, c + 1)
    <3>1. /\ rest # <<>> /\ Head(rest) = t /\ 1 \in DOMAIN rest /\ rest[1] = t
          /\ Tail(rest) = Rest(src, r) /\ IsPosition(src, r)
      BY <2>4, <2>6
    <3>2. EndsReadably(t, Line(src, t.at)) /\ StopsReadably(src, t)
      BY <2>2, <3>1 DEF ReadableTokens
    <3>3. Line(src, t.at) = line
      BY DEF NextToken, Token, Line
    <3>4. lexed = <<t, r>> \/ lexed = <<t, Leave(src, r)>>
      <4>1. IsRead(src, l, c, lexed)
        BY <2>1, <3>2, <3>3, ReadsTheNext
      <4> QED BY <4>1 DEF IsRead
    <3>5. ~IsComment(src, t)
      BY <2>1, <2>6, CommentToken
    <3>6. IsPosition(src, Leave(src, r)) /\ Rest(src, Leave(src, r)) = Rest(src, r)
      BY <3>1, LeaveIsPosition
    <3> HIDE DEF r, t, rest, lexed
    <3>7. lexed[1] = t /\ (lexed[2] = r \/ lexed[2] = Leave(src, r))
      BY <3>4
    <3>8. IsDelivered(src, rest, lexed[1], lexed[2])
      BY <3>1, <3>6, <3>7 DEF IsDelivered
    <3> QED BY <2>2, <3>5, <3>7, <3>8 DEF lexed
  <2> QED BY <2>5, <2>6
<1> QED BY <1>1, <1>3, <1>4, NoBlankHere

-----------------------------------------------------------------------------
(* Reading over comments *)

LEMMA ReadablePart ==
  ASSUME NEW src \in AllTexts, NEW s \in Seq(TokenSet), NEW t \in Seq(TokenSet),
         ReadableTokens(src, s \o t)
  PROVE  ReadableTokens(src, t)
<1> DEFINE both == s \o t
<1>1. /\ both \in Seq(TokenSet) /\ Len(both) = Len(s) + Len(t) /\ Len(s) \in Nat /\ Len(t) \in Nat
      /\ \A i \in 1..(Len(s) + Len(t)) : both[i] = IF i <= Len(s) THEN s[i] ELSE t[i - Len(s)]
  BY ConcatProperties, LenProperties
<1>2. DOMAIN both = 1..(Len(s) + Len(t)) /\ DOMAIN t = 1..Len(t)
  BY <1>1, LenProperties
<1>3. ReadableTokens(src, both)
  OBVIOUS
<1> HIDE DEF both
<1>4. ASSUME NEW i \in DOMAIN t
      PROVE  Len(s) + i \in DOMAIN both /\ both[Len(s) + i] = t[i]
  <2>1. i \in 1..Len(t) /\ i \in Nat
    BY <1>2
  <2>2. Len(s) + i \in 1..(Len(s) + Len(t)) /\ ~(Len(s) + i <= Len(s)) /\ Len(s) + i - Len(s) = i
    BY <1>1, <2>1
  <2> QED BY <1>1, <1>2, <2>2
<1> QED BY <1>3, <1>4 DEF ReadableTokens

LEMMA LinesAreReadable ==
  ASSUME NEW src \in AllTexts, ReadableTokens(src, TokensOf(src))
  PROVE  \A l \in 0..Len(src) : ReadableTokens(src, TokensFrom(src, l))
<1> DEFINE Good == {l \in Nat : l <= Len(src) => ReadableTokens(src, TokensFrom(src, l))}
<1>1. Len(src) \in Nat
  BY LinesOfText
<1>2. 0 \in Good
  BY DEF TokensOf
<1>3. ASSUME NEW n \in Nat \ {0}, n - 1 \in Good PROVE n \in Good
  <2> SUFFICES ASSUME n <= Len(src) PROVE ReadableTokens(src, TokensFrom(src, n))
    OBVIOUS
  <2> DEFINE l == n - 1
  <2>1. l \in 0..(Len(src) - 1) /\ l + 1 = n /\ l # Len(src) /\ l \in 0..Len(src) /\ n \in 0..Len(src) /\ l \in Nat /\ l <= Len(src)
    BY <1>1
  <2>2. ReadableTokens(src, TokensFrom(src, l))
    BY <1>3, <2>1
  <2> HIDE DEF l
  <2>3. TokensFrom(src, l) = TokensOfLine(src[l + 1], l, 1) \o TokensFrom(src, l + 1)
    BY <2>1, TokensFromUnfold
  <2>4. src[l + 1] \in Lines /\ 1 \in 1..(Len(src[l + 1]) + 1)
    BY <2>1, LinesOfText DEF Lines
  <2>5. TokensOfLine(src[l + 1], l, 1) \in Seq(TokenSet)
    BY <2>1, <2>4, TokensOfLineType
  <2>6. TokensFrom(src, n) \in Seq(TokenSet)
    BY <2>1, TokensFromType
  <2> QED BY <2>1, <2>2, <2>3, <2>5, <2>6, ReadablePart
<1> HIDE DEF Good
<1>4. Nat \subseteq Good
  BY <1>2, <1>3, Induction
<1> QED BY <1>1, <1>4 DEF Good

\* A comment sends the lexer on to a later line.
GoesOn(src) ==
  \A l \in 0..(Len(src) + 1) :
    LET lexed == LexAt(src, <<l, 0>>)
    IN IsComment(src, lexed[1]) => NextLine(lexed) \in (l + 1)..Len(src)

LEMMA BehindTheText ==
  ASSUME NEW src \in AllTexts
  PROVE  LexAt(src, <<Len(src) + 1, 0>>) = <<EndOfFile, <<Len(src) + 1, 0>>>>
<1> DEFINE p == <<Len(src) + 1, 0>>
<1>1. Len(src) \in Nat /\ Size(src) \in Nat
  BY LinesOfText, BeforeCounts
<1>2. ~(p[1] < Len(src)) /\ p[1] >= Len(src)
  BY <1>1
<1> HIDE DEF p
<1>3. Leave(src, p) = p
  BY <1>2 DEF Leave
<1>4. CharAt(src, p) = EOF
  BY <1>2 DEF CharAt
<1>5. Char(src, p) = EOF
  BY <1>3, <1>4 DEF Char
<1>6. Walk(src, p)[0] = p
  BY WalkUnfold
<1>7. /\ Char(src, Walk(src, p)[0]) \notin Blanks
      /\ \A k \in 0..(0 - 1) : Char(src, Walk(src, p)[k]) \in Blanks
  <2>1. Char(src, Walk(src, p)[0]) \notin Blanks
    BY <1>5, <1>6, KindsOfCharacters
  <2>2. \A k \in 0..(0 - 1) : FALSE
    OBVIOUS
  <2> QED BY <2>1, <2>2
<1>8. Run(src, p, Blanks) = [at |-> Leave(src, Walk(src, p)[0]), len |-> 0]
  <2>1. 0 \in 0..Size(src)
    BY <1>1
  <2> QED BY <1>7, <2>1, RunEnds
<1>9. Run(src, p, Blanks).at = p
  BY <1>3, <1>6, <1>8
<1>10. LexAt(src, p) = <<EndOfFile, p>>
  BY <1>5, <1>9 DEF LexAt, OrEndOfFile
<1> QED BY <1>10 DEF p

LEMMA CommentsGoOn ==
  ASSUME NEW src \in AllTexts, ReadableTokens(src, TokensOf(src)), NoBareComment(src)
  PROVE  GoesOn(src)
<1>1. Len(src) \in Nat
  BY LinesOfText
<1>2. ASSUME NEW l \in 0..Len(src), IsComment(src, LexAt(src, <<l, 0>>)[1])
      PROVE  NextLine(LexAt(src, <<l, 0>>)) \in (l + 1)..Len(src)
  <2> DEFINE p == <<l, 0>>
  <2>1. Rest(src, p) = TokensFrom(src, l)
    BY RestAtStart
  <2>2. ReadableTokens(src, Rest(src, p))
    BY <2>1, LinesAreReadable
  <2>3. IsPosition(src, p) /\ p[1] = l
    BY DEF IsPosition
  <2> HIDE DEF p
  <2>4. IsComment(src, LexAt(src, p)[1]) => NextLine(LexAt(src, p)) \in (p[1] + 1)..Len(src)
    BY <2>2, <2>3, LexAtReads
  <2> QED BY <1>2, <2>3, <2>4 DEF p
<1>3. ~IsComment(src, LexAt(src, <<Len(src) + 1, 0>>)[1])
  <2>1. ~IsComment(src, EndOfFile)
    BY DEF IsComment, EndOfFile, Token
  <2>2. LexAt(src, <<Len(src) + 1, 0>>)[1] = EndOfFile
    BY BehindTheText
  <2> QED BY <2>1, <2>2
<1>4. \A l \in 0..(Len(src) + 1) : l \in 0..Len(src) \/ l = Len(src) + 1
  BY <1>1
<1> QED BY <1>2, <1>3, <1>4 DEF GoesOn

LinesStep(src, lex, l) ==
  LET lexed == LexAt(src, <<l, 0>>)
  IN IF IsComment(src, lexed[1]) THEN lex[BehindComment(lexed)[1]]
     ELSE [at |-> lexed[2], token |-> lexed[1]]

LEMMA LexLinesExist ==
  ASSUME NEW src \in AllTexts, GoesOn(src)
  PROVE  \E lex : lex = [l \in 0..(Len(src) + 1) |-> LinesStep(src, lex, l)]
<1> DEFINE N == Len(src) + 1
           Good == {d \in Nat : d <= N => \E f : f = [l \in (N - d)..N |-> LinesStep(src, f, l)]}
<1>1. N \in Nat /\ Len(src) \in Nat /\ N = Len(src) + 1
  BY LinesOfText
<1>2. ASSUME NEW l \in 0..N, IsComment(src, LexAt(src, <<l, 0>>)[1])
      PROVE  NextLine(LexAt(src, <<l, 0>>)) \in (l + 1)..N
  <2>1. NextLine(LexAt(src, <<l, 0>>)) \in (l + 1)..Len(src)
    BY <1>2 DEF GoesOn
  <2> QED BY <1>1, <2>1
<1> HIDE DEF N
<1>3. 0 \in Good
  <2>1. \A f, g : LinesStep(src, f, N) = LinesStep(src, g, N)
    <3>1. ~IsComment(src, LexAt(src, <<N, 0>>)[1])
      <4>1. N \in 0..N /\ ~(\E m \in (N + 1)..N : TRUE)
        BY <1>1
      <4> QED BY <1>2, <4>1
    <3> QED BY <3>1 DEF LinesStep
  <2> DEFINE f == [l \in N..N |-> LinesStep(src, <<>>, N)]
  <2>2. \A l \in N..N : l = N
    BY <1>1
  <2>3. ASSUME NEW l \in N..N PROVE f[l] = LinesStep(src, f, l)
    BY <2>1, <2>2
  <2>4. f = [l \in N..N |-> LinesStep(src, f, l)]
    BY <2>3
  <2>5. N - 0 = N
    BY <1>1
  <2> HIDE DEF f
  <2> QED BY <2>4, <2>5
<1>4. ASSUME NEW d \in Nat \ {0}, d - 1 \in Good PROVE d \in Good
  <2> SUFFICES ASSUME d <= N PROVE \E f : f = [l \in (N - d)..N |-> LinesStep(src, f, l)]
    OBVIOUS
  <2> DEFINE b == N - d
  <2>1. b \in 0..(N - 1) /\ d - 1 <= N /\ N - (d - 1) = b + 1
    BY <1>1
  <2>2. PICK g : g = [l \in (b + 1)..N |-> LinesStep(src, g, l)]
    BY <1>4, <2>1
  <2> HIDE DEF b
  <2> DEFINE h == [l \in b..N |-> IF l > b THEN g[l] ELSE LinesStep(src, g, b)]
  <2>3. ASSUME NEW l \in b..N PROVE h[l] = LinesStep(src, h, l)
    <3>1. LinesStep(src, h, l) = LinesStep(src, g, l)
      <4>1. CASE ~IsComment(src, LexAt(src, <<l, 0>>)[1])
        BY <4>1 DEF LinesStep
      <4>2. CASE IsComment(src, LexAt(src, <<l, 0>>)[1])
        <5> DEFINE m == NextLine(LexAt(src, <<l, 0>>))
        <5>1. l \in 0..N
          BY <1>1, <2>1
        <5>2. m \in (l + 1)..N
          BY <1>2, <4>2, <5>1
        <5> HIDE DEF m
        <5>3. m \in b..N /\ m > b
          BY <1>1, <2>1, <5>2
        <5>4. h[m] = g[m]
          BY <5>3
        <5> HIDE DEF h
        <5>5. LinesStep(src, h, l) = h[m] /\ LinesStep(src, g, l) = g[m]
          BY <4>2 DEF LinesStep, m, NextLine
        <5> QED BY <5>4, <5>5
      <4> QED BY <4>1, <4>2
    <3>2. l > b => l \in (b + 1)..N
      BY <1>1, <2>1
    <3>3. l > b => g[l] = LinesStep(src, g, l)
      BY <2>2, <3>2
    <3>4. ~(l > b) => l = b
      BY <1>1, <2>1
    <3> QED BY <3>1, <3>3, <3>4
  <2>4. h = [l \in b..N |-> LinesStep(src, h, l)]
    BY <2>3
  <2> QED BY <2>4 DEF b
<1> HIDE DEF Good
<1>5. N \in Good
  <2>1. Nat \subseteq Good
    BY <1>3, <1>4, Induction
  <2> QED BY <1>1, <2>1
<1>6. N <= N /\ N - N = 0
  BY <1>1
<1> QED BY <1>5, <1>6 DEF Good, N

LEMMA LexLinesUnfold ==
  ASSUME NEW src \in AllTexts, GoesOn(src), NEW l \in 0..Len(src)
  PROVE  LET lexed == LexAt(src, <<l, 0>>)
         IN LexLines(src, l) =
              IF IsComment(src, lexed[1]) THEN LexLines(src, NextLine(lexed))
              ELSE [at |-> lexed[2], token |-> lexed[1]]
<1> DEFINE lex == CHOOSE g : g = [k \in 0..(Len(src) + 1) |-> LinesStep(src, g, k)]
<1>1. lex = [k \in 0..(Len(src) + 1) |-> LinesStep(src, lex, k)]
  BY LexLinesExist
<1>2. \A k : LexLines(src, k) = lex[k]
  BY DEF LexLines, OrNextLine, LinesStep
<1> HIDE DEF lex
<1>3. l \in 0..(Len(src) + 1)
  BY LinesOfText
<1>4. lex[l] = LinesStep(src, lex, l)
  BY <1>1, <1>3
<1>5. LinesStep(src, lex, l) =
        LET lexed == LexAt(src, <<l, 0>>)
        IN IF IsComment(src, lexed[1]) THEN lex[NextLine(lexed)]
           ELSE [at |-> lexed[2], token |-> lexed[1]]
  BY DEF LinesStep, NextLine
<1> QED BY <1>2, <1>4, <1>5

\* The text of s and of its tokens, as the theorems assume it.
LEMMA ReadableTexts ==
  ASSUME NEW s, Readable(s)
  PROVE  /\ s.lines \in AllTexts /\ ReadableTokens(s.lines, TokensOf(s.lines))
         /\ NoBareComment(s.lines)
         /\ s.peek = 1 \/ (s.peek \in Nat /\ ~Commented(s.lines))
<1>1. s.lines \in AllTexts /\ NoBareComment(s.lines)
  BY DEF Readable, AllTexts, NoBareComment
<1>2. ReadableTokens(s.lines, TokensOf(s.lines))
  BY DEF Readable, ReadableTokens
<1>3. s.peek = 1 \/ (s.peek \in Nat /\ ~Commented(s.lines))
  BY DEF Readable, Commented
<1> QED BY <1>1, <1>2, <1>3

LEMMA LexLinesReads ==
  ASSUME NEW src \in AllTexts, ReadableTokens(src, TokensOf(src)), NoBareComment(src)
  PROVE  \A l \in 0..Len(src) :
           IsDelivered(src, TokensFrom(src, l), LexLines(src, l).token, LexLines(src, l).at)
<1> DEFINE Is(l) == IsDelivered(src, TokensFrom(src, l), LexLines(src, l).token, LexLines(src, l).at)
           Good == {l \in 0..Len(src) : Is(l)}
<1>1. Len(src) \in Nat
  BY LinesOfText
<1>2. GoesOn(src)
  BY CommentsGoOn
<1>3. ASSUME NEW l \in 0..Len(src), \A j \in (l + 1)..Len(src) : j \in Good
      PROVE  l \in Good
  <2> DEFINE p == <<l, 0>>
             lexed == LexAt(src, p)
             rest == TokensFrom(src, l)
             m == NextLine(lexed)
  <2>1. LexLines(src, l) = IF IsComment(src, lexed[1]) THEN LexLines(src, m)
                           ELSE [at |-> lexed[2], token |-> lexed[1]]
    BY <1>2, LexLinesUnfold
  <2>2. IsPosition(src, p) /\ p[1] = l
    BY DEF IsPosition
  <2>3. Rest(src, p) = rest /\ ReadableTokens(src, rest)
    BY LinesAreReadable, RestAtStart
  <2> HIDE DEF p
  <2>4. \/ ~IsComment(src, lexed[1]) /\ IsDelivered(src, rest, lexed[1], lexed[2])
        \/ /\ IsComment(src, lexed[1]) /\ m \in (l + 1)..Len(src)
           /\ BehindComment(lexed) = <<m, 0>> /\ Rest(src, BehindComment(lexed)) = rest
    BY <2>2, <2>3, LexAtReads
  <2> HIDE DEF lexed, m, rest
  <2>5. CASE ~IsComment(src, lexed[1]) /\ IsDelivered(src, rest, lexed[1], lexed[2])
    <3>1. LexLines(src, l).token = lexed[1] /\ LexLines(src, l).at = lexed[2]
      BY <2>1, <2>5
    <3>2. Is(l)
      BY <2>5, <3>1 DEF rest
    <3> QED BY <3>2
  <2>6. CASE /\ IsComment(src, lexed[1]) /\ m \in (l + 1)..Len(src)
             /\ BehindComment(lexed) = <<m, 0>> /\ Rest(src, BehindComment(lexed)) = rest
    <3>1. LexLines(src, l) = LexLines(src, m)
      BY <2>1, <2>6
    <3>2. m \in Good
      BY <1>3, <2>6
    <3>3. m \in 0..Len(src)
      BY <1>1, <2>6
    <3>4. Rest(src, <<m, 0>>) = TokensFrom(src, m)
      BY <3>3, RestAtStart
    <3>5. TokensFrom(src, m) = rest
      BY <2>6, <3>4
    <3>6. IsDelivered(src, rest, LexLines(src, m).token, LexLines(src, m).at)
      BY <3>2, <3>5
    <3>7. Is(l)
      BY <3>1, <3>6 DEF rest
    <3> QED BY <3>7
  <2> QED BY <2>4, <2>5, <2>6
<1> HIDE DEF Good
<1>4. 0..Len(src) \subseteq Good
  BY <1>1, <1>3, Backwards
<1> QED BY <1>4 DEF Good

\* Lex reads the first of the tokens that are left, where nothing is buffered or
\* no comment is in the way.
LEMMA ReadingReads ==
  ASSUME NEW src \in AllTexts, ReadableTokens(src, TokensOf(src)), NoBareComment(src),
         NEW x, IsPosition(src, x.at), ReadableTokens(src, Rest(src, x.at)),
         x.buffer = <<>> \/ ~Commented(src)
  PROVE  /\ Reading(src, x).buffer = x.buffer
         /\ IsDelivered(src, Rest(src, x.at), Reading(src, x).token, Reading(src, x).at)
<1> DEFINE p == x.at
           lexed == LexAt(src, p)
           m == NextLine(lexed)
           y == Reading(src, x)
<1>1. Len(src) \in Nat
  BY LinesOfText
<1>2. \/ ~IsComment(src, lexed[1]) /\ IsDelivered(src, Rest(src, p), lexed[1], lexed[2])
      \/ /\ IsComment(src, lexed[1]) /\ Commented(src) /\ m \in (p[1] + 1)..Len(src)
         /\ BehindComment(lexed) = <<m, 0>> /\ Rest(src, BehindComment(lexed)) = Rest(src, p)
  BY LexAtReads
<1>3. p[1] \in Nat
  BY LeaveIsPosition
<1>4. y = LET read == IF IsComment(src, lexed[1]) THEN LexLines(src, m)
                      ELSE [at |-> lexed[2], token |-> lexed[1]]
          IN IF IsComment(src, lexed[1]) /\ x.buffer # <<>> THEN Taken(x, BehindComment(lexed))
             ELSE [at |-> read.at, buffer |-> x.buffer, token |-> read.token]
  BY DEF Reading, OrBehindComment, Kept, Taken, NextLine
<1> HIDE DEF p, lexed, m, y
<1>5. CASE ~IsComment(src, lexed[1]) /\ IsDelivered(src, Rest(src, p), lexed[1], lexed[2])
  <2>1. y.buffer = x.buffer /\ y.token = lexed[1] /\ y.at = lexed[2]
    BY <1>4, <1>5
  <2> QED BY <1>5, <2>1 DEF y, p
<1>6. CASE /\ IsComment(src, lexed[1]) /\ Commented(src) /\ m \in (p[1] + 1)..Len(src)
           /\ BehindComment(lexed) = <<m, 0>> /\ Rest(src, BehindComment(lexed)) = Rest(src, p)
  <2>1. m \in 0..Len(src)
    BY <1>1, <1>3, <1>6
  <2>2. IsDelivered(src, TokensFrom(src, m), LexLines(src, m).token, LexLines(src, m).at)
    BY <2>1, LexLinesReads
  <2>3. TokensFrom(src, m) = Rest(src, p)
    <3>1. Rest(src, <<m, 0>>) = TokensFrom(src, m)
      BY <2>1, RestAtStart
    <3> QED BY <1>6, <3>1
  <2>4. x.buffer = <<>>
    BY <1>6
  <2>5. y.buffer = x.buffer /\ y.token = LexLines(src, m).token /\ y.at = LexLines(src, m).at
    BY <1>4, <1>6, <2>4
  <2> QED BY <2>2, <2>3, <2>5 DEF y, p
<1> QED BY <1>2, <1>5, <1>6

-----------------------------------------------------------------------------
(* What the parser has seen, and what is left *)

AnyToken == TokenSet \cup {EndOfFile}

\* The tokens s are the first ones of the text, and the others follow position p.
SeenSoFar(src, s, p) ==
  /\ IsPosition(src, p)
  /\ s \in Seq(AnyToken)
  /\ \A i \in 1..Len(s) :
       s[i] = IF i <= Len(TokensOf(src)) THEN TokensOf(src)[i] ELSE EndOfFile
  /\ Rest(src, p) = SubSeq(TokensOf(src), Len(s) + 1, Len(TokensOf(src)))

LEMMA WhatIsLeft ==
  ASSUME NEW src \in AllTexts, NEW s, NEW p, SeenSoFar(src, s, p)
  PROVE  LET all == TokensOf(src)
             rest == Rest(src, p)
         IN /\ all \in Seq(TokenSet) /\ Len(all) \in Nat /\ Len(s) \in Nat
            /\ Len(s) < Len(all) => /\ rest # <<>> /\ Head(rest) = all[Len(s) + 1]
                                    /\ Tail(rest) = SubSeq(all, Len(s) + 2, Len(all))
            /\ Len(s) >= Len(all) => rest = <<>>
            /\ ReadableTokens(src, all) => ReadableTokens(src, rest)
<1> DEFINE all == TokensOf(src)
           rest == Rest(src, p)
           k == Len(s) + 1
           N == Len(all)
<1>1. all \in Seq(TokenSet)
  <2>1. 0 \in 0..Len(src)
    BY LinesOfText
  <2> QED BY <2>1, TokensFromType DEF TokensOf
<1>2. N \in Nat /\ DOMAIN all = 1..N
  BY <1>1, LenProperties
<1>3. Len(s) \in Nat
  BY LenProperties DEF SeenSoFar
<1>4. rest = SubSeq(all, k, N)
  BY DEF SeenSoFar
<1> HIDE DEF all, rest
<1>5. ASSUME Len(s) < N
      PROVE  rest # <<>> /\ Head(rest) = all[Len(s) + 1] /\ Tail(rest) = SubSeq(all, Len(s) + 2, N)
  <2>1. k \in 1..N /\ N \in k..N /\ k + 1 = Len(s) + 2 /\ k \in Int /\ k <= N
    BY <1>2, <1>3, <1>5
  <2>2. \A i \in k..N : all[i] \in TokenSet
    <3>1. \A i \in k..N : i \in 1..N
      BY <1>2, <2>1
    <3> QED BY <1>1, <3>1, ElementOfSeq
  <2>3. Head(rest) = all[k] /\ Tail(rest) = SubSeq(all, k + 1, N)
    BY <1>1, <1>4, <2>1, HeadTailOfSubSeq
  <2>4. Len(rest) = N - k + 1
    BY <1>2, <1>4, <2>1, <2>2, SubSeqProperties
  <2>5. Len(rest) # 0
    BY <1>2, <2>1, <2>4
  <2>6. rest # <<>>
    BY <2>5
  <2> QED BY <2>1, <2>3, <2>6
<1>6. ASSUME Len(s) >= N PROVE rest = <<>>
  <2>1. N < k /\ k \in Int /\ N \in Int
    BY <1>2, <1>3, <1>6
  <2> QED BY <1>4, <2>1, SubSeqEmpty
<1>7. ASSUME ReadableTokens(src, all) PROVE ReadableTokens(src, rest)
  <2>1. k \in Int /\ N \in Int /\ k >= 1
    BY <1>2, <1>3
  <2>2. \A i \in k..N : i \in 1..N /\ all[i] \in TokenSet
    <3>1. \A i \in k..N : i \in 1..N
      BY <1>2, <2>1
    <3> QED BY <1>1, <3>1, ElementOfSeq
  <2>3. /\ rest \in Seq(TokenSet)
        /\ Len(rest) = IF k <= N THEN N - k + 1 ELSE 0
        /\ \A i \in 1..(N - k + 1) : rest[i] = all[k + i - 1]
    BY <1>4, <2>1, <2>2, SubSeqProperties
  <2>4. ASSUME NEW i \in DOMAIN rest PROVE \E j \in DOMAIN all : rest[i] = all[j]
    <3>1. i \in 1..Len(rest)
      BY <2>3, LenProperties
    <3>3. k <= N /\ Len(rest) = N - k + 1
      <4>1. ~(k <= N) => Len(rest) = 0
        BY <2>3
      <4>2. Len(rest) # 0
        BY <3>1
      <4> QED BY <2>3, <4>1, <4>2
    <3>2. i \in 1..(N - k + 1) /\ k + i - 1 \in 1..N
      <4> HIDE DEF k, N
      <4> QED BY <2>1, <3>1, <3>3
    <3> QED BY <1>2, <2>3, <3>2
  <2> QED BY <1>7, <2>4 DEF ReadableTokens
<1> QED BY <1>1, <1>2, <1>3, <1>5, <1>6, <1>7 DEF all, rest

LEMMA DeliveredIsAToken ==
  ASSUME NEW src \in AllTexts, NEW p, IsPosition(src, p), NEW token, NEW q,
         IsDelivered(src, Rest(src, p), token, q)
  PROVE  token \in AnyToken
<1>1. Rest(src, p) \in Seq(TokenSet)
  BY RestType
<1>2. CASE Rest(src, p) = <<>>
  BY <1>2 DEF IsDelivered, AnyToken
<1>3. CASE Rest(src, p) # <<>>
  <2>1. Head(Rest(src, p)) \in TokenSet
    BY <1>1, <1>3, HeadTailProperties
  <2> QED BY <1>3, <2>1 DEF IsDelivered, AnyToken
<1> QED BY <1>2, <1>3

\* One more token is seen.
LEMMA SeesOneMore ==
  ASSUME NEW src \in AllTexts, NEW s, NEW p, SeenSoFar(src, s, p),
         NEW token, NEW q, IsDelivered(src, Rest(src, p), token, q)
  PROVE  SeenSoFar(src, Append(s, token), q)
<1> DEFINE all == TokensOf(src)
           rest == Rest(src, p)
           N == Len(all)
           t == Append(s, token)
<1>1. /\ all \in Seq(TokenSet) /\ N \in Nat /\ Len(s) \in Nat
      /\ Len(s) < N => /\ rest # <<>> /\ Head(rest) = all[Len(s) + 1]
                       /\ Tail(rest) = SubSeq(all, Len(s) + 2, N)
      /\ Len(s) >= N => rest = <<>>
  BY WhatIsLeft
<1>2. /\ IsPosition(src, q)
      /\ rest = <<>> => token = EndOfFile /\ Rest(src, q) = <<>>
      /\ rest # <<>> => token = Head(rest) /\ Rest(src, q) = Tail(rest)
  BY DEF IsDelivered
<1>3. /\ IsPosition(src, p) /\ s \in Seq(AnyToken)
      /\ \A i \in 1..Len(s) : s[i] = IF i <= N THEN all[i] ELSE EndOfFile
  BY DEF SeenSoFar
<1>4. token \in AnyToken
  BY <1>3, DeliveredIsAToken
<1>5. /\ t \in Seq(AnyToken) /\ Len(t) = Len(s) + 1
      /\ \A i \in 1..Len(s) : t[i] = s[i]
      /\ t[Len(s) + 1] = token
  BY <1>3, <1>4, AppendProperties
<1> HIDE DEF all, rest, t
<1>6. token = IF Len(s) + 1 <= N THEN all[Len(s) + 1] ELSE EndOfFile
  <2>1. Len(s) + 1 <= N <=> Len(s) < N
    BY <1>1
  <2>2. ~(Len(s) < N) => Len(s) >= N
    BY <1>1
  <2> QED BY <1>1, <1>2, <2>1, <2>2
<1>7. \A i \in 1..Len(t) : t[i] = IF i <= N THEN all[i] ELSE EndOfFile
  <2> TAKE i \in 1..Len(t)
  <2>1. i \in 1..Len(s) \/ i = Len(s) + 1
    BY <1>1, <1>5
  <2> QED BY <1>3, <1>5, <1>6, <2>1
<1>8. Rest(src, q) = SubSeq(all, Len(t) + 1, N)
  <2>1. Len(t) + 1 = Len(s) + 2 /\ Len(s) + 2 \in Int /\ N \in Int
    BY <1>1, <1>5
  <2>2. CASE Len(s) < N
    BY <1>1, <1>2, <2>1, <2>2
  <2>3. CASE ~(Len(s) < N)
    <3>1. Len(s) >= N /\ N < Len(s) + 2
      BY <1>1, <2>3
    <3>2. SubSeq(all, Len(s) + 2, N) = <<>>
      BY <2>1, <3>1, SubSeqEmpty
    <3> QED BY <1>1, <1>2, <2>1, <3>1, <3>2
  <2> QED BY <2>2, <2>3
<1> QED BY <1>2, <1>5, <1>7, <1>8 DEF SeenSoFar, all, t

-----------------------------------------------------------------------------
(* The buffer *)

FillStep(src, x, first, fill, i) ==
  IF i <= first THEN x ELSE Buffered(LexIn(src, fill[i - 1], TRUE))

LEMMA FillExists ==
  ASSUME NEW src, NEW x, NEW first \in Nat, NEW n \in Nat
  PROVE  \E fill : fill = [i \in 0..n |-> FillStep(src, x, first, fill, i)]
<1> DEFINE Good == {k \in Nat : \E f : f = [i \in 0..k |-> FillStep(src, x, first, f, i)]}
<1>1. 0 \in Good
  <2>1. [i \in 0..0 |-> x] = [i \in 0..0 |-> FillStep(src, x, first, [j \in 0..0 |-> x], i)]
    BY DEF FillStep
  <2> QED BY <2>1
<1>2. ASSUME NEW k \in Nat \ {0}, k - 1 \in Good PROVE k \in Good
  <2>1. PICK g : g = [i \in 0..(k - 1) |-> FillStep(src, x, first, g, i)]
    BY <1>2
  <2> DEFINE h == [i \in 0..k |-> IF i < k THEN g[i] ELSE FillStep(src, x, first, g, k)]
  <2>2. ASSUME NEW i \in 0..k PROVE h[i] = FillStep(src, x, first, h, i)
    <3>1. i # 0 => i - 1 \in 0..k /\ h[i - 1] = g[i - 1]
      OBVIOUS
    <3>2. i = 0 => i <= first
      OBVIOUS
    <3>3. FillStep(src, x, first, h, i) = FillStep(src, x, first, g, i)
      BY <3>1, <3>2 DEF FillStep
    <3>4. i < k => i \in 0..(k - 1)
      OBVIOUS
    <3>5. i < k => g[i] = FillStep(src, x, first, g, i)
      BY <2>1, <3>4
    <3>6. ~(i < k) => i = k
      OBVIOUS
    <3> QED BY <3>3, <3>5, <3>6
  <2>3. h = [i \in 0..k |-> FillStep(src, x, first, h, i)]
    BY <2>2
  <2> QED BY <2>3
<1> HIDE DEF Good
<1>3. n \in Good
  BY <1>1, <1>2, Induction
<1> QED BY <1>3 DEF Good

\* The tokens that are given to the parser and those that are buffered for it.
LEMMA SeesOneBehind ==
  ASSUME NEW g \in Seq(AnyToken), NEW b \in Seq(AnyToken), NEW t \in AnyToken
  PROVE  g \o Append(b, t) = Append(g \o b, t)
<1>1. Append(b, t) = b \o <<t>> /\ g \o b \in Seq(AnyToken) /\ <<t>> \in Seq(AnyToken)
  BY AppendIsConcat, ConcatProperties
<1>2. Append(g \o b, t) = (g \o b) \o <<t>>
  BY <1>1, AppendIsConcat
<1>3. (g \o b) \o <<t>> = g \o (b \o <<t>>)
  BY <1>1, ConcatAssociative
<1> QED BY <1>1, <1>2, <1>3

\* One round of the loop of LookAhead.
LEMMA BuffersOne ==
  ASSUME NEW src \in AllTexts, ReadableTokens(src, TokensOf(src)), NoBareComment(src),
         NEW x, NEW g \in Seq(AnyToken), x.buffer \in Seq(AnyToken),
         SeenSoFar(src, g \o x.buffer, x.at), x.buffer = <<>> \/ ~Commented(src)
  PROVE  LET y == Buffered(LexIn(src, x, TRUE))
         IN /\ y.buffer \in Seq(AnyToken) /\ SeenSoFar(src, g \o y.buffer, y.at)
            /\ Len(y.buffer) = Len(x.buffer) + 1
<1> DEFINE r == Reading(src, x)
           y == Buffered(LexIn(src, x, TRUE))
<1>1. IsPosition(src, x.at) /\ ReadableTokens(src, Rest(src, x.at))
  BY WhatIsLeft DEF SeenSoFar
<1>2. r.buffer = x.buffer /\ IsDelivered(src, Rest(src, x.at), r.token, r.at)
  BY <1>1, ReadingReads
<1>3. LexIn(src, x, TRUE) = r
  BY DEF LexIn
<1> HIDE DEF r
<1>4. y.at = r.at /\ y.buffer = Append(x.buffer, r.token)
  BY <1>2, <1>3 DEF Buffered
<1> HIDE DEF y
<1>5. r.token \in AnyToken
  BY <1>1, <1>2, DeliveredIsAToken
<1>6. y.buffer \in Seq(AnyToken) /\ Len(y.buffer) = Len(x.buffer) + 1
  BY <1>4, <1>5, AppendProperties
<1>7. SeenSoFar(src, Append(g \o x.buffer, r.token), r.at)
  BY <1>2, SeesOneMore
<1>8. g \o y.buffer = Append(g \o x.buffer, r.token)
  BY <1>4, <1>5, SeesOneBehind
<1> QED BY <1>4, <1>6, <1>7, <1>8 DEF y

\* The whole loop.
LEMMA FillReads ==
  ASSUME NEW src \in AllTexts, ReadableTokens(src, TokensOf(src)), NoBareComment(src),
         NEW x, NEW g \in Seq(AnyToken), x.buffer \in Seq(AnyToken),
         SeenSoFar(src, g \o x.buffer, x.at),
         NEW n \in Nat, n >= Len(x.buffer), n <= 1 \/ ~Commented(src)
  PROVE  LET y == Fill(src, x, n)
         IN /\ y.buffer \in Seq(AnyToken) /\ SeenSoFar(src, g \o y.buffer, y.at)
            /\ Len(y.buffer) = n
<1> DEFINE first == Len(x.buffer)
           fill == CHOOSE f : f = [i \in 0..n |-> FillStep(src, x, first, f, i)]
           Is(y, m) == /\ y.buffer \in Seq(AnyToken) /\ SeenSoFar(src, g \o y.buffer, y.at)
                       /\ Len(y.buffer) = m
           Good == {i \in Nat : i <= n => Is(fill[i], IF i <= first THEN first ELSE i)}
<1>1. first \in Nat
  BY LenProperties
<1>2. Fill(src, x, n) = fill[n]
  BY DEF Fill, FillFrom, FillStep
<1>3. Is(x, first)
  OBVIOUS
<1>4. n >= first
  OBVIOUS
<1> HIDE DEF first
<1>5. fill = [i \in 0..n |-> FillStep(src, x, first, fill, i)]
  <2>1. \E f : f = [i \in 0..n |-> FillStep(src, x, first, f, i)]
    BY <1>1, FillExists
  <2> QED BY <2>1
<1> HIDE DEF fill
<1>6. \A i \in 0..n : fill[i] = IF i <= first THEN x ELSE Buffered(LexIn(src, fill[i - 1], TRUE))
  BY <1>5 DEF FillStep
<1>7. 0 \in Good
  <2>1. 0 \in 0..n /\ 0 <= first
    BY <1>1
  <2>2. fill[0] = x
    BY <1>6, <2>1
  <2> QED BY <1>3, <2>1, <2>2
<1>8. ASSUME NEW i \in Nat \ {0}, i - 1 \in Good PROVE i \in Good
  <2> SUFFICES ASSUME i <= n PROVE Is(fill[i], IF i <= first THEN first ELSE i)
    OBVIOUS
  <2>1. i \in 0..n /\ i - 1 <= n
    OBVIOUS
  <2>2. CASE i <= first
    BY <1>3, <1>6, <2>1, <2>2
  <2>3. CASE ~(i <= first)
    <3> DEFINE z == fill[i - 1]
               y == Buffered(LexIn(src, z, TRUE))
    <3>1. (IF i - 1 <= first THEN first ELSE i - 1) = i - 1
      BY <1>1, <2>3
    <3>2. Is(z, i - 1)
      BY <1>8, <2>1, <3>1
    <3>3. fill[i] = y
      BY <1>6, <2>1, <2>3
    <3> HIDE DEF z
    <3>4. z.buffer = <<>> \/ ~Commented(src)
      <4> SUFFICES ASSUME Commented(src) PROVE z.buffer = <<>>
        OBVIOUS
      <4>1. i - 1 = 0
        BY <2>1
      <4>2. Len(z.buffer) = 0
        BY <3>2, <4>1
      <4> QED BY <3>2, <4>2, EmptySeq
    <3>5. /\ y.buffer \in Seq(AnyToken) /\ SeenSoFar(src, g \o y.buffer, y.at)
          /\ Len(y.buffer) = Len(z.buffer) + 1
      BY <3>2, <3>4, BuffersOne
    <3> HIDE DEF y
    <3>6. Len(y.buffer) = i
      BY <3>2, <3>5
    <3> QED BY <2>3, <3>3, <3>5, <3>6
  <2> QED BY <2>2, <2>3
<1>9. Is(fill[n], IF n <= first THEN first ELSE n)
  <2> HIDE DEF Good
  <2>1. n \in Good
    BY <1>7, <1>8, Induction
  <2> QED BY <2>1 DEF Good
<1>10. (IF n <= first THEN first ELSE n) = n
  BY <1>1, <1>4
<1> QED BY <1>2, <1>9, <1>10

-----------------------------------------------------------------------------
(* The lexer *)

\* What the parser has been given and what is buffered for it are the first tokens
\* of the text, and the lexer stands before the others.
IInv ==
  /\ source \in Sources
  /\ given \in Seq(AnyToken)
  /\ buffer \in Seq(AnyToken)
  /\ SeenSoFar(Text, given \o buffer, at)

LEMMA StartsAtTheFirst ==
  ASSUME NEW src \in AllTexts
  PROVE  SeenSoFar(src, <<>>, <<0, 0>>)
<1>1. Len(src) \in Nat /\ 0 \in 0..Len(src)
  BY LinesOfText
<1>2. IsPosition(src, <<0, 0>>)
  BY <1>1 DEF IsPosition
<1>3. TokensOf(src) \in Seq(TokenSet) /\ Rest(src, <<0, 0>>) = TokensOf(src)
  BY <1>1, TokensFromType, RestAtStart DEF TokensOf
<1>4. <<>> \in Seq(AnyToken) /\ Len(<<>>) = 0 /\ ~(\E i \in 1..0 : TRUE) /\ 0 + 1 = 1
  BY EmptySeq
<1>5. Rest(src, <<0, 0>>) = SubSeq(TokensOf(src), 1, Len(TokensOf(src)))
  BY <1>3, SubSeqFull
<1> QED BY <1>2, <1>4, <1>5 DEF SeenSoFar

LEMMA InitIInv ==
  ASSUME \A s \in Sources : Readable(s), Init
  PROVE  IInv
<1> DEFINE src == source.lines
           x == [at |-> <<0, 0>>, buffer |-> <<>>]
           y == Fill(src, x, 1)
<1>1. source \in Sources /\ at = y.at /\ buffer = y.buffer /\ given = <<>>
  BY DEF Init
<1>2. src \in AllTexts /\ ReadableTokens(src, TokensOf(src)) /\ NoBareComment(src)
  BY <1>1, ReadableTexts
<1>3. x.at = <<0, 0>> /\ x.buffer = <<>> /\ <<>> \in Seq(AnyToken) /\ Len(<<>>) = 0
  BY EmptySeq
<1> HIDE DEF src, x
<1>4. <<>> \o x.buffer = <<>> /\ x.buffer \in Seq(AnyToken)
  BY <1>3, ConcatEmptySeq
<1>5. SeenSoFar(src, <<>> \o x.buffer, x.at)
  BY <1>2, <1>3, <1>4, StartsAtTheFirst
<1>6. 1 \in Nat /\ 1 >= Len(x.buffer) /\ 1 <= 1
  BY <1>3
<1>7. y.buffer \in Seq(AnyToken) /\ SeenSoFar(src, <<>> \o y.buffer, y.at)
  BY <1>2, <1>3, <1>4, <1>5, <1>6, FillReads
<1> HIDE DEF y
<1> QED BY <1>1, <1>3, <1>7 DEF IInv, Text, src

LEMMA LexStep ==
  ASSUME \A s \in Sources : Readable(s), IInv, Lex
  PROVE  IInv'
<1> DEFINE src == source.lines
           x == State
           y == LexIn(src, x, FALSE)
<1>1. /\ source \in Sources /\ given \in Seq(AnyToken) /\ buffer \in Seq(AnyToken)
      /\ SeenSoFar(src, given \o buffer, at)
  BY DEF IInv, Text
<1>2. /\ at' = y.at /\ buffer' = y.buffer /\ given' = Append(given, y.token) /\ source' = source
  BY DEF Lex, Text
<1>3. src \in AllTexts /\ ReadableTokens(src, TokensOf(src)) /\ NoBareComment(src)
  BY <1>1, ReadableTexts
<1>4. x.at = at /\ x.buffer = buffer
  BY DEF State
<1>5. y = IF x.buffer # <<>> THEN Taken(x, x.at) ELSE Reading(src, x)
  BY DEF LexIn
<1>6. source'.lines = src
  BY <1>2
<1> HIDE DEF src, x, y
<1>7. CASE buffer # <<>>
  <2>1. y.at = at /\ y.buffer = Tail(buffer) /\ y.token = Head(buffer)
    BY <1>4, <1>5, <1>7 DEF Taken
  <2>2. Head(buffer) \in AnyToken /\ Tail(buffer) \in Seq(AnyToken)
    BY <1>1, <1>7, HeadTailProperties
  <2>3. Append(given, Head(buffer)) \in Seq(AnyToken)
    BY <1>1, <2>2, AppendProperties
  <2>4. Append(given, Head(buffer)) \o Tail(buffer) = given \o buffer
    BY <1>1, <1>7, MoveHead
  <2> QED BY <1>1, <1>2, <1>6, <2>1, <2>2, <2>3, <2>4 DEF IInv, Text
<1>8. CASE buffer = <<>>
  <2> DEFINE r == Reading(src, x)
  <2>1. y = r /\ given \o buffer = given
    BY <1>1, <1>4, <1>5, <1>8, ConcatEmptySeq
  <2>2. SeenSoFar(src, given, x.at)
    BY <1>1, <1>4, <2>1
  <2>3. IsPosition(src, x.at) /\ ReadableTokens(src, Rest(src, x.at))
    BY <1>3, <2>2, WhatIsLeft DEF SeenSoFar
  <2>4. r.buffer = x.buffer /\ IsDelivered(src, Rest(src, x.at), r.token, r.at)
    BY <1>3, <1>4, <1>8, <2>3, ReadingReads
  <2> HIDE DEF r
  <2>5. SeenSoFar(src, Append(given, r.token), r.at)
    BY <1>3, <2>2, <2>4, SeesOneMore
  <2>6. Append(given, r.token) \in Seq(AnyToken)
    BY <2>5 DEF SeenSoFar
  <2>7. Append(given, r.token) \o <<>> = Append(given, r.token) /\ <<>> \in Seq(AnyToken)
    BY <2>6, ConcatEmptySeq, EmptySeq
  <2>8. buffer' = <<>> /\ given' = Append(given, r.token) /\ at' = r.at
    BY <1>2, <1>4, <1>8, <2>1, <2>4
  <2> QED BY <1>1, <1>2, <1>6, <2>5, <2>6, <2>7, <2>8 DEF IInv, Text
<1> QED BY <1>7, <1>8

\* LookAhead buffers as many tokens as it is asked for.
LEMMA LookAheadStep ==
  ASSUME \A s \in Sources : Readable(s), IInv, NEW n \in 1..source.peek, LookAhead(n)
  PROVE  IInv' /\ Len(buffer') = n
<1> DEFINE src == source.lines
           x == State
           y == Fill(src, x, n)
<1>1. /\ source \in Sources /\ given \in Seq(AnyToken) /\ buffer \in Seq(AnyToken)
      /\ SeenSoFar(src, given \o buffer, at)
  BY DEF IInv, Text
<1>2. at' = y.at /\ buffer' = y.buffer /\ given' = given /\ source' = source /\ n > Len(buffer)
  BY DEF LookAhead, Text
<1>3. /\ src \in AllTexts /\ ReadableTokens(src, TokensOf(src)) /\ NoBareComment(src)
      /\ source.peek = 1 \/ (source.peek \in Nat /\ ~Commented(src))
  BY <1>1, ReadableTexts
<1>4. x.at = at /\ x.buffer = buffer
  BY DEF State
<1>5. source'.lines = src
  BY <1>2
<1> HIDE DEF src, x
<1>6. n \in Nat /\ n >= Len(x.buffer) /\ (n <= 1 \/ ~Commented(src))
  <2>1. Len(buffer) \in Nat
    BY <1>1, LenProperties
  <2> QED BY <1>2, <1>3, <1>4, <2>1
<1>7. x.buffer \in Seq(AnyToken) /\ SeenSoFar(src, given \o x.buffer, x.at)
  BY <1>1, <1>4
<1>8. /\ y.buffer \in Seq(AnyToken) /\ SeenSoFar(src, given \o y.buffer, y.at)
      /\ Len(y.buffer) = n
  BY <1>1, <1>3, <1>6, <1>7, FillReads
<1> HIDE DEF y
<1> QED BY <1>1, <1>2, <1>5, <1>8 DEF IInv, Text

LEMMA NextIInv ==
  ASSUME \A s \in Sources : Readable(s), IInv, [Next]_vars
  PROVE  IInv'
<1>1. CASE Lex
  BY <1>1, LexStep
<1>2. CASE \E n \in 1..source.peek : LookAhead(n)
  BY <1>2, LookAheadStep
<1>3. CASE UNCHANGED vars
  BY <1>3 DEF IInv, Text, vars
<1> QED BY <1>1, <1>2, <1>3 DEF Next, Done

\* Every text that the lexer can read: what the parser is given, in any order of
\* looking ahead and taking, are the tokens of the text, and then the end of the
\* file (Lex and LookAhead of Lexer.cpp).
THEOREM TokensAreDelivered ==
  ASSUME \A s \in Sources : Readable(s)
  PROVE  Spec => []DeliversTheTokens
<1>1. IInv => DeliversTheTokens
  <2> SUFFICES ASSUME IInv PROVE DeliversTheTokens
    OBVIOUS
  <2> DEFINE seen == given \o buffer
  <2>1. /\ seen \in Seq(AnyToken)
        /\ \A i \in 1..Len(seen) :
             seen[i] = IF i <= Len(TokensOf(Text)) THEN TokensOf(Text)[i] ELSE EndOfFile
    BY DEF IInv, SeenSoFar
  <2> HIDE DEF seen
  <2>2. DOMAIN seen = 1..Len(seen)
    BY <2>1, LenProperties
  <2> QED BY <2>1, <2>2 DEF DeliversTheTokens, seen
<1>2. Init => IInv
  BY InitIInv
<1>3. IInv /\ [Next]_vars => IInv'
  BY NextIInv
<1> QED BY <1>1, <1>2, <1>3, PTL DEF Spec

\* However far the parser looks ahead, LookAhead has the token in the buffer that it
\* returns (the loop in LookAhead).
THEOREM LookAheadFillsTheBuffer ==
  ASSUME \A s \in Sources : Readable(s)
  PROVE  Spec => FillsTheBuffer
<1> DEFINE Filled == \A n \in 1..source.peek : LookAhead(n) => Len(buffer') >= n
<1>1. IInv => Filled
  <2> SUFFICES ASSUME IInv, NEW n \in 1..source.peek, LookAhead(n) PROVE Len(buffer') >= n
    OBVIOUS
  <2>1. Len(buffer') = n
    BY LookAheadStep
  <2> QED BY <2>1
<1>2. Init => IInv
  BY InitIInv
<1>3. IInv /\ [Next]_vars => IInv'
  BY NextIInv
<1>4. Spec => [][Filled]_vars
  <2> HIDE DEF Filled
  <2> QED BY <1>1, <1>2, <1>3, PTL DEF Spec
<1> QED BY <1>4 DEF FillsTheBuffer
=============================================================================
