----------------------------- MODULE PreProcessor -----------------------------
(***************************************************************************)
(* The preprocessor (src/frontend/preprocessor/PreProcessor.cpp), which    *)
(* rewrites the lines of the source in place.  A directive is a record, a  *)
(* line of text is a sequence of characters, in which a macro is searched  *)
(* for as a substring.                                                     *)
(***************************************************************************)
EXTENDS Integers, Sequences, SequencesExt, TLC

CONSTANTS
  Programs,  \* the lines of the main file
  Files,     \* file |-> lines
  Ids,       \* the names of macros, in their order in DefinedMacros
  Letters    \* of which names consist

VARIABLES
  program,  \* the main file, as it was
  lines,    \* Source
  index,    \* LineIdx, from 1
  macros,   \* DefinedMacros: name |-> [params, body]
  todo,     \* the names SubstituteMacros has not looked at
  pc        \* "line", "replace", "done" or "aborted"

vars == <<program, lines, index, macros, todo, pc>>

TextLine(text) == [kind |-> "text", text |-> text]

\* find(): the first position of word in text, 0 if there is none.
Find(text, word) ==
  LET at == {i \in 1..(Len(text) - Len(word) + 1) :
               SubSeq(text, i, i + Len(word) - 1) = word}
  IN IF at = {} THEN 0 ELSE CHOOSE i \in at : \A j \in at : i <= j

\* n characters at i are replaced.
Replace(text, i, n, by) ==
  SubSeq(text, 1, i - 1) \o by \o SubSeq(text, i + n, Len(text))

\* while (find(...) != npos) replace(...)
RECURSIVE SubstituteAll(_, _, _)
SubstituteAll(text, word, by) ==
  LET i == Find(text, word) IN
  IF i = 0 THEN text ELSE SubstituteAll(Replace(text, i, Len(word), by), word, by)

\* $0, $1, ..., which are taken for one character of a body.
Parameter(i) == "$" \o ToString(i - 1)

\* Mutation: a macro without a body is defined as its name.
BodyOrName(d) == IF d.body = <<>> THEN d.id ELSE d.body

\* The parameters in the body become their numbers.
BodyOf(d) ==
  LET numbered[i \in 0..Len(d.params)] ==
        IF i = 0 THEN d.body
        ELSE SubstituteAll(numbered[i - 1], d.params[i], <<Parameter(i)>>)
  IN numbered[Len(d.params)]

\* The arguments are cut from what follows the parenthesis: start is that of
\* the next argument.  Every separator is searched for from the beginning; if it
\* lies before the start, the length wraps around, and the argument is the rest.
ArgumentsIn(rest, n) ==
  LET cut[i \in 0..n] ==
        IF i = 0 THEN [start |-> 1, args |-> <<>>]
        ELSE LET start == cut[i - 1].start
                 end == Find(rest, IF i < n THEN <<",">> ELSE <<")">>)
                 last == IF end = 0 \/ end < start THEN Len(rest) ELSE end - 1
             IN [start |-> end + 1, args |-> Append(cut[i - 1].args, SubSeq(rest, start, last))]
  IN cut[n]

\* Mutation: one character too many is replaced.
WithoutCallAndNext(text, i, id, cut) ==
  [from |-> i, n |-> Len(id) + cut.start + 1]

\* What is replaced: the name, the parenthesis and up to the closing one.
WithoutCall(text, i, id, cut) ==
  [from |-> i, n |-> Len(id) + cut.start]

SubstituteFunction(text, id, macro) ==
  LET i == Find(text, id)
      cut == ArgumentsIn(SubSeq(text, i + Len(id) + 1, Len(text)), Len(macro.params))
      body[p \in 0..Len(macro.params)] ==
        IF p = 0 THEN macro.body
        ELSE SubstituteAll(body[p - 1], <<Parameter(p)>>, cut.args[p])
      call == WithoutCall(text, i, id, cut)
  IN Replace(text, call.from, call.n, body[Len(macro.params)])

-----------------------------------------------------------------------------

Init ==
  /\ program \in Programs
  /\ lines = program
  /\ index = 1
  /\ macros = <<>>
  /\ todo = <<>>
  /\ pc = "line"

Line == lines[index]
AtLine == pc = "line" /\ index <= Len(lines)

SkipEmptyLine ==
  /\ AtLine /\ Line = TextLine(<<>>)
  /\ index' = index + 1
  /\ UNCHANGED <<program, lines, macros, todo, pc>>

\* The directive is erased, and what follows has its index.
Define ==
  /\ AtLine /\ Line.kind = "define"
  /\ macros' = [id \in DOMAIN macros \cup {Line.id} |->
                  IF id = Line.id THEN [params |-> Line.params, body |-> BodyOf(Line)]
                  ELSE macros[id]]
  /\ lines' = RemoveAt(lines, index)
  /\ UNCHANGED <<program, index, todo, pc>>

Include ==
  /\ AtLine /\ Line.kind = "include" /\ Line.file \in DOMAIN Files
  /\ lines' = SubSeq(lines, 1, index - 1) \o Files[Line.file]
                \o SubSeq(lines, index + 1, Len(lines))
  /\ UNCHANGED <<program, index, macros, todo, pc>>

CannotOpenFile ==
  /\ AtLine /\ Line.kind = "include" /\ Line.file \notin DOMAIN Files
  /\ pc' = "aborted"
  /\ UNCHANGED <<program, lines, index, macros, todo>>

SubstituteMacros ==
  /\ AtLine /\ Line.kind = "text" /\ Line.text # <<>>
  /\ todo' = SelectSeq(Ids, LAMBDA id : id \in DOMAIN macros)
  /\ pc' = "replace"
  /\ UNCHANGED <<program, lines, index, macros>>

Id == Head(todo)
Macro == macros[Id]
Found == pc = "replace" /\ todo # <<>> /\ Find(Line.text, Id) # 0

ReplacePlain ==
  /\ Found /\ Macro.params = <<>>
  /\ lines' = [lines EXCEPT ![index].text =
                 Replace(@, Find(@, Id), Len(Id), Macro.body)]
  /\ UNCHANGED <<program, index, macros, todo, pc>>

Called ==
  LET i == Find(Line.text, Id) + Len(Id)
  IN i <= Len(Line.text) /\ Line.text[i] = "("

\* A function macro is replaced once.
ReplaceFunction ==
  /\ Found /\ Macro.params # <<>> /\ Called
  /\ lines' = [lines EXCEPT ![index].text = SubstituteFunction(@, Id, Macro)]
  /\ todo' = Tail(todo)
  /\ UNCHANGED <<program, index, macros, pc>>

\* assert(Line[Pos] == '(')
NotCalled ==
  /\ Found /\ Macro.params # <<>> /\ ~Called
  /\ pc' = "aborted"
  /\ UNCHANGED <<program, lines, index, macros, todo>>

NextMacro ==
  /\ pc = "replace" /\ todo # <<>> /\ ~Found
  /\ todo' = Tail(todo)
  /\ UNCHANGED <<program, lines, index, macros, pc>>

NextLine ==
  /\ pc = "replace" /\ todo = <<>>
  /\ index' = index + 1
  /\ pc' = "line"
  /\ UNCHANGED <<program, lines, macros, todo>>

Finish ==
  /\ pc = "line" /\ index > Len(lines)
  /\ pc' = "done"
  /\ UNCHANGED <<program, lines, index, macros, todo>>

Stopped == pc \in {"done", "aborted"} /\ UNCHANGED vars

\* Both steps are enabled exactly then, and always change something.
Rewrite == Define \/ ReplaceFunction
MustRewrite ==
  \/ AtLine /\ Line.kind = "define"
  \/ Found /\ Macro.params # <<>> /\ Called

Go ==
  \/ SkipEmptyLine \/ Include \/ CannotOpenFile \/ SubstituteMacros
  \/ ReplacePlain \/ NotCalled \/ NextMacro \/ NextLine \/ Finish

Next == Rewrite \/ Go \/ Stopped

\* The program runs on: weak fairness of every step, for Rewrite in terms of
\* what enables it.
Spec ==
  /\ Init /\ [][Next]_vars
  /\ WF_vars(Go)
  /\ []<>~MustRewrite \/ []<><<Rewrite>>_vars

-----------------------------------------------------------------------------
(* What C says: a name is replaced where it stands for itself, and what      *)
(* replaced it is scanned again.                                             *)

NameAt(text, i) ==
  CHOOSE n \in 0..(Len(text) - i + 1) :
    /\ \A k \in i..(i + n - 1) : text[k] \in Letters
    /\ i + n > Len(text) \/ text[i + n] \notin Letters

\* How many parentheses between i and k are open at k.
Depth(text, i, k) ==
  Cardinality({j \in i..k : text[j] = "("}) - Cardinality({j \in i..k : text[j] = ")"})

\* The arguments of a call whose parenthesis is at i, and where it is closed.
CallAt(text, i) ==
  LET close == CHOOSE k \in i..Len(text) :
                 Depth(text, i, k) = 0 /\ \A l \in i..(k - 1) : Depth(text, i, l) > 0
      commas == {k \in (i + 1)..(close - 1) : text[k] = "," /\ Depth(text, i, k) = 1}
      bound(k) == k \in commas \cup {i, close}
      starts == SetToSortSeq({k + 1 : k \in commas \cup {i}}, LAMBDA x, y : x < y)
  IN [close |-> close,
      args |-> [a \in DOMAIN starts |->
                  SubSeq(text, starts[a],
                         (CHOOSE k \in starts[a]..close :
                            bound(k) /\ \A l \in starts[a]..(k - 1) : ~bound(l)) - 1)]]

\* The body of a macro, in which every name of a parameter is its argument.
BodyWith(macro, args) ==
  LET body == macro.body
      Alone(k) == \A j \in {k - 1, k + 1} \cap DOMAIN body : body[j] \notin Letters
      Stands(k, p) == Alone(k) /\ <<body[k]>> = macro.params[p]
      value(k) == IF \E p \in DOMAIN macro.params : Stands(k, p)
                  THEN args[CHOOSE p \in DOMAIN macro.params : Stands(k, p)]
                  ELSE <<body[k]>>
  IN FlattenSeq([k \in DOMAIN body |-> value(k)])

RECURSIVE Expanded(_, _, _)
Expanded(text, i, defined) ==
  IF i > Len(text) THEN text
  ELSE IF text[i] \notin Letters THEN Expanded(text, i + 1, defined)
  ELSE LET n == NameAt(text, i)
           id == SubSeq(text, i, i + n - 1)
       IN IF id \notin DOMAIN defined
             \/ (defined[id].params # <<>> /\ (i + n > Len(text) \/ text[i + n] # "("))
          THEN Expanded(text, i + n, defined)
          ELSE IF defined[id].params = <<>>
          THEN Expanded(Replace(text, i, n, defined[id].body), i, defined)
          ELSE LET call == CallAt(text, i + n)
               IN Expanded(Replace(text, i, call.close - i + 1,
                                   BodyWith(defined[id], call.args)), i, defined)

RECURSIVE Preprocessed(_, _)
Preprocessed(source, defined) ==
  IF source = <<>> THEN <<>>
  ELSE LET line == Head(source) IN
       CASE line.kind = "define" ->
              Preprocessed(Tail(source),
                [id \in DOMAIN defined \cup {line.id} |->
                   IF id = line.id THEN line ELSE defined[id]])
         [] line.kind = "include" ->
              IF line.file \notin DOMAIN Files THEN <<>>
              ELSE Preprocessed(Files[line.file] \o Tail(source), defined)
         [] OTHER -> <<TextLine(Expanded(line.text, 1, defined))>>
                       \o Preprocessed(Tail(source), defined)

-----------------------------------------------------------------------------
(* Properties *)

\* The lines in front of the index are the beginning of what C makes of the
\* file: no directive is left or skipped, an included file stands where its
\* directive was, a macro counts from its definition on and every use of it has
\* been replaced.  That is so for the files in which a line calls a function
\* macro at most once, with at most two arguments and no parentheses in them,
\* the names of macros and parameters are in no other name, and the body of a
\* macro names later ones only: the code looks for the characters of a name and
\* for the first comma and parenthesis.
FinishedLinesAreExpanded ==
  IsPrefix(SubSeq(lines, 1, index - 1), Preprocessed(program, <<>>))

\* A file cannot be opened, or a function macro is named and not called.
MayAbort ==
  \E i \in DOMAIN program :
    \/ program[i].kind = "include" /\ program[i].file \notin DOMAIN Files
    \/ program[i].kind = "text" /\ \E id \in ToSet(Ids) :
         LET k == Find(program[i].text, id) + Len(id)
         IN k > Len(id) /\ (k > Len(program[i].text) \/ program[i].text[k] # "(")

\* The preprocessor comes to an end, if no macro stands for itself.  It has then
\* seen the whole file, unless it had a reason to stop.
Terminates ==
  <>(\/ pc = "done" /\ Len(lines) = Len(Preprocessed(program, <<>>))
     \/ pc = "aborted" /\ MayAbort)
=============================================================================
