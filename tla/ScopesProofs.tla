----------------------------- MODULE ScopesProofs -----------------------------
(***************************************************************************)
(* The types of the variables of Scopes: the parser's stack of tables is   *)
(* in step with the scopes that are open.  Every use of a name is resolved *)
(* as C does where no declaration hides another one and a name stands for  *)
(* one entry.                                                              *)
(***************************************************************************)
EXTENDS Scopes, TLAPS

PartialFunctions(D, S) == UNION {[N -> S] : N \in SUBSET D}

TableSet == [entries : SUBSET Entries, last : PartialFunctions(Names, Entries)]
DeclarationSet == [entry : Entries, id : Nat]
Kinds == {"file", "parameters", "function", "block", "for"}
IncrementSet == [entry : SUBSET Entries, name : Names \cup {NoName}]
ScopeSet ==
  [kind : Kinds, table : Nat, names : PartialFunctions(Names, DeclarationSet),
   increment : IncrementSet]

TableOK(t) ==
  /\ DOMAIN t.last = {e.name : e \in t.entries}
  /\ \A n \in DOMAIN t.last : t.last[n] \in t.entries /\ t.last[n].name = n

-----------------------------------------------------------------------------
(* The operators *)

\* g is f with v at k.
IsWith(g, f, k, v) ==
  /\ DOMAIN g = DOMAIN f \cup {k}
  /\ g[k] = v
  /\ \A x \in DOMAIN f : x # k => g[x] = f[x]

\* With adds one name to a partial function, and changes no other.
LEMMA WithType ==
  \A D, S, f, k, v :
    f \in PartialFunctions(D, S) /\ k \in D /\ v \in S =>
      /\ With(f, k, v) \in PartialFunctions(D, S)
      /\ IsWith(With(f, k, v), f, k, v)
<1> SUFFICES ASSUME NEW D, NEW S, NEW f \in PartialFunctions(D, S),
                    NEW k \in D, NEW v \in S
             PROVE  /\ With(f, k, v) \in PartialFunctions(D, S)
                    /\ IsWith(With(f, k, v), f, k, v)
  OBVIOUS
<1>1. PICK N \in SUBSET D : f \in [N -> S]
  BY DEF PartialFunctions
<1>2. With(f, k, v) \in [N \cup {k} -> S]
  BY <1>1 DEF With
<1>3. N \cup {k} \in SUBSET D
  OBVIOUS
<1>4. IsWith(With(f, k, v), f, k, v)
  BY <1>1 DEF With, IsWith
<1> QED
  BY <1>1, <1>2, <1>3, <1>4 DEF PartialFunctions

\* A partial function is one on its domain.
LEMMA PartialFunction ==
  ASSUME NEW D, NEW S, NEW f \in PartialFunctions(D, S)
  PROVE  /\ DOMAIN f \subseteq D
         /\ \A x \in DOMAIN f : f[x] \in S
  BY DEF PartialFunctions

\* The table without names is a partial function into any set.
LEMMA NoNamesType ==
  ASSUME NEW D, NEW S
  PROVE  NoNames \in PartialFunctions(D, S) /\ DOMAIN NoNames = {}
<1>1. NoNames \in [{} -> S]
  BY DEF NoNames
<1>2. {} \in SUBSET D
  OBVIOUS
<1> QED
  BY <1>1, <1>2 DEF PartialFunctions

\* The fields of a scope have the types its record announces,
LEMMA ScopeFields ==
  \A s \in ScopeSet :
    /\ s.kind \in Kinds /\ s.table \in Nat
    /\ s.names \in PartialFunctions(Names, DeclarationSet)
    /\ s.increment \in IncrementSet
  BY DEF ScopeSet

\* and a record of such fields is a scope.
LEMMA ScopeOf ==
  \A k \in Kinds, t \in Nat, f \in PartialFunctions(Names, DeclarationSet),
    c \in IncrementSet :
    [kind |-> k, table |-> t, names |-> f, increment |-> c] \in ScopeSet
  BY DEF ScopeSet

\* The name of an entry is one of the names.
LEMMA EntryName ==
  ASSUME NEW e \in Entries
  PROVE  e.name \in Names
  BY DEF Names

\* Inserting an entry keeps the tables what they are, changes one of them at the
\* most, and that only at the name of the entry.
LEMMA Inserting ==
  ASSUME NEW st \in Seq(TableSet), st # <<>>,
         \A j \in DOMAIN st : TableOK(st[j]),
         NEW e \in Entries, NEW i \in DOMAIN st
  PROVE  LET t == InsertToSymTable(st, e, i) IN
         /\ t \in Seq(TableSet)
         /\ Len(t) = Len(st)
         /\ \A j \in DOMAIN t : TableOK(t[j])
         /\ \A j \in DOMAIN st : j # i => t[j] = st[j]
         /\ DOMAIN st[i].last \subseteq DOMAIN t[i].last
         /\ DOMAIN t[i].last \subseteq DOMAIN st[i].last \cup {e.name}
         /\ t[i].entries \subseteq st[i].entries \cup {e}
         /\ i = Len(st) \/ e \notin st[Len(st)].entries => e.name \in DOMAIN t[i].last
<1> DEFINE t == InsertToSymTable(st, e, i)
           new == InsertInto(st[i], e)
<1>1. CASE e \in st[Len(st)].entries
  <2>1. t = st
    BY <1>1 DEF InsertToSymTable
  <2>2. i = Len(st) => e.name \in DOMAIN st[i].last
    BY <1>1 DEF TableOK
  <2> QED
    BY <2>1, <2>2, <1>1
<1>2. CASE e \notin st[Len(st)].entries
  <2>1. t = [st EXCEPT ![i] = new]
    BY <1>2 DEF InsertToSymTable
  <2>2. st[i] \in TableSet /\ TableOK(st[i])
    OBVIOUS
  <2>3. /\ With(st[i].last, e.name, e) \in PartialFunctions(Names, Entries)
        /\ IsWith(With(st[i].last, e.name, e), st[i].last, e.name, e)
    <3>1. st[i].last \in PartialFunctions(Names, Entries)
      BY <2>2 DEF TableSet
    <3> QED
      BY <3>1, EntryName, WithType
  <2>4. new = [entries |-> st[i].entries \cup {e}, last |-> With(st[i].last, e.name, e)]
    BY DEF InsertInto
  <2>5. new \in TableSet
    BY <2>2, <2>3, <2>4 DEF TableSet
  <2>6. TableOK(new)
    <3> HIDE DEF new
    <3>1. DOMAIN new.last = {d.name : d \in new.entries}
      <4>1. DOMAIN st[i].last = {d.name : d \in st[i].entries}
        BY <2>2 DEF TableOK
      <4>2. DOMAIN new.last = {d.name : d \in st[i].entries} \cup {e.name}
        BY <2>3, <2>4, <4>1 DEF IsWith
      <4>3. new.entries = st[i].entries \cup {e}
        BY <2>4
      <4> QED
        BY <4>2, <4>3
    <3>2. ASSUME NEW n \in DOMAIN new.last
          PROVE  new.last[n] \in new.entries /\ new.last[n].name = n
      BY <2>2, <2>3, <2>4 DEF TableOK, IsWith
    <3> QED
      BY <3>1, <3>2 DEF TableOK
  <2>7. t \in Seq(TableSet) /\ Len(t) = Len(st) /\ DOMAIN t = DOMAIN st
    BY <2>1, <2>5
  <2>8. t[i] = new /\ \A j \in DOMAIN st : j # i => t[j] = st[j]
    BY <2>1
  <2> HIDE DEF t, new
  <2>9. \A j \in DOMAIN t : TableOK(t[j])
    BY <2>6, <2>7, <2>8
  <2> QED
    BY <2>3, <2>4, <2>7, <2>8, <2>9 DEF t, IsWith
<1> QED
  BY <1>1, <1>2

\* An entry is found where it is in the innermost of the tables that have its
\* name.
LEMMA Finding ==
  ASSUME NEW st \in Seq(TableSet), NEW n, NEW i \in DOMAIN st,
         n \in DOMAIN st[i].last,
         \A j \in (i + 1)..Len(st) : n \notin DOMAIN st[j].last
  PROVE  Contains(st, n) = {st[i].last[n]}
<1>1. FoundIn(st, n, i)
  BY DEF FoundIn
<1>2. \A j : FoundIn(st, n, j) => j = i
  BY DEF FoundIn
<1> QED
  BY <1>1, <1>2 DEF Contains

\* What is found is an entry.
LEMMA ContainsType ==
  ASSUME NEW st \in Seq(TableSet), NEW n
  PROVE  Contains(st, n) \in SUBSET Entries
<1>1. CASE \E i \in DOMAIN st : FoundIn(st, n, i)
  <2> DEFINE i == CHOOSE i \in DOMAIN st : FoundIn(st, n, i)
  <2>1. i \in DOMAIN st /\ FoundIn(st, n, i)
    BY <1>1
  <2>2. st[i] \in TableSet /\ n \in DOMAIN st[i].last
    BY <2>1 DEF FoundIn
  <2>3. st[i].last[n] \in Entries
    BY <2>2, PartialFunction DEF TableSet
  <2> QED
    BY <1>1, <2>3 DEF Contains
<1>2. CASE ~\E i \in DOMAIN st : FoundIn(st, n, i)
  BY <1>2 DEF Contains
<1> QED
  BY <1>1, <1>2

-----------------------------------------------------------------------------
(* Stacks of tables and of scopes *)

StackOK(st) ==
  st \in Seq(TableSet) /\ st # <<>> /\ \A i \in DOMAIN st : TableOK(st[i])

\* Pushing adds an empty table on top and keeps the tables below.
LEMMA Pushing ==
  ASSUME NEW st, StackOK(st)
  PROVE  LET t == PushSymTable(st) IN
         /\ StackOK(t) /\ Len(t) = Len(st) + 1
         /\ \A i \in DOMAIN st : t[i] = st[i]
         /\ t[Len(st) + 1] = EmptyTable /\ DOMAIN EmptyTable.last = {}
<1>1. NoNames \in PartialFunctions(Names, Entries) /\ DOMAIN NoNames = {}
  BY NoNamesType
<1>2. EmptyTable \in TableSet /\ TableOK(EmptyTable) /\ DOMAIN EmptyTable.last = {}
  BY <1>1 DEF EmptyTable, TableSet, TableOK
<1> HIDE DEF EmptyTable
<1> QED
  BY <1>2 DEF StackOK, PushSymTable

\* Popping keeps the tables below the topmost one.
LEMMA Popping ==
  ASSUME NEW st, StackOK(st), Len(st) > 1
  PROVE  LET t == PopSymTable(st) IN
         /\ StackOK(t) /\ Len(t) = Len(st) - 1
         /\ \A i \in DOMAIN t : t[i] = st[i]
<1> DEFINE t == PopSymTable(st)
<1>1. st \in Seq(TableSet) /\ \A i \in DOMAIN st : TableOK(st[i])
  BY DEF StackOK
<1>2. /\ t \in Seq(TableSet) /\ Len(t) = Len(st) - 1
      /\ \A i \in DOMAIN t : i \in DOMAIN st /\ t[i] = st[i]
  BY <1>1 DEF PopSymTable
<1> HIDE DEF t
<1>3. t # <<>>
  BY <1>2
<1>4. \A i \in DOMAIN t : TableOK(t[i])
  BY <1>1, <1>2
<1> QED
  BY <1>2, <1>3, <1>4 DEF StackOK, t

\* The kinds of nested scopes sc and their tables, where the last table is n.
Nested(sc, n) ==
  /\ sc \in Seq(ScopeSet) /\ sc # <<>>
  /\ sc[1].kind = "file" /\ sc[1].table = 1
  /\ \A i \in 2..Len(sc) :
       /\ sc[i].kind # "file"
       /\ i = 2 <=> sc[i].kind \in {"parameters", "function"}
       /\ sc[i].kind = "parameters" => i = Len(sc)
       /\ sc[i].table = sc[i - 1].table + (IF sc[i].kind = "block" THEN 0 ELSE 1)
  /\ \A i, j \in DOMAIN sc : i <= j => sc[i].table <= sc[j].table
  /\ sc[Len(sc)].table = n

\* The table of an open scope is a number.
LEMMA NestedTables ==
  ASSUME NEW sc, NEW n, Nested(sc, n)
  PROVE  n \in Nat /\ \A i \in DOMAIN sc : sc[i] \in ScopeSet /\ sc[i].table \in Nat
<1>1. sc \in Seq(ScopeSet) /\ sc # <<>> /\ sc[Len(sc)].table = n
  BY DEF Nested
<1>2. \A i \in DOMAIN sc : sc[i] \in ScopeSet
  BY <1>1
<1>3. Len(sc) \in DOMAIN sc
  BY <1>1
<1> QED
  BY <1>1, <1>2, <1>3, ScopeFields

\* An open scope.
LEMMA Opening ==
  ASSUME NEW sc, NEW n, Nested(sc, n), NEW s \in ScopeSet,
         sc[Len(sc)].kind # "parameters",
         \/ s.kind = "parameters" /\ Len(sc) = 1 /\ s.table = n + 1
         \/ s.kind = "block" /\ Len(sc) > 1 /\ s.table = n
         \/ s.kind = "for" /\ Len(sc) > 1 /\ s.table = n + 1
  PROVE  Nested(Append(sc, s), s.table)
<1> DEFINE t == Append(sc, s)
<1>1. t \in Seq(ScopeSet) /\ Len(t) = Len(sc) + 1 /\ t[Len(sc) + 1] = s
  BY DEF Nested
<1>2. \A i \in DOMAIN sc : t[i] = sc[i]
  BY DEF Nested
<1>3. n \in Nat /\ s.table \in Nat /\ \A i \in DOMAIN sc : sc[i].table \in Nat
  BY NestedTables, ScopeFields
<1> HIDE DEF t
<1>4. \A i, j \in DOMAIN t : i <= j => t[i].table <= t[j].table
  <2> SUFFICES ASSUME NEW i \in DOMAIN t, NEW j \in DOMAIN t, i <= j
               PROVE  t[i].table <= t[j].table
    OBVIOUS
  <2>1. CASE j <= Len(sc)
    BY <2>1, <1>1, <1>2 DEF Nested
  <2>2. CASE j = Len(sc) + 1 /\ i <= Len(sc)
    <3>1. sc[i].table <= n
      BY <2>2, <1>1 DEF Nested
    <3> QED
      BY <2>2, <3>1, <1>1, <1>2, <1>3
  <2>3. CASE i = Len(sc) + 1 /\ j = Len(sc) + 1
    BY <2>3, <1>1, <1>3
  <2> QED
    BY <1>1, <2>1, <2>2, <2>3
<1>5. ASSUME NEW i \in 2..Len(t)
      PROVE  /\ t[i].kind # "file"
             /\ i = 2 <=> t[i].kind \in {"parameters", "function"}
             /\ t[i].kind = "parameters" => i = Len(t)
             /\ t[i].table = t[i - 1].table + (IF t[i].kind = "block" THEN 0 ELSE 1)
  <2>1. CASE i \in 2..Len(sc)
    <3>1. t[i] = sc[i] /\ t[i - 1] = sc[i - 1]
      BY <2>1, <1>2
    <3>2. sc[i].kind # "parameters"
      BY <2>1 DEF Nested
    <3> QED
      BY <2>1, <3>1, <3>2 DEF Nested
  <2>2. CASE i = Len(sc) + 1
    BY <2>2, <1>1, <1>2, <1>3 DEF Nested
  <2> QED
    BY <2>1, <2>2, <1>1
<1>6. t[1] = sc[1] /\ t # <<>>
  BY <1>1, <1>2 DEF Nested
<1> QED
  BY <1>1, <1>4, <1>5, <1>6 DEF Nested, t

\* The last scope is left.
LEMMA Leaving ==
  ASSUME NEW sc, NEW n, Nested(sc, n), Len(sc) > 1
  PROVE  LET t == SubSeq(sc, 1, Len(sc) - 1) IN
         /\ Nested(t, n - (IF sc[Len(sc)].kind = "block" THEN 0 ELSE 1))
         /\ Len(t) = Len(sc) - 1
         /\ \A i \in DOMAIN t : t[i] = sc[i]
<1> DEFINE t == SubSeq(sc, 1, Len(sc) - 1)
<1>1. /\ t \in Seq(ScopeSet) /\ Len(t) = Len(sc) - 1
      /\ \A i \in DOMAIN t : t[i] = sc[i]
  BY DEF Nested
<1>2. \A i \in DOMAIN sc : sc[i].table \in Nat
  BY NestedTables
<1> HIDE DEF t
<1>3. t[Len(t)].table = n - (IF sc[Len(sc)].kind = "block" THEN 0 ELSE 1)
  BY <1>1, <1>2 DEF Nested
<1>4. \A i, j \in DOMAIN t : i <= j => t[i].table <= t[j].table
  BY <1>1 DEF Nested
<1>5. ASSUME NEW i \in 2..Len(t)
      PROVE  /\ t[i].kind # "file"
             /\ i = 2 <=> t[i].kind \in {"parameters", "function"}
             /\ t[i].kind = "parameters" => i = Len(t)
             /\ t[i].table = t[i - 1].table + (IF t[i].kind = "block" THEN 0 ELSE 1)
  <2>1. t[i] = sc[i] /\ t[i - 1] = sc[i - 1] /\ i \in 2..Len(sc) /\ i # Len(sc)
    BY <1>1
  <2> QED
    BY <2>1 DEF Nested
<1>6. t[1] = sc[1] /\ t # <<>>
  BY <1>1 DEF Nested
<1> QED
  BY <1>1, <1>3, <1>4, <1>5, <1>6 DEF Nested, t

\* sc and t differ in the names only.
Alike(sc, t) ==
  /\ t \in Seq(ScopeSet) /\ Len(t) = Len(sc)
  /\ \A i \in DOMAIN sc :
       t[i].kind = sc[i].kind /\ t[i].table = sc[i].table
         /\ t[i].increment = sc[i].increment

\* Scopes that differ only in the names they declare are nested alike.
LEMMA NestedAlike ==
  ASSUME NEW sc, NEW n, Nested(sc, n), NEW t, Alike(sc, t)
  PROVE  Nested(t, n)
<1>1. /\ t \in Seq(ScopeSet) /\ Len(t) = Len(sc) /\ DOMAIN t = DOMAIN sc
      /\ Len(sc) \in Nat \ {0} /\ DOMAIN sc = 1..Len(sc)
  BY DEF Nested, Alike
<1>2. \A i \in DOMAIN sc : t[i].kind = sc[i].kind /\ t[i].table = sc[i].table
  BY DEF Alike
<1>3. t # <<>> /\ t[1].kind = "file" /\ t[1].table = 1 /\ t[Len(t)].table = n
  <2>1. sc[1].kind = "file" /\ sc[1].table = 1 /\ sc[Len(sc)].table = n
    BY DEF Nested
  <2>2. 1 \in DOMAIN sc /\ Len(sc) \in DOMAIN sc
    BY <1>1
  <2> QED
    BY <2>1, <2>2, <1>1, <1>2
<1>4. \A i, j \in DOMAIN t : i <= j => t[i].table <= t[j].table
  BY <1>1, <1>2 DEF Nested
<1>5. ASSUME NEW i \in 2..Len(t)
      PROVE  /\ t[i].kind # "file"
             /\ i = 2 <=> t[i].kind \in {"parameters", "function"}
             /\ t[i].kind = "parameters" => i = Len(t)
             /\ t[i].table = t[i - 1].table + (IF t[i].kind = "block" THEN 0 ELSE 1)
  <2>1. i \in DOMAIN sc /\ i - 1 \in DOMAIN sc /\ i \in 2..Len(sc)
    BY <1>1
  <2>2. /\ sc[i].kind # "file"
        /\ i = 2 <=> sc[i].kind \in {"parameters", "function"}
        /\ sc[i].kind = "parameters" => i = Len(sc)
        /\ sc[i].table = sc[i - 1].table + (IF sc[i].kind = "block" THEN 0 ELSE 1)
    BY <2>1 DEF Nested
  <2>3. /\ t[i].kind = sc[i].kind /\ t[i].table = sc[i].table
        /\ t[i - 1].table = sc[i - 1].table /\ Len(t) = Len(sc)
    BY <2>1, <1>1, <1>2
  <2> QED
    BY <2>2, <2>3, Zenon
<1> QED
  BY <1>1, <1>3, <1>4, <1>5 DEF Nested

\* A declaration in one scope changes the names of that scope alone, and of these one.
LEMMA Declaring ==
  ASSUME scopes \in Seq(ScopeSet), declared \in Nat,
         NEW e \in Entries, NEW i \in DOMAIN scopes
  PROVE  /\ Alike(scopes, DeclareIn(i, e))
         /\ \A j \in DOMAIN scopes : j # i => DeclareIn(i, e)[j] = scopes[j]
         /\ IsWith(DeclareIn(i, e)[i].names, scopes[i].names, e.name, Declaration(e))
<1> DEFINE new == With(scopes[i].names, e.name, Declaration(e))
           t == DeclareIn(i, e)
<1>1. Declaration(e) \in DeclarationSet
  BY DEF Declaration, DeclarationSet, NewId
<1>2. scopes[i] \in ScopeSet /\ scopes[i].names \in PartialFunctions(Names, DeclarationSet)
  BY ScopeFields
<1>3. /\ new \in PartialFunctions(Names, DeclarationSet)
      /\ IsWith(new, scopes[i].names, e.name, Declaration(e))
  BY <1>1, <1>2, EntryName, WithType
<1> HIDE DEF new
<1>4. t = [scopes EXCEPT ![i] = [scopes[i] EXCEPT !.names = new]]
  BY DEF DeclareIn, new
<1>a. scopes[i] = [kind |-> scopes[i].kind, table |-> scopes[i].table,
                   names |-> scopes[i].names, increment |-> scopes[i].increment]
  BY <1>2 DEF ScopeSet
<1>b. [scopes[i] EXCEPT !.names = new]
        = [kind |-> scopes[i].kind, table |-> scopes[i].table,
           names |-> new, increment |-> scopes[i].increment]
  BY <1>a
<1>5. [scopes[i] EXCEPT !.names = new] \in ScopeSet
  <2>1. /\ scopes[i].kind \in Kinds /\ scopes[i].table \in Nat
        /\ scopes[i].increment \in IncrementSet
        /\ new \in PartialFunctions(Names, DeclarationSet)
    BY <1>2, <1>3, ScopeFields
  <2>2. [kind |-> scopes[i].kind, table |-> scopes[i].table,
         names |-> new, increment |-> scopes[i].increment] \in ScopeSet
    BY <2>1, ScopeOf
  <2> QED
    BY <1>b, <2>2
<1>6. t \in Seq(ScopeSet) /\ Len(t) = Len(scopes)
  BY <1>4, <1>5
<1>7. t[i] = [scopes[i] EXCEPT !.names = new] /\ \A j \in DOMAIN scopes : j # i => t[j] = scopes[j]
  BY <1>4
<1>8. t[i].kind = scopes[i].kind /\ t[i].table = scopes[i].table
        /\ t[i].increment = scopes[i].increment /\ t[i].names = new
  BY <1>7, <1>b
<1> HIDE DEF t
<1> QED
  BY <1>3, <1>6, <1>7, <1>8 DEF Alike, t

-----------------------------------------------------------------------------
(* The types of the variables *)

IdsOK(sc, d) ==
  \A i \in DOMAIN sc : \A n \in DOMAIN sc[i].names : sc[i].names[n].id \in 1..d

TypeInv ==
  /\ declared \in 0..MaxDeclarations
  /\ StackOK(stack)
  /\ Nested(scopes, Len(stack))
  /\ IdsOK(scopes, declared)
  /\ symbols \in PartialFunctions(Names, Ids)
  /\ globals \in PartialFunctions(Names, Ids)

\* What follows for the innermost scope and table.
LEMMA Innermost ==
  ASSUME TypeInv
  PROVE  /\ scopes \in Seq(ScopeSet) /\ Len(scopes) \in DOMAIN scopes
         /\ 1 \in DOMAIN scopes
         /\ declared \in Nat /\ NewId \in Nat
         /\ Top \in ScopeSet /\ Top.table = Len(stack)
         /\ stack \in Seq(TableSet) /\ stack # <<>>
         /\ Len(stack) \in DOMAIN stack /\ 1 \in DOMAIN stack
         /\ Top.kind = "file" <=> Len(scopes) = 1
         /\ Top.kind \in {"parameters", "function"} <=> Len(scopes) = 2
         /\ Top.kind # "file" => Len(stack) > 1
         /\ Top.kind # "file" => Len(scopes) > 1
<1>1. scopes \in Seq(ScopeSet) /\ scopes # <<>> /\ scopes[Len(scopes)].table = Len(stack)
  BY DEF TypeInv, Nested
<1>2. stack \in Seq(TableSet) /\ stack # <<>>
  BY DEF TypeInv, StackOK
<1>3. declared \in Nat /\ NewId \in Nat
  BY EntriesAssumption DEF TypeInv, NewId
<1>4. scopes[1].kind = "file" /\ scopes[1].table = 1
  BY DEF TypeInv, Nested
<1>5. ASSUME Len(scopes) > 1
      PROVE  /\ Top.kind # "file"
             /\ Top.kind \in {"parameters", "function"} <=> Len(scopes) = 2
             /\ Len(stack) > 1
  <2>1. Len(scopes) \in 2..Len(scopes) /\ 2 \in 2..Len(scopes)
    BY <1>1, <1>5
  <2>2. scopes[2].table = scopes[1].table + (IF scopes[2].kind = "block" THEN 0 ELSE 1)
    BY <2>1 DEF TypeInv, Nested
  <2>3. scopes[2].kind \in {"parameters", "function"}
    BY <2>1 DEF TypeInv, Nested
  <2>4. scopes[2].table <= scopes[Len(scopes)].table
    BY <2>1, <1>1 DEF TypeInv, Nested
  <2>5. Len(stack) > 1
    BY <2>2, <2>3, <2>4, <1>1, <1>2, <1>4
  <2> QED
    BY <2>1, <2>5 DEF TypeInv, Nested, Top
<1>6. Len(scopes) \in Nat \ {0} /\ DOMAIN scopes = 1..Len(scopes)
  BY <1>1
<1>7. Len(scopes) \in DOMAIN scopes /\ 1 \in DOMAIN scopes
  BY <1>6
<1>8. Top \in ScopeSet /\ Top.table = Len(stack)
  BY <1>1, <1>7 DEF Top
<1>9. Len(stack) \in DOMAIN stack /\ 1 \in DOMAIN stack
  BY <1>2
<1>10. CASE Len(scopes) = 1
  <2>1. Top.kind = "file" /\ Len(scopes) # 2
    BY <1>4, <1>10 DEF Top
  <2> QED
    BY <1>1, <1>2, <1>3, <1>7, <1>8, <1>9, <1>10, <2>1
<1>11. CASE Len(scopes) > 1
  <2>1. Len(scopes) # 1
    BY <1>11
  <2> QED
    BY <1>1, <1>2, <1>3, <1>5, <1>7, <1>8, <1>9, <1>11, <2>1
<1> QED
  BY <1>6, <1>10, <1>11

\* A partial function into a set is one into every larger set.
LEMMA Larger ==
  ASSUME NEW D, NEW S, NEW T, S \subseteq T, NEW f \in PartialFunctions(D, S)
  PROVE  f \in PartialFunctions(D, T)
<1>1. PICK N \in SUBSET D : f \in [N -> S]
  BY DEF PartialFunctions
<1>2. f \in [N -> T]
  BY <1>1
<1> QED
  BY <1>2 DEF PartialFunctions

\* A declaration is made in the scope i.
LEMMA DeclaringType ==
  ASSUME TypeInv, declared < MaxDeclarations, NEW e \in Entries, NEW i \in DOMAIN scopes
  PROVE  /\ NewId \in 0..MaxDeclarations /\ NewId \in 1..NewId
         /\ Ids \subseteq 1..NewId
         /\ Nested(DeclareIn(i, e), Len(stack))
         /\ IdsOK(DeclareIn(i, e), NewId)
         /\ symbols \in PartialFunctions(Names, 1..NewId)
         /\ globals \in PartialFunctions(Names, 1..NewId)
<1>1. scopes \in Seq(ScopeSet) /\ declared \in Nat
  BY Innermost
<1>2. NewId \in 0..MaxDeclarations /\ NewId \in 1..NewId /\ Ids \subseteq 1..NewId
  BY <1>1, EntriesAssumption DEF NewId, Ids
<1>3. /\ Alike(scopes, DeclareIn(i, e))
      /\ \A j \in DOMAIN scopes : j # i => DeclareIn(i, e)[j] = scopes[j]
      /\ IsWith(DeclareIn(i, e)[i].names, scopes[i].names, e.name, Declaration(e))
  BY <1>1, Declaring
<1>4. Nested(DeclareIn(i, e), Len(stack))
  BY <1>3, NestedAlike DEF TypeInv
<1>5. ASSUME NEW j \in DOMAIN DeclareIn(i, e), NEW n \in DOMAIN DeclareIn(i, e)[j].names
      PROVE  DeclareIn(i, e)[j].names[n].id \in 1..NewId
  <2>1. j \in DOMAIN scopes
    BY <1>1, <1>3 DEF Alike
  <2>2. \A k \in DOMAIN scopes : \A x \in DOMAIN scopes[k].names :
          scopes[k].names[x].id \in 1..NewId
    BY <1>2 DEF TypeInv, IdsOK, Ids
  <2>3. CASE j # i
    BY <2>1, <2>2, <2>3, <1>3
  <2>4. CASE j = i /\ n = e.name
    BY <2>4, <1>2, <1>3 DEF IsWith, Declaration
  <2>5. CASE j = i /\ n # e.name
    <3>1. n \in DOMAIN scopes[i].names /\ DeclareIn(i, e)[i].names[n] = scopes[i].names[n]
      BY <2>5, <1>3 DEF IsWith
    <3> QED
      BY <3>1, <2>2, <2>5
  <2> QED
    BY <2>3, <2>4, <2>5
<1> QED
  BY <1>2, <1>4, <1>5, Larger DEF TypeInv, IdsOK

\* A scope is opened.
LEMMA OpeningType ==
  ASSUME TypeInv, Top.kind # "parameters", NEW s \in ScopeSet, NEW d \in Nat, declared <= d,
         \A n \in DOMAIN s.names : s.names[n].id \in 1..d,
         \/ s.kind = "parameters" /\ Top.kind = "file" /\ s.table = Len(stack) + 1
         \/ s.kind = "block" /\ Top.kind # "file" /\ s.table = Len(stack)
         \/ s.kind = "for" /\ Top.kind # "file" /\ s.table = Len(stack) + 1
  PROVE  Nested(Append(scopes, s), s.table) /\ IdsOK(Append(scopes, s), d)
<1>1. scopes \in Seq(ScopeSet) /\ (Top.kind = "file" <=> Len(scopes) = 1)
      /\ Len(scopes) \in DOMAIN scopes /\ declared \in Nat
  BY Innermost
<1>2. Nested(Append(scopes, s), s.table)
  <2>1. Nested(scopes, Len(stack)) /\ scopes[Len(scopes)].kind # "parameters"
    BY DEF TypeInv, Top
  <2>2. Top.kind # "file" => Len(scopes) > 1
    BY Innermost
  <2> QED
    BY <2>1, <2>2, <1>1, Opening
<1>3. \A k \in DOMAIN scopes : \A x \in DOMAIN scopes[k].names :
        scopes[k].names[x].id \in 1..d
  BY <1>1 DEF TypeInv, IdsOK
<1>4. ASSUME NEW j \in DOMAIN Append(scopes, s), NEW n \in DOMAIN Append(scopes, s)[j].names
      PROVE  Append(scopes, s)[j].names[n].id \in 1..d
  <2>1. CASE j \in DOMAIN scopes
    <3>1. Append(scopes, s)[j] = scopes[j]
      BY <2>1, <1>1
    <3> QED
      BY <2>1, <3>1, <1>3
  <2>2. CASE j = Len(scopes) + 1
    <3>1. Append(scopes, s)[j] = s
      BY <2>2, <1>1
    <3> QED
      BY <3>1
  <2> QED
    BY <1>1, <2>1, <2>2
<1> QED
  BY <1>2, <1>4 DEF IdsOK

\* The last scope is left.
LEMMA LeavingType ==
  ASSUME NEW sc, NEW d, NEW n, Nested(sc, n), IdsOK(sc, d), Len(sc) > 1
  PROVE  LET t == SubSeq(sc, 1, Len(sc) - 1) IN
         /\ Nested(t, n - (IF sc[Len(sc)].kind = "block" THEN 0 ELSE 1))
         /\ IdsOK(t, d)
<1> DEFINE t == SubSeq(sc, 1, Len(sc) - 1)
<1>1. /\ Nested(t, n - (IF sc[Len(sc)].kind = "block" THEN 0 ELSE 1))
      /\ Len(t) = Len(sc) - 1 /\ \A i \in DOMAIN t : t[i] = sc[i]
  BY Leaving
<1>2. DOMAIN t \subseteq DOMAIN sc
  BY DEF Nested
<1> HIDE DEF t
<1>3. IdsOK(t, d)
  BY <1>1, <1>2 DEF IdsOK
<1> QED
  BY <1>1, <1>3 DEF t

\* The parameters become those of a function with a body.
LEMMA KindChange ==
  ASSUME NEW sc, NEW n, NEW d, Nested(sc, n), IdsOK(sc, d), Len(sc) = 2
  PROVE  LET t == [sc EXCEPT ![2].kind = "function"] IN
         Nested(t, n) /\ IdsOK(t, d)
<1> DEFINE t == [sc EXCEPT ![2].kind = "function"]
           s == [sc[2] EXCEPT !.kind = "function"]
<1>1. sc \in Seq(ScopeSet) /\ sc[2] \in ScopeSet /\ DOMAIN sc = 1..2
  BY DEF Nested
<1>2. s = [kind |-> "function", table |-> sc[2].table, names |-> sc[2].names,
           increment |-> sc[2].increment]
  BY <1>1 DEF ScopeSet
<1>3. s \in ScopeSet
  <2>1. /\ "function" \in Kinds /\ sc[2].table \in Nat
        /\ sc[2].names \in PartialFunctions(Names, DeclarationSet)
        /\ sc[2].increment \in IncrementSet
    BY <1>1, ScopeFields DEF Kinds
  <2> QED
    BY <2>1, <1>2, ScopeOf
<1>4. t = [sc EXCEPT ![2] = s]
  OBVIOUS
<1>5. s.kind = "function" /\ s.table = sc[2].table /\ s.names = sc[2].names
  BY <1>2
<1> HIDE DEF s
<1>6. t \in Seq(ScopeSet) /\ Len(t) = 2 /\ DOMAIN t = 1..2 /\ t[2] = s /\ t[1] = sc[1]
  BY <1>1, <1>3, <1>4
<1> HIDE DEF t
<1>7. /\ sc[1].kind = "file" /\ sc[1].table = 1 /\ sc[2].table = n
      /\ sc[2].table = sc[1].table + (IF sc[2].kind = "block" THEN 0 ELSE 1)
      /\ sc[2].kind \in {"parameters", "function"}
      /\ \A i, j \in DOMAIN sc : i <= j => sc[i].table <= sc[j].table
  BY DEF Nested
<1>8. \A i \in 2..Len(t) : i = 2
  BY <1>6
<1>9. Nested(t, n)
  <2>1. \A i, j \in DOMAIN t : i <= j => t[i].table <= t[j].table
    BY <1>1, <1>5, <1>6, <1>7
  <2>2. t # <<>>
    BY <1>6
  <2>3. t[2].table = t[2 - 1].table + (IF t[2].kind = "block" THEN 0 ELSE 1)
    BY <1>5, <1>6, <1>7
  <2> QED
    BY <2>1, <2>2, <2>3, <1>5, <1>6, <1>7, <1>8 DEF Nested
<1>10. IdsOK(t, d)
  BY <1>1, <1>5, <1>6 DEF IdsOK
<1> QED
  BY <1>9, <1>10 DEF t

\* The tables and the scopes of a file that was not read yet are in step.
LEMMA InitType == Init => TypeInv
<1> SUFFICES ASSUME Init PROVE TypeInv
  OBVIOUS
<1>1. /\ NoNames \in PartialFunctions(Names, Entries) /\ DOMAIN NoNames = {}
      /\ NoNames \in PartialFunctions(Names, DeclarationSet)
      /\ NoNames \in PartialFunctions(Names, Ids)
  BY NoNamesType
<1>2. StackOK(stack)
  BY <1>1 DEF Init, StackOK, EmptyTable, TableSet, TableOK
<1> DEFINE s == Scope("file", 1, NoNames, NoIncrement)
<1>3. s \in ScopeSet
  <2>1. NoIncrement \in IncrementSet /\ "file" \in Kinds
    BY DEF NoIncrement, Increment, IncrementSet, Kinds
  <2>2. s = [kind |-> "file", table |-> 1, names |-> NoNames, increment |-> NoIncrement]
    BY DEF Scope
  <2> QED
    BY <2>1, <2>2, <1>1, ScopeOf
<1>4. scopes = <<s>> /\ s.kind = "file" /\ s.table = 1 /\ s.names = NoNames
  BY DEF Init, Scope
<1> HIDE DEF s
<1>5. Len(stack) = 1
  BY DEF Init
<1>6. Nested(scopes, Len(stack))
  <2>1. scopes \in Seq(ScopeSet) /\ Len(scopes) = 1 /\ scopes # <<>> /\ DOMAIN scopes = {1}
    BY <1>3, <1>4
  <2> QED
    BY <2>1, <1>4, <1>5 DEF Nested
<1>7. IdsOK(scopes, declared)
  <2>1. DOMAIN scopes = {1}
    BY <1>4
  <2> QED
    BY <2>1, <1>1, <1>4 DEF IdsOK
<1> QED
  BY <1>1, <1>2, <1>6, <1>7, EntriesAssumption DEF Init, TypeInv

\* The steps of the declarations in a scope that is open.
LEMMA DeclaringStep ==
  ASSUME TypeInv, declared < MaxDeclarations, NEW e \in Entries, NEW i \in DOMAIN scopes,
         stack' = InsertEntry(stack, e),
         scopes' = DeclareIn(i, e), declared' = NewId,
         symbols' = symbols \/ symbols' = With(symbols, e.name, NewId),
         globals' = globals \/ globals' = With(globals, e.name, NewId)
  PROVE  TypeInv'
<1>1. /\ NewId \in 0..MaxDeclarations /\ NewId \in 1..NewId
      /\ Nested(DeclareIn(i, e), Len(stack))
      /\ IdsOK(DeclareIn(i, e), NewId)
      /\ symbols \in PartialFunctions(Names, 1..NewId)
      /\ globals \in PartialFunctions(Names, 1..NewId)
  BY DeclaringType
<1>2. StackOK(stack') /\ Len(stack') = Len(stack)
  BY Innermost, Inserting DEF TypeInv, StackOK, InsertEntry
<1>3. /\ With(symbols, e.name, NewId) \in PartialFunctions(Names, 1..NewId)
      /\ With(globals, e.name, NewId) \in PartialFunctions(Names, 1..NewId)
  BY <1>1, EntryName, WithType
<1>4. Ids' = 1..NewId
  BY DEF Ids
<1> QED
  BY <1>1, <1>2, <1>3, <1>4 DEF TypeInv

\* The name of a declaration that is visible is the name of an entry.
LEMMA VisibleAreNames ==
  ASSUME TypeInv
  PROVE  VisibleNames \subseteq Names
<1>1. scopes \in Seq(ScopeSet)
  BY Innermost
<1>2. ASSUME NEW i \in DOMAIN scopes PROVE DOMAIN scopes[i].names \subseteq Names
  <2>1. scopes[i].names \in PartialFunctions(Names, DeclarationSet)
    BY <1>1, ScopeFields
  <2> QED
    BY <2>1, PartialFunction
<1> QED
  BY <1>2 DEF VisibleNames

\* Adding the names of a scope to the table of code generation keeps its type.
LEMMA WithAllType ==
  ASSUME NEW D, NEW S, NEW f \in PartialFunctions(D, S), NEW names,
         DOMAIN names \subseteq D, \A n \in DOMAIN names : names[n].id \in S
  PROVE  WithAll(f, names) \in PartialFunctions(D, S)
<1>1. PICK N \in SUBSET D : f \in [N -> S]
  BY DEF PartialFunctions
<1>2. WithAll(f, names) \in [N \cup DOMAIN names -> S]
  BY <1>1 DEF WithAll
<1>3. N \cup DOMAIN names \in SUBSET D
  OBVIOUS
<1> QED
  BY <1>2, <1>3 DEF PartialFunctions

\* Objects, enumerators and functions are entries.
LEMMA EntryKinds ==
  Objects \subseteq Entries /\ Enumerators \subseteq Entries /\ Functions \subseteq Entries
  BY DEF Entries

\* The step of a definition of a function or of a prototype, before the table of
\* the function is popped.
LEMMA FunctionStep ==
  ASSUME TypeInv, NEW f \in Functions, MayDeclareFunction(f)
  PROVE  /\ Nested(DeclareIn(1, f), Len(stack)) /\ IdsOK(DeclareIn(1, f), NewId)
         /\ Len(DeclareIn(1, f)) = 2 /\ Len(scopes) = 2 /\ Len(stack) = 2
         /\ StackOK(InsertGlobalEntry(stack, f)) /\ Len(InsertGlobalEntry(stack, f)) = 2
         /\ NewId \in 0..MaxDeclarations
         /\ Ids \subseteq 1..NewId
         /\ DeclareIn(1, f)[2] = scopes[2]
<1>1. f \in Entries /\ declared < MaxDeclarations
  BY EntryKinds DEF MayDeclareFunction
<1>2. 1 \in DOMAIN scopes /\ scopes \in Seq(ScopeSet) /\ Len(scopes) = 2 /\ declared \in Nat
  BY Innermost DEF MayDeclareFunction
<1>3. /\ Nested(DeclareIn(1, f), Len(stack)) /\ IdsOK(DeclareIn(1, f), NewId)
      /\ NewId \in 0..MaxDeclarations /\ Ids \subseteq 1..NewId
  BY <1>1, <1>2, DeclaringType
<1>4. Len(DeclareIn(1, f)) = Len(scopes) /\ \A j \in DOMAIN scopes : j # 1 =>
        DeclareIn(1, f)[j] = scopes[j]
  BY <1>1, <1>2, Declaring DEF Alike
<1>5. StackOK(InsertGlobalEntry(stack, f)) /\ Len(InsertGlobalEntry(stack, f)) = Len(stack)
  BY <1>1, Innermost, Inserting DEF TypeInv, StackOK, InsertGlobalEntry
<1>6. Len(stack) = 2
  <2>1. 2 \in 2..Len(scopes)
    BY <1>2
  <2>2. /\ scopes[1].table = 1 /\ scopes[2].table = Len(stack)
        /\ scopes[2].table = scopes[2 - 1].table + (IF scopes[2].kind = "block" THEN 0 ELSE 1)
        /\ scopes[2].kind \in {"parameters", "function"}
    BY <2>1, <1>2 DEF TypeInv, Nested
  <2> QED
    BY <2>2
<1> QED
  BY <1>2, <1>3, <1>4, <1>5, <1>6

\* The body of a function opens with its parameters in place.
LEMMA BeginBodyType ==
  ASSUME TypeInv, NEW f \in Functions, BeginBody(f)
  PROVE  TypeInv'
<1>1. MayDeclareFunction(f)
  BY DEF BeginBody
<1> DEFINE sc == DeclareIn(1, f)
<1>2. /\ Nested(sc, Len(stack)) /\ IdsOK(sc, NewId) /\ Len(sc) = 2 /\ Len(scopes) = 2
      /\ StackOK(InsertGlobalEntry(stack, f)) /\ Len(InsertGlobalEntry(stack, f)) = Len(stack)
      /\ NewId \in 0..MaxDeclarations /\ Ids \subseteq 1..NewId
  BY <1>1, FunctionStep
<1> HIDE DEF sc
<1>3. Nested([sc EXCEPT ![2].kind = "function"], Len(stack))
      /\ IdsOK([sc EXCEPT ![2].kind = "function"], NewId)
  BY <1>2, KindChange
<1>4. scopes' = [sc EXCEPT ![2].kind = "function"]
  BY <1>2 DEF BeginBody, sc
<1>5. symbols' \in PartialFunctions(Names, 1..NewId)
  <2>1. DOMAIN Top.names \subseteq Names
    BY Innermost, ScopeFields, PartialFunction
  <2>2. \A n \in DOMAIN Top.names : Top.names[n].id \in 1..NewId
    BY <1>2, Innermost DEF TypeInv, IdsOK, Top, Ids
  <2>3. symbols \in PartialFunctions(Names, 1..NewId)
    BY <1>2, Larger DEF TypeInv
  <2> QED
    BY <2>1, <2>2, <2>3, WithAllType DEF BeginBody
<1>6. globals' \in PartialFunctions(Names, 1..NewId)
  BY <1>2, Larger DEF TypeInv, BeginBody
<1>7. Ids' = 1..NewId /\ declared' = NewId /\ stack' = InsertGlobalEntry(stack, f)
  BY DEF BeginBody, Ids
<1> QED
  BY <1>2, <1>3, <1>4, <1>5, <1>6, <1>7 DEF TypeInv

\* A prototype pops the table of its parameters with their scope.
LEMMA PrototypeType ==
  ASSUME TypeInv, NEW f \in Functions, Prototype(f)
  PROVE  TypeInv'
<1>1. MayDeclareFunction(f)
  BY DEF Prototype
<1> DEFINE sc == DeclareIn(1, f)
           st == InsertGlobalEntry(stack, f)
<1>2. /\ Nested(sc, 2) /\ IdsOK(sc, NewId) /\ Len(sc) = 2 /\ Len(scopes) = 2
      /\ StackOK(st) /\ Len(st) = 2
      /\ NewId \in 0..MaxDeclarations /\ Ids \subseteq 1..NewId
      /\ sc[2] = scopes[2]
  BY <1>1, FunctionStep
<1> HIDE DEF sc, st
<1>3. sc[Len(sc)].kind # "block"
  BY <1>1, <1>2 DEF MayDeclareFunction, Top
<1>4. Nested(SubSeq(sc, 1, Len(sc) - 1), 1) /\ IdsOK(SubSeq(sc, 1, Len(sc) - 1), NewId)
  <2>1. Nested(SubSeq(sc, 1, Len(sc) - 1), 2 - 1)
          /\ IdsOK(SubSeq(sc, 1, Len(sc) - 1), NewId)
    <3>1. 2 - (IF sc[Len(sc)].kind = "block" THEN 0 ELSE 1) = 2 - 1 /\ Len(sc) > 1
      BY <1>2, <1>3
    <3> QED
      BY <1>2, <3>1, LeavingType
  <2>2. 2 - 1 = 1
    OBVIOUS
  <2> QED
    BY <2>1, <2>2
<1>5. StackOK(PopSymTable(st)) /\ Len(PopSymTable(st)) = 1
  <2>1. Len(st) > 1
    BY <1>2
  <2>2. StackOK(PopSymTable(st)) /\ Len(PopSymTable(st)) = Len(st) - 1
    BY <1>2, <2>1, Popping
  <2> QED
    BY <1>2, <2>2
<1>6. /\ scopes' = SubSeq(sc, 1, Len(sc) - 1) /\ stack' = PopSymTable(st)
      /\ declared' = NewId /\ Ids' = 1..NewId
  BY <1>2 DEF Prototype, sc, st, Ids
<1>7. /\ symbols' \in PartialFunctions(Names, 1..NewId)
      /\ globals' \in PartialFunctions(Names, 1..NewId)
  BY <1>2, Larger DEF TypeInv, Prototype
<1> QED
  BY <1>2, <1>4, <1>5, <1>6, <1>7 DEF TypeInv

\* A function pushes a table for its scope.
LEMMA BeginFunctionType ==
  ASSUME TypeInv, BeginFunction
  PROVE  TypeInv'
<1> DEFINE s == Scope("parameters", Len(stack) + 1, NoNames, NoIncrement)
<1>1. NoNames \in PartialFunctions(Names, DeclarationSet) /\ DOMAIN NoNames = {}
      /\ NoNames \in PartialFunctions(Names, Ids)
  BY NoNamesType
<1>2. Len(stack) + 1 \in Nat /\ declared \in Nat
  BY Innermost
<1>3. NoIncrement \in IncrementSet /\ "parameters" \in Kinds
  BY DEF NoIncrement, Increment, IncrementSet, Kinds
<1>4. s = [kind |-> "parameters", table |-> Len(stack) + 1, names |-> NoNames,
           increment |-> NoIncrement]
  BY DEF Scope
<1>5. s \in ScopeSet
  BY <1>1, <1>2, <1>3, <1>4, ScopeOf
<1>6. s.kind = "parameters" /\ s.table = Len(stack) + 1 /\ s.names = NoNames
  BY <1>4
<1>7. scopes' = Append(scopes, s) /\ Top.kind = "file" /\ Top.kind # "parameters"
  BY DEF BeginFunction
<1> HIDE DEF s
<1>8. Nested(Append(scopes, s), Len(stack) + 1) /\ IdsOK(Append(scopes, s), declared)
  <2>1. \A n \in DOMAIN s.names : s.names[n].id \in 1..declared
    BY <1>1, <1>6
  <2>2. declared <= declared
    BY <1>2
  <2>3. Nested(Append(scopes, s), s.table) /\ IdsOK(Append(scopes, s), declared)
    BY <1>2, <1>5, <1>6, <1>7, <2>1, <2>2, OpeningType
  <2> QED
    BY <1>6, <2>3
<1>9. StackOK(stack') /\ Len(stack') = Len(stack) + 1
  BY Pushing DEF TypeInv, BeginFunction
<1>10. symbols' = NoNames /\ globals' = globals /\ declared' = declared /\ Ids' = Ids
  BY DEF BeginFunction, ClearSymbols, Ids
<1> QED
  BY <1>1, <1>7, <1>8, <1>9, <1>10 DEF TypeInv

\* A block opens a scope and pushes no table: it shares the one around it.
LEMMA EnterBlockType ==
  ASSUME TypeInv, EnterBlock
  PROVE  TypeInv'
<1> DEFINE s == Scope("block", Top.table, NoNames, NoIncrement)
<1>1. NoNames \in PartialFunctions(Names, DeclarationSet) /\ DOMAIN NoNames = {}
  BY NoNamesType
<1>2. Len(stack) \in Nat /\ declared \in Nat /\ Top.table = Len(stack)
  BY Innermost
<1>3. NoIncrement \in IncrementSet /\ "block" \in Kinds
  BY DEF NoIncrement, Increment, IncrementSet, Kinds
<1>4. s = [kind |-> "block", table |-> Len(stack), names |-> NoNames,
           increment |-> NoIncrement]
  BY <1>2 DEF Scope
<1>5. s \in ScopeSet
  BY <1>1, <1>2, <1>3, <1>4, ScopeOf
<1>6. s.kind = "block" /\ s.table = Len(stack) /\ s.names = NoNames
  BY <1>4
<1>7. scopes' = Append(scopes, s) /\ Top.kind # "file" /\ Top.kind # "parameters"
  BY DEF EnterBlock, InFunction
<1> HIDE DEF s
<1>8. Nested(Append(scopes, s), Len(stack)) /\ IdsOK(Append(scopes, s), declared)
  <2>1. \A n \in DOMAIN s.names : s.names[n].id \in 1..declared
    BY <1>1, <1>6
  <2>2. declared <= declared
    BY <1>2
  <2>3. Nested(Append(scopes, s), s.table) /\ IdsOK(Append(scopes, s), declared)
    BY <1>2, <1>5, <1>6, <1>7, <2>1, <2>2, OpeningType
  <2> QED
    BY <1>6, <2>3
<1>9. UNCHANGED <<stack, symbols, globals, declared>> /\ Ids' = Ids
  BY DEF EnterBlock, Ids
<1> QED
  BY <1>7, <1>8, <1>9 DEF TypeInv

\* A loop pushes a table for its scope.
LEMMA EnterForType ==
  ASSUME TypeInv, NEW n \in Names, EnterFor(n)
  PROVE  TypeInv'
<1> DEFINE c == Increment(Contains(PushSymTable(stack), n), n)
           s == Scope("for", Len(stack) + 1, NoNames, c)
<1>1. NoNames \in PartialFunctions(Names, DeclarationSet) /\ DOMAIN NoNames = {}
  BY NoNamesType
<1>2. Len(stack) + 1 \in Nat /\ declared \in Nat
  BY Innermost
<1>3. StackOK(PushSymTable(stack)) /\ Len(PushSymTable(stack)) = Len(stack) + 1
  BY Pushing DEF TypeInv
<1>4. c \in IncrementSet /\ "for" \in Kinds
  <2>1. Contains(PushSymTable(stack), n) \in SUBSET Entries
    BY <1>3, ContainsType DEF StackOK
  <2> QED
    BY <2>1 DEF Increment, IncrementSet, Kinds
<1> HIDE DEF c
<1>5. s = [kind |-> "for", table |-> Len(stack) + 1, names |-> NoNames, increment |-> c]
  BY DEF Scope
<1>6. s \in ScopeSet
  BY <1>1, <1>2, <1>4, <1>5, ScopeOf
<1>7. s.kind = "for" /\ s.table = Len(stack) + 1 /\ s.names = NoNames
  BY <1>5
<1>8. stack' = PushSymTable(stack)
  BY DEF EnterFor
<1>9. scopes' = Append(scopes, s) /\ Top.kind # "file" /\ Top.kind # "parameters"
  BY <1>8 DEF EnterFor, InFunction, c
<1> HIDE DEF s
<1>10. Nested(Append(scopes, s), Len(stack) + 1) /\ IdsOK(Append(scopes, s), declared)
  <2>1. \A x \in DOMAIN s.names : s.names[x].id \in 1..declared
    BY <1>1, <1>7
  <2>2. declared <= declared
    BY <1>2
  <2>3. Nested(Append(scopes, s), s.table) /\ IdsOK(Append(scopes, s), declared)
    BY <1>2, <1>6, <1>7, <1>9, <2>1, <2>2, OpeningType
  <2> QED
    BY <1>7, <2>3
<1>11. UNCHANGED <<symbols, globals, declared>> /\ Ids' = Ids
  BY DEF EnterFor, Ids
<1> QED
  BY <1>3, <1>8, <1>9, <1>10, <1>11 DEF TypeInv

\* A loop pushes a table for its scope, with the object its head declares.
LEMMA EnterForDeclaringType ==
  ASSUME TypeInv, NEW e \in Entries, NEW n \in Names, EnterForDeclaring(e, n)
  PROVE  TypeInv'
<1> DEFINE st == InsertEntry(PushSymTable(stack), e)
           c == Increment(Contains(st, n), n)
           names == With(NoNames, e.name, Declaration(e))
           s == Scope("for", Len(stack) + 1, names, c)
<1>1. NoNames \in PartialFunctions(Names, DeclarationSet) /\ DOMAIN NoNames = {}
  BY NoNamesType
<1>2. Len(stack) + 1 \in Nat /\ declared \in Nat /\ NewId \in Nat /\ e.name \in Names
  BY Innermost, EntryName
<1>3. /\ NewId \in 0..MaxDeclarations /\ NewId \in 1..NewId /\ declared <= NewId
      /\ symbols \in PartialFunctions(Names, 1..NewId)
      /\ globals \in PartialFunctions(Names, 1..NewId)
  <2>1. declared < MaxDeclarations /\ 1 \in DOMAIN scopes
    BY Innermost DEF EnterForDeclaring
  <2> QED
    BY <1>2, <2>1, DeclaringType DEF NewId
<1>4. StackOK(st) /\ Len(st) = Len(stack) + 1
  <2>1. StackOK(PushSymTable(stack)) /\ Len(PushSymTable(stack)) = Len(stack) + 1
    BY Pushing DEF TypeInv
  <2>2. PushSymTable(stack) # <<>> /\ Len(PushSymTable(stack)) \in DOMAIN PushSymTable(stack)
    BY <2>1, Innermost DEF StackOK
  <2> QED
    BY <2>1, <2>2, Inserting DEF StackOK, InsertEntry
<1>5. c \in IncrementSet /\ "for" \in Kinds
  <2>1. Contains(st, n) \in SUBSET Entries
    BY <1>4, ContainsType DEF StackOK
  <2> QED
    BY <2>1 DEF Increment, IncrementSet, Kinds
<1>6. /\ names \in PartialFunctions(Names, DeclarationSet)
      /\ DOMAIN names = {e.name} /\ names[e.name] = Declaration(e)
  <2>1. Declaration(e) \in DeclarationSet
    BY <1>2 DEF Declaration, DeclarationSet
  <2>2. names \in PartialFunctions(Names, DeclarationSet)
        /\ IsWith(names, NoNames, e.name, Declaration(e))
    BY <1>1, <1>2, <2>1, WithType
  <2> QED
    BY <2>2, <1>1 DEF IsWith
<1>7. Declaration(e).id = NewId
  BY DEF Declaration
<1>8. stack' = st
  BY DEF EnterForDeclaring
<1>9. scopes' = Append(scopes, s) /\ Top.kind # "file" /\ Top.kind # "parameters"
  BY <1>8 DEF EnterForDeclaring, InFunction
<1> HIDE DEF st, c, names
<1>10. s = [kind |-> "for", table |-> Len(stack) + 1, names |-> names, increment |-> c]
  BY DEF Scope
<1>11. s \in ScopeSet
  BY <1>2, <1>5, <1>6, <1>10, ScopeOf
<1>12. s.kind = "for" /\ s.table = Len(stack) + 1 /\ s.names = names
  BY <1>10
<1> HIDE DEF s
<1>13. Nested(Append(scopes, s), Len(stack) + 1) /\ IdsOK(Append(scopes, s), NewId)
  <2>1. \A x \in DOMAIN s.names : s.names[x].id \in 1..NewId
    BY <1>3, <1>6, <1>7, <1>12
  <2>2. Nested(Append(scopes, s), s.table) /\ IdsOK(Append(scopes, s), NewId)
    BY <1>2, <1>3, <1>9, <1>11, <1>12, <2>1, OpeningType
  <2> QED
    BY <1>12, <2>2
<1>14. With(symbols, e.name, NewId) \in PartialFunctions(Names, 1..NewId)
  BY <1>2, <1>3, WithType
<1>15. /\ symbols' = With(symbols, e.name, NewId) /\ globals' = globals
       /\ declared' = NewId /\ Ids' = 1..NewId
  BY DEF EnterForDeclaring, Ids
<1> QED
  BY <1>3, <1>4, <1>8, <1>9, <1>13, <1>14, <1>15 DEF TypeInv

\* A scope other than that of the file is left, and its table if it has one.
LEMMA LeavingStep ==
  ASSUME TypeInv, Top.kind # "file", scopes' = Outer,
         stack' = IF Top.kind = "block" THEN stack ELSE PopSymTable(stack),
         UNCHANGED <<symbols, globals, declared>>
  PROVE  TypeInv'
<1>1. Len(scopes) > 1 /\ Len(stack) > 1 /\ Len(stack) \in Nat
  BY Innermost
<1> DEFINE d == IF Top.kind = "block" THEN 0 ELSE 1
<1>2. Nested(Outer, Len(stack) - d) /\ IdsOK(Outer, declared)
  BY <1>1, LeavingType DEF TypeInv, Top, Outer
<1>3. StackOK(stack') /\ Len(stack') = Len(stack) - d
  <2>1. CASE Top.kind = "block"
    BY <2>1, <1>1 DEF TypeInv
  <2>2. CASE Top.kind # "block"
    <3>1. StackOK(PopSymTable(stack)) /\ Len(PopSymTable(stack)) = Len(stack) - 1
      BY <1>1, Popping DEF TypeInv
    <3> QED
      BY <2>2, <3>1
  <2> QED
    BY <2>1, <2>2
<1>4. Ids' = Ids
  BY DEF Ids
<1> HIDE DEF d
<1> QED
  BY <1>2, <1>3, <1>4 DEF TypeInv

\* No step takes the stack of tables out of step with the scopes.
LEMMA TypeStep == TypeInv /\ [Next]_vars => TypeInv'
<1> SUFFICES ASSUME TypeInv, [Next]_vars PROVE TypeInv'
  OBVIOUS
<1>1. Len(scopes) \in DOMAIN scopes /\ 1 \in DOMAIN scopes /\ VisibleNames \subseteq Names
  BY Innermost, VisibleAreNames
<1>2. ASSUME NEW e \in Objects, DeclareGlobal(e) PROVE TypeInv'
  <2>1. e \in Entries /\ declared < MaxDeclarations
    BY <1>2, EntryKinds DEF DeclareGlobal, MayDeclare
  <2>2. /\ stack' = InsertEntry(stack, e) /\ scopes' = DeclareIn(1, e)
        /\ declared' = NewId /\ symbols' = symbols
        /\ globals' = globals \/ globals' = With(globals, e.name, NewId)
    BY <1>2 DEF DeclareGlobal
  <2> QED
    BY <1>1, <2>1, <2>2, DeclaringStep
<1>3. ASSUME NEW e \in Enumerators, DeclareEnumerator(e) PROVE TypeInv'
  <2>1. e \in Entries /\ declared < MaxDeclarations
    BY <1>3, EntryKinds DEF DeclareEnumerator, MayDeclare
  <2>2. /\ stack' = InsertEntry(stack, e) /\ scopes' = DeclareIn(1, e)
        /\ declared' = NewId /\ symbols' = symbols /\ globals' = globals
    BY <1>3 DEF DeclareEnumerator
  <2> QED
    BY <1>1, <2>1, <2>2, DeclaringStep
<1>4. ASSUME NEW e \in Objects, DeclareParameter(e) PROVE TypeInv'
  <2>1. e \in Entries /\ declared < MaxDeclarations
    BY <1>4, EntryKinds DEF DeclareParameter, MayDeclare
  <2>2. /\ stack' = InsertEntry(stack, e) /\ scopes' = DeclareIn(Len(scopes), e)
        /\ declared' = NewId /\ symbols' = symbols /\ globals' = globals
    BY <1>4 DEF DeclareParameter
  <2> QED
    BY <1>1, <2>1, <2>2, DeclaringStep
<1>5. ASSUME NEW e \in Objects, NEW n, DeclareLocal(e, n) PROVE TypeInv'
  <2>1. e \in Entries /\ declared < MaxDeclarations
    BY <1>5, EntryKinds DEF DeclareLocal, MayDeclare
  <2>2. /\ stack' = InsertEntry(stack, e) /\ scopes' = DeclareIn(Len(scopes), e)
        /\ declared' = NewId /\ symbols' = With(symbols, e.name, NewId)
        /\ globals' = globals
    BY <1>5 DEF DeclareLocal
  <2> QED
    BY <1>1, <2>1, <2>2, DeclaringStep
<1>6. ASSUME NEW f \in Functions, BeginBody(f) \/ Prototype(f) PROVE TypeInv'
  BY <1>6, BeginBodyType, PrototypeType
<1>7. ASSUME BeginFunction \/ EnterBlock PROVE TypeInv'
  BY <1>7, BeginFunctionType, EnterBlockType
<1>8. ASSUME NEW n \in VisibleNames, EnterFor(n) PROVE TypeInv'
  BY <1>1, <1>8, EnterForType
<1>9. ASSUME NEW e \in Objects, NEW n \in VisibleNames \cup {e.name}, EnterForDeclaring(e, n)
      PROVE  TypeInv'
  <2>1. e \in Entries /\ n \in Names
    BY <1>1, EntryKinds, EntryName
  <2> QED
    BY <1>9, <2>1, EnterForDeclaringType
<1>10. ASSUME EndFunction PROVE TypeInv'
  <2>1. /\ Top.kind # "file" /\ Top.kind # "block" /\ scopes' = Outer
        /\ stack' = PopSymTable(stack) /\ UNCHANGED <<symbols, globals, declared>>
    BY <1>10 DEF EndFunction
  <2> QED
    BY <2>1, LeavingStep
<1>11. ASSUME LeaveBlock PROVE TypeInv'
  <2>1. /\ Top.kind # "file" /\ Top.kind = "block" /\ scopes' = Outer
        /\ stack' = stack /\ UNCHANGED <<symbols, globals, declared>>
    BY <1>11 DEF LeaveBlock
  <2> QED
    BY <2>1, LeavingStep
<1>12. ASSUME LeaveFor PROVE TypeInv'
  <2>1. /\ Top.kind # "file" /\ Top.kind # "block" /\ scopes' = Outer
        /\ stack' = PopSymTable(stack) /\ UNCHANGED <<symbols, globals, declared>>
    BY <1>12 DEF LeaveFor
  <2> QED
    BY <2>1, LeavingStep
<1>13. ASSUME NEW n, Use(n) PROVE TypeInv'
  BY <1>13 DEF Use, TypeInv, Ids
<1>14. ASSUME EndOfFile \/ UNCHANGED vars PROVE TypeInv'
  BY <1>14 DEF EndOfFile, vars, TypeInv, Ids
<1> QED
  BY <1>2, <1>3, <1>4, <1>5, <1>6, <1>7, <1>8, <1>9, <1>10, <1>11, <1>12, <1>13, <1>14
  DEF Next

\* The inductive invariant gives the types of the variables.
LEMMA TypeInvImpliesTypeOK == TypeInv => TypeOK
<1> SUFFICES ASSUME TypeInv PROVE TypeOK
  OBVIOUS
<1>1. /\ declared \in 0..MaxDeclarations
      /\ Partial(symbols, Names, Ids) /\ Partial(globals, Names, Ids)
  BY PartialFunction DEF TypeInv, Partial
<1>2. ASSUME NEW i \in DOMAIN stack
      PROVE  /\ stack[i].entries \subseteq Entries
             /\ DOMAIN stack[i].last = {e.name : e \in stack[i].entries}
             /\ \A n \in DOMAIN stack[i].last :
                  stack[i].last[n] \in stack[i].entries /\ stack[i].last[n].name = n
  <2>1. stack[i] \in TableSet /\ TableOK(stack[i])
    BY DEF TypeInv, StackOK
  <2>2. stack[i].entries \subseteq Entries
    BY <2>1 DEF TableSet
  <2> QED
    BY <2>1, <2>2 DEF TableOK
<1>3. ASSUME NEW i \in DOMAIN scopes
      PROVE  Partial(scopes[i].names, Names, [entry : Entries, id : Ids])
  <2>1. scopes[i].names \in PartialFunctions(Names, DeclarationSet)
    BY Innermost, ScopeFields
  <2>2. /\ DOMAIN scopes[i].names \subseteq Names
        /\ \A n \in DOMAIN scopes[i].names : scopes[i].names[n] \in DeclarationSet
    BY <2>1, PartialFunction
  <2>3. \A n \in DOMAIN scopes[i].names : scopes[i].names[n].id \in Ids
    BY DEF TypeInv, IdsOK, Ids
  <2>4. \A x \in DeclarationSet : x.id \in Ids => x \in [entry : Entries, id : Ids]
    BY DEF DeclarationSet
  <2> QED
    BY <2>2, <2>3, <2>4 DEF Partial
<1>4. scopes # <<>> /\ Top.table = Len(stack)
  BY Innermost
<1> QED
  BY <1>1, <1>2, <1>3, <1>4 DEF TypeOK

\* The parser's stack of tables is always in step with the scopes that are open:
\* the variables have their types, whatever the entries are.
THEOREM TypeCorrectness == Spec => []TypeOK
<1>1. Init => TypeInv
  BY InitType
<1>2. TypeInv /\ [Next]_vars => TypeInv'
  BY TypeStep
<1>3. TypeInv => TypeOK
  BY TypeInvImpliesTypeOK
<1> QED
  BY <1>1, <1>2, <1>3, PTL DEF Spec

-----------------------------------------------------------------------------
(* What a name stands for *)

\* Every name that is visible is in the table of its scope, and in none of the
\* tables above.
EnteredIn(st, sc) ==
  \A i \in DOMAIN sc : \A n \in DOMAIN sc[i].names :
    /\ n \in DOMAIN st[sc[i].table].last
    /\ \A k \in (sc[i].table + 1)..Len(st) : n \notin DOMAIN st[k].last

\* A declaration has its name.
NamedAsDeclared(sc) ==
  \A i \in DOMAIN sc : \A n \in DOMAIN sc[i].names : sc[i].names[n].entry.name = n

\* A name is declared in one of the open scopes.
Disjoint(sc) ==
  \A i, j \in DOMAIN sc : \A n \in DOMAIN sc[i].names :
    n \in DOMAIN sc[j].names => i = j

\* Code generation has the objects of the function that are visible,
LocalsBound(sc, sym) ==
  \A i \in DOMAIN sc : i > 1 =>
    \A n \in DOMAIN sc[i].names : n \in DOMAIN sym /\ sym[n] = sc[i].names[n].id

\* and those of the file.
GlobalsBound(sc, glob) ==
  /\ DOMAIN glob \subseteq DOMAIN sc[1].names
  /\ \A n \in DOMAIN sc[1].names : sc[1].names[n].entry \in Objects =>
       n \in DOMAIN glob /\ glob[n] = sc[1].names[n].id

\* No object of a function hides a name of the file, those of blocks and loops
\* that were left included.
Apart(sc, sym) == Len(sc) > 1 => DOMAIN sym \cap DOMAIN sc[1].names = {}

\* The name in the increment of a loop is visible there.
IncrementsOK(sc) ==
  \A i \in DOMAIN sc : sc[i].kind = "for" =>
    /\ \E k \in DOMAIN sc : k <= i /\ sc[i].increment.name \in DOMAIN sc[k].names
    /\ \E e \in Entries : e.name = sc[i].increment.name /\ sc[i].increment.entry = {e}

\* Before the body, only the parameters are in the table of the function.
ParametersOnly(st, sc, sym) ==
  sc[Len(sc)].kind = "parameters" =>
    /\ DOMAIN sym = {}
    /\ \A e \in st[Len(st)].entries : e.name \in DOMAIN sc[Len(sc)].names

ResolutionInv ==
  /\ EnteredIn(stack, scopes)
  /\ NamedAsDeclared(scopes)
  /\ Disjoint(scopes)
  /\ Top.kind # "parameters" => LocalsBound(scopes, symbols)
  /\ GlobalsBound(scopes, globals)
  /\ Apart(scopes, symbols)
  /\ IncrementsOK(scopes)
  /\ ParametersOnly(stack, scopes, symbols)

OneEntryPerName == \A e, f \in Entries : e.name = f.name => e = f

\* A scope has a table.
LEMMA ScopeTables ==
  ASSUME NEW sc, NEW n, Nested(sc, n)
  PROVE  \A i \in DOMAIN sc : sc[i].table \in 1..n
<1>1. sc \in Seq(ScopeSet) /\ sc # <<>> /\ sc[1].table = 1 /\ sc[Len(sc)].table = n
      /\ \A i, j \in DOMAIN sc : i <= j => sc[i].table <= sc[j].table
  BY DEF Nested
<1>2. n \in Nat /\ \A i \in DOMAIN sc : sc[i].table \in Nat
  BY NestedTables
<1>3. ASSUME NEW i \in DOMAIN sc PROVE sc[i].table \in 1..n
  <2>1. 1 \in DOMAIN sc /\ Len(sc) \in DOMAIN sc /\ 1 <= i /\ i <= Len(sc)
    BY <1>1
  <2>2. 1 <= sc[i].table /\ sc[i].table <= n
    BY <1>1, <2>1
  <2> QED
    BY <1>2, <2>2
<1> QED
  BY <1>3

\* What C sees is the one declaration of the name,
LEMMA Seeing ==
  ASSUME NEW sc, sc \in Seq(ScopeSet), Disjoint(sc),
         NEW i \in DOMAIN sc, NEW n \in DOMAIN sc[i].names
  PROVE  Seen(sc, n) = sc[i].names[n]
<1> DEFINE P(k) == /\ n \in DOMAIN sc[k].names
                   /\ \A j \in (k + 1)..Len(sc) : n \notin DOMAIN sc[j].names
<1>1. \A j \in (i + 1)..Len(sc) : j \in DOMAIN sc /\ j # i
  OBVIOUS
<1>2. P(i)
  BY <1>1 DEF Disjoint
<1>3. \A k \in DOMAIN sc : P(k) => k = i
  BY DEF Disjoint
<1>4. (CHOOSE k \in DOMAIN sc : P(k)) = i
  BY <1>2, <1>3
<1> QED
  BY <1>4 DEF Seen

\* and both passes find it.
LEMMA Resolving ==
  ASSUME TypeInv, ResolutionInv, OneEntryPerName,
         NEW i \in DOMAIN scopes, NEW n \in DOMAIN scopes[i].names
  PROVE  /\ Contains(stack, n) = {scopes[i].names[n].entry}
         /\ Seen(scopes, n) = scopes[i].names[n]
         /\ InFunction /\ scopes[i].names[n].entry \in Objects =>
              GetSymbolValue(symbols, n) = scopes[i].names[n].id
<1> DEFINE d == scopes[i].names[n]
           t == scopes[i].table
<1>1. scopes \in Seq(ScopeSet) /\ stack \in Seq(TableSet) /\ t \in DOMAIN stack
  BY Innermost, ScopeTables DEF TypeInv
<1>2. Seen(scopes, n) = d
  BY <1>1, Seeing DEF ResolutionInv
<1>3. /\ n \in DOMAIN stack[t].last
      /\ \A k \in (t + 1)..Len(stack) : n \notin DOMAIN stack[k].last
  BY DEF ResolutionInv, EnteredIn
<1>4. Contains(stack, n) = {stack[t].last[n]}
  BY <1>1, <1>3, Finding
<1>5. stack[t].last[n] \in Entries /\ stack[t].last[n].name = n
  <2>1. stack[t] \in TableSet /\ TableOK(stack[t])
    BY <1>1 DEF TypeInv, StackOK
  <2> QED
    BY <1>3, <2>1, PartialFunction DEF TableSet, TableOK
<1>6. d.entry \in Entries /\ d.entry.name = n
  <2>1. d \in DeclarationSet
    BY <1>1, ScopeFields, PartialFunction
  <2> QED
    BY <2>1 DEF DeclarationSet, ResolutionInv, NamedAsDeclared
<1>7. Contains(stack, n) = {d.entry}
  BY <1>4, <1>5, <1>6 DEF OneEntryPerName
<1>8. ASSUME InFunction, d.entry \in Objects
      PROVE  GetSymbolValue(symbols, n) = d.id
  <2>1. Top.kind # "parameters" /\ Top.kind # "file"
    BY <1>8 DEF InFunction
  <2>2. Len(scopes) > 1
    BY <2>1, Innermost
  <2>3. CASE i > 1
    BY <2>1, <2>3 DEF ResolutionInv, LocalsBound, GetSymbolValue
  <2>4. CASE i = 1
    <3>1. n \notin DOMAIN symbols
      BY <2>2, <2>4 DEF ResolutionInv, Apart
    <3>2. n \in DOMAIN globals /\ globals[n] = d.id
      BY <1>8, <2>4 DEF ResolutionInv, GlobalsBound
    <3> QED
      BY <3>1, <3>2 DEF GetSymbolValue
  <2> QED
    BY <1>1, <2>3, <2>4
<1> QED
  BY <1>2, <1>7, <1>8

\* The parts of the invariant that do not speak of code generation's tables.
ParserInv(st, sc) ==
  EnteredIn(st, sc) /\ NamedAsDeclared(sc) /\ Disjoint(sc) /\ IncrementsOK(sc)

\* The scopes with a declaration of e in the scope i.
LEMMA Declared ==
  ASSUME TypeInv, NEW e \in Entries, NEW i \in DOMAIN scopes
  PROVE  LET t == DeclareIn(i, e) IN
         /\ t \in Seq(ScopeSet) /\ Len(t) = Len(scopes) /\ DOMAIN t = DOMAIN scopes
         /\ \A j \in DOMAIN scopes :
              /\ t[j].kind = scopes[j].kind /\ t[j].table = scopes[j].table
              /\ t[j].increment = scopes[j].increment
              /\ j # i => t[j].names = scopes[j].names
         /\ DOMAIN t[i].names = DOMAIN scopes[i].names \cup {e.name}
         /\ t[i].names[e.name].entry = e /\ t[i].names[e.name].id = NewId
         /\ \A n \in DOMAIN scopes[i].names :
              n # e.name => t[i].names[n] = scopes[i].names[n]
<1> DEFINE t == DeclareIn(i, e)
<1>1. scopes \in Seq(ScopeSet) /\ declared \in Nat
  BY Innermost
<1>2. /\ Alike(scopes, t)
      /\ \A j \in DOMAIN scopes : j # i => t[j] = scopes[j]
      /\ IsWith(t[i].names, scopes[i].names, e.name, Declaration(e))
  BY <1>1, Declaring
<1> HIDE DEF t
<1>3. t \in Seq(ScopeSet) /\ Len(t) = Len(scopes) /\ DOMAIN t = DOMAIN scopes
  BY <1>1, <1>2 DEF Alike
<1>4. Declaration(e).entry = e /\ Declaration(e).id = NewId
  BY DEF Declaration
<1> QED
  BY <1>2, <1>3, <1>4 DEF Alike, IsWith, t

\* The increments of the open loops stay right when names are added to scopes.
LEMMA IncrementsStay ==
  ASSUME NEW sc, NEW t, IncrementsOK(sc), DOMAIN t = DOMAIN sc,
         \A j \in DOMAIN sc : /\ t[j].kind = "for" => sc[j].kind = "for"
                              /\ t[j].increment = sc[j].increment
                              /\ DOMAIN sc[j].names \subseteq DOMAIN t[j].names
  PROVE  IncrementsOK(t)
<1> SUFFICES ASSUME NEW i \in DOMAIN t, t[i].kind = "for"
             PROVE  /\ \E k \in DOMAIN t : k <= i /\ t[i].increment.name \in DOMAIN t[k].names
                    /\ \E e \in Entries : e.name = t[i].increment.name
                                           /\ t[i].increment.entry = {e}
  BY DEF IncrementsOK
<1>1. sc[i].kind = "for" /\ t[i].increment = sc[i].increment
  OBVIOUS
<1>2. PICK k \in DOMAIN sc : k <= i /\ sc[i].increment.name \in DOMAIN sc[k].names
  BY <1>1 DEF IncrementsOK
<1>3. \E e \in Entries : e.name = sc[i].increment.name /\ sc[i].increment.entry = {e}
  BY <1>1 DEF IncrementsOK
<1>4. t[i].increment.name \in DOMAIN t[k].names
  BY <1>1, <1>2
<1> QED
  BY <1>1, <1>2, <1>3, <1>4

\* A new name is declared in the innermost scope.
LEMMA DeclaringResolution ==
  ASSUME TypeInv, ResolutionInv, NEW e \in Entries, e.name \notin VisibleNames
  PROVE  ParserInv(InsertEntry(stack, e), DeclareIn(Len(scopes), e))
<1> DEFINE top == Len(scopes)
           t == DeclareIn(top, e)
           st == InsertEntry(stack, e)
<1>1. /\ top \in DOMAIN scopes /\ scopes[top].table = Len(stack)
      /\ Len(stack) \in DOMAIN stack /\ stack \in Seq(TableSet)
  BY Innermost DEF Top
<1>2. /\ DOMAIN t = DOMAIN scopes
      /\ \A j \in DOMAIN scopes :
           /\ t[j].kind = scopes[j].kind /\ t[j].table = scopes[j].table
           /\ t[j].increment = scopes[j].increment
           /\ j # top => t[j].names = scopes[j].names
      /\ DOMAIN t[top].names = DOMAIN scopes[top].names \cup {e.name}
      /\ t[top].names[e.name].entry = e
      /\ \A n \in DOMAIN scopes[top].names :
           n # e.name => t[top].names[n] = scopes[top].names[n]
  BY <1>1, Declared
<1>3. /\ Len(st) = Len(stack)
      /\ \A j \in DOMAIN stack : j # Len(stack) => st[j] = stack[j]
      /\ DOMAIN stack[Len(stack)].last \subseteq DOMAIN st[Len(stack)].last
      /\ DOMAIN st[Len(stack)].last \subseteq DOMAIN stack[Len(stack)].last \cup {e.name}
      /\ e.name \in DOMAIN st[Len(stack)].last
  BY <1>1, Inserting DEF TypeInv, StackOK, InsertEntry
<1>4. \A j \in DOMAIN scopes : e.name \notin DOMAIN scopes[j].names
  BY DEF VisibleNames
<1>5. \A j \in DOMAIN scopes : scopes[j].table \in 1..Len(stack)
  BY ScopeTables DEF TypeInv
<1> HIDE DEF t, st, top
<1>6. EnteredIn(st, t)
  <2> SUFFICES ASSUME NEW i \in DOMAIN scopes, NEW n \in DOMAIN t[i].names
               PROVE  /\ n \in DOMAIN st[t[i].table].last
                      /\ \A k \in (t[i].table + 1)..Len(st) : n \notin DOMAIN st[k].last
    BY <1>2 DEF EnteredIn
  <2>1. CASE n \in DOMAIN scopes[i].names
    <3>1. n \in DOMAIN stack[scopes[i].table].last
          /\ \A k \in (scopes[i].table + 1)..Len(stack) : n \notin DOMAIN stack[k].last
      BY <2>1 DEF ResolutionInv, EnteredIn
    <3>2. n # e.name
      BY <1>4, <2>1
    <3>3. n \in DOMAIN st[scopes[i].table].last
      BY <1>1, <1>3, <1>5, <3>1
    <3>4. ASSUME NEW k \in (scopes[i].table + 1)..Len(stack)
          PROVE  n \notin DOMAIN st[k].last
      <4>1. k \in DOMAIN stack /\ n \notin DOMAIN stack[k].last
        BY <1>1, <1>5, <3>1
      <4> QED
        BY <1>3, <3>2, <4>1
    <3> QED
      BY <1>2, <1>3, <3>3, <3>4
  <2>2. CASE n \notin DOMAIN scopes[i].names
    <3>1. i = top /\ n = e.name
      BY <1>2, <2>2
    <3> QED
      BY <1>1, <1>2, <1>3, <3>1
  <2> QED
    BY <2>1, <2>2
<1>7. NamedAsDeclared(t)
  <2> SUFFICES ASSUME NEW i \in DOMAIN scopes, NEW n \in DOMAIN t[i].names
               PROVE  t[i].names[n].entry.name = n
    BY <1>2 DEF NamedAsDeclared
  <2>1. CASE n \in DOMAIN scopes[i].names
    BY <1>2, <1>4, <2>1 DEF ResolutionInv, NamedAsDeclared
  <2>2. CASE n \notin DOMAIN scopes[i].names
    BY <1>2, <2>2
  <2> QED
    BY <2>1, <2>2
<1>8. Disjoint(t)
  <2> SUFFICES ASSUME NEW i \in DOMAIN scopes, NEW j \in DOMAIN scopes,
                      NEW n \in DOMAIN t[i].names, n \in DOMAIN t[j].names
               PROVE  i = j
    BY <1>2 DEF Disjoint
  <2>1. CASE n = e.name
    BY <1>2, <1>4, <2>1
  <2>2. CASE n # e.name
    <3>1. n \in DOMAIN scopes[i].names /\ n \in DOMAIN scopes[j].names
      BY <1>2, <2>2
    <3> QED
      BY <3>1 DEF ResolutionInv, Disjoint
  <2> QED
    BY <2>1, <2>2
<1>9. IncrementsOK(t)
  BY <1>2, IncrementsStay DEF ResolutionInv
<1> QED
  BY <1>6, <1>7, <1>8, <1>9 DEF ParserInv, t, st, top

\* What is found for a name has that name.
LEMMA FindingEntry ==
  ASSUME NEW st, StackOK(st), NEW n, NEW t \in DOMAIN st, n \in DOMAIN st[t].last,
         \A k \in (t + 1)..Len(st) : n \notin DOMAIN st[k].last
  PROVE  \E e \in Entries : e.name = n /\ Contains(st, n) = {e}
<1>1. st \in Seq(TableSet) /\ st[t] \in TableSet /\ TableOK(st[t])
  BY DEF StackOK
<1>2. Contains(st, n) = {st[t].last[n]}
  BY <1>1, Finding
<1>3. st[t].last[n] \in Entries /\ st[t].last[n].name = n
  BY <1>1, PartialFunction DEF TableSet, TableOK
<1> QED
  BY <1>2, <1>3

\* A scope is opened, with a table that is empty but for its own names, or with
\* none.
LEMMA OpeningResolution ==
  ASSUME TypeInv, ResolutionInv, NEW s \in ScopeSet, NEW st, StackOK(st),
         s.table = Len(st), Len(st) >= Len(stack),
         \A i \in DOMAIN stack : st[i] = stack[i],
         \A k \in (Len(stack) + 1)..Len(st) : DOMAIN st[k].last \subseteq DOMAIN s.names,
         \A n \in DOMAIN s.names :
           n \notin VisibleNames /\ s.names[n].entry.name = n /\ n \in DOMAIN st[Len(st)].last,
         s.kind = "for" =>
           /\ s.increment.name \in VisibleNames \cup DOMAIN s.names
           /\ \E e \in Entries : e.name = s.increment.name /\ s.increment.entry = {e}
  PROVE  ParserInv(st, Append(scopes, s))
<1> DEFINE t == Append(scopes, s)
<1>1. /\ scopes \in Seq(ScopeSet) /\ Len(scopes) \in Nat /\ DOMAIN scopes = 1..Len(scopes)
      /\ Len(stack) \in Nat /\ DOMAIN stack = 1..Len(stack)
      /\ Len(st) \in Nat /\ DOMAIN st = 1..Len(st)
  BY Innermost DEF StackOK
<1>2. /\ DOMAIN t = 1..(Len(scopes) + 1)
      /\ \A i \in DOMAIN scopes : t[i] = scopes[i]
      /\ t[Len(scopes) + 1] = s
  BY <1>1
<1>3. \A j \in DOMAIN scopes : scopes[j].table \in 1..Len(stack)
  BY ScopeTables DEF TypeInv
<1>4. \A n \in DOMAIN s.names : \A j \in DOMAIN scopes : n \notin DOMAIN scopes[j].names
  BY DEF VisibleNames
<1> HIDE DEF t
<1>5. EnteredIn(st, t)
  <2> SUFFICES ASSUME NEW i \in DOMAIN t, NEW n \in DOMAIN t[i].names
               PROVE  /\ n \in DOMAIN st[t[i].table].last
                      /\ \A k \in (t[i].table + 1)..Len(st) : n \notin DOMAIN st[k].last
    BY DEF EnteredIn
  <2>1. CASE i \in DOMAIN scopes
    <3>1. n \in DOMAIN scopes[i].names /\ t[i].table = scopes[i].table
      BY <1>2, <2>1
    <3>2. n \in DOMAIN stack[scopes[i].table].last
          /\ \A k \in (scopes[i].table + 1)..Len(stack) : n \notin DOMAIN stack[k].last
      BY <2>1, <3>1 DEF ResolutionInv, EnteredIn
    <3>3. n \in DOMAIN st[scopes[i].table].last
      BY <1>1, <1>3, <2>1, <3>2
    <3>4. ASSUME NEW k \in (scopes[i].table + 1)..Len(st)
          PROVE  n \notin DOMAIN st[k].last
      <4>1. scopes[i].table \in 1..Len(stack)
        BY <1>3, <2>1
      <4>2. CASE k <= Len(stack)
        BY <1>1, <4>1, <4>2, <3>2
      <4>3. CASE k > Len(stack)
        <5>1. k \in (Len(stack) + 1)..Len(st)
          BY <1>1, <4>1, <4>3
        <5> QED
          BY <5>1, <1>4, <2>1, <3>1
      <4> QED
        BY <1>1, <4>1, <4>2, <4>3
    <3> QED
      BY <3>1, <3>3, <3>4
  <2>2. CASE i = Len(scopes) + 1
    <3>1. n \in DOMAIN s.names /\ t[i].table = Len(st)
      BY <1>2, <2>2
    <3>2. (Len(st) + 1)..Len(st) = {}
      BY <1>1
    <3> QED
      BY <3>1, <3>2
  <2> QED
    BY <1>1, <1>2, <2>1, <2>2
<1>6. NamedAsDeclared(t)
  BY <1>1, <1>2 DEF ResolutionInv, NamedAsDeclared
<1>7. Disjoint(t)
  <2> SUFFICES ASSUME NEW i \in DOMAIN t, NEW j \in DOMAIN t,
                      NEW n \in DOMAIN t[i].names, n \in DOMAIN t[j].names
               PROVE  i = j
    BY DEF Disjoint
  <2>1. CASE i \in DOMAIN scopes /\ j \in DOMAIN scopes
    BY <1>2, <2>1 DEF ResolutionInv, Disjoint
  <2>2. CASE i \notin DOMAIN scopes \/ j \notin DOMAIN scopes
    <3>1. i \notin DOMAIN scopes => i = Len(scopes) + 1
      BY <1>1, <1>2
    <3>2. j \notin DOMAIN scopes => j = Len(scopes) + 1
      BY <1>1, <1>2
    <3> QED
      BY <1>2, <1>4, <2>2, <3>1, <3>2
  <2> QED
    BY <2>1, <2>2
<1>8. IncrementsOK(t)
  <2> SUFFICES ASSUME NEW i \in DOMAIN t, t[i].kind = "for"
               PROVE  /\ \E k \in DOMAIN t : k <= i /\ t[i].increment.name \in DOMAIN t[k].names
                      /\ \E e \in Entries : e.name = t[i].increment.name
                                             /\ t[i].increment.entry = {e}
    BY DEF IncrementsOK
  <2>1. CASE i \in DOMAIN scopes
    <3>1. t[i] = scopes[i]
      BY <1>2, <2>1
    <3>2. PICK k \in DOMAIN scopes : k <= i /\ scopes[i].increment.name \in DOMAIN scopes[k].names
      BY <2>1, <3>1 DEF ResolutionInv, IncrementsOK
    <3>3. k \in DOMAIN t /\ t[k] = scopes[k]
      BY <1>1, <1>2
    <3>4. \E e \in Entries : e.name = scopes[i].increment.name /\ scopes[i].increment.entry = {e}
      BY <2>1, <3>1 DEF ResolutionInv, IncrementsOK
    <3> QED
      BY <3>1, <3>2, <3>3, <3>4
  <2>2. CASE i = Len(scopes) + 1
    <3>1. t[i] = s
      BY <1>2, <2>2
    <3>2. CASE s.increment.name \in DOMAIN s.names
      <4>1. i <= i
        BY <1>1, <2>2
      <4> QED
        BY <3>1, <3>2, <4>1
    <3>3. CASE s.increment.name \in VisibleNames
      <4>1. PICK k \in DOMAIN scopes : s.increment.name \in DOMAIN scopes[k].names
        BY <3>3 DEF VisibleNames
      <4>2. k \in DOMAIN t /\ t[k] = scopes[k] /\ k <= i
        BY <1>1, <1>2, <2>2
      <4> QED
        BY <3>1, <4>1, <4>2
    <3> QED
      BY <3>1, <3>2, <3>3
  <2> QED
    BY <1>1, <1>2, <2>1, <2>2
<1> QED
  BY <1>5, <1>6, <1>7, <1>8 DEF ParserInv, t

\* The innermost scope is left, and its table if it has one.
LEMMA LeavingResolution ==
  ASSUME NEW sc, NEW st, Nested(sc, Len(st)), StackOK(st), Len(sc) > 1, Len(st) > 1,
         ParserInv(st, sc)
  PROVE  ParserInv(IF sc[Len(sc)].kind = "block" THEN st ELSE PopSymTable(st),
                   SubSeq(sc, 1, Len(sc) - 1))
<1> DEFINE t == SubSeq(sc, 1, Len(sc) - 1)
           d == IF sc[Len(sc)].kind = "block" THEN 0 ELSE 1
           new == IF sc[Len(sc)].kind = "block" THEN st ELSE PopSymTable(st)
<1>1. /\ Nested(t, Len(st) - d) /\ Len(t) = Len(sc) - 1
      /\ \A i \in DOMAIN t : t[i] = sc[i]
  BY Leaving
<1>2. \A i \in DOMAIN t : t[i].table \in 1..(Len(st) - d)
  BY <1>1, ScopeTables
<1>3. /\ Len(sc) \in Nat /\ DOMAIN sc = 1..Len(sc) /\ DOMAIN t = 1..Len(t)
      /\ Len(st) \in Nat /\ DOMAIN st = 1..Len(st)
  BY <1>1 DEF Nested, StackOK
<1>4. Len(new) = Len(st) - d /\ \A i \in 1..(Len(st) - d) : new[i] = st[i]
  <2>1. CASE sc[Len(sc)].kind = "block"
    BY <2>1, <1>3
  <2>2. CASE sc[Len(sc)].kind # "block"
    <3>1. StackOK(PopSymTable(st)) /\ Len(PopSymTable(st)) = Len(st) - 1
          /\ \A i \in DOMAIN PopSymTable(st) : PopSymTable(st)[i] = st[i]
      BY Popping
    <3>2. DOMAIN PopSymTable(st) = 1..(Len(st) - 1)
      BY <3>1 DEF StackOK
    <3> QED
      BY <2>2, <3>1, <3>2
  <2> QED
    BY <2>1, <2>2
<1>5. d \in 0..1
  OBVIOUS
<1> HIDE DEF t, d, new
<1>6. DOMAIN t \subseteq DOMAIN sc
  BY <1>1, <1>3
<1>7. EnteredIn(new, t)
  <2> SUFFICES ASSUME NEW i \in DOMAIN t, NEW n \in DOMAIN t[i].names
               PROVE  /\ n \in DOMAIN new[t[i].table].last
                      /\ \A k \in (t[i].table + 1)..Len(new) : n \notin DOMAIN new[k].last
    BY DEF EnteredIn
  <2>1. /\ n \in DOMAIN st[t[i].table].last
        /\ \A k \in (t[i].table + 1)..Len(st) : n \notin DOMAIN st[k].last
    BY <1>1, <1>6 DEF ParserInv, EnteredIn
  <2>2. t[i].table \in 1..(Len(st) - d)
    BY <1>2
  <2>3. n \in DOMAIN new[t[i].table].last
    BY <1>4, <2>1, <2>2
  <2>4. ASSUME NEW k \in (t[i].table + 1)..Len(new)
        PROVE  n \notin DOMAIN new[k].last
    <3>1. k \in 1..(Len(st) - d) /\ k \in (t[i].table + 1)..Len(st)
      BY <1>3, <1>4, <1>5, <2>2
    <3> QED
      BY <1>4, <2>1, <3>1
  <2> QED
    BY <2>3, <2>4
<1>8. NamedAsDeclared(t) /\ Disjoint(t)
  BY <1>1, <1>6 DEF ParserInv, NamedAsDeclared, Disjoint
<1>9. IncrementsOK(t)
  <2> SUFFICES ASSUME NEW i \in DOMAIN t, t[i].kind = "for"
               PROVE  /\ \E k \in DOMAIN t : k <= i /\ t[i].increment.name \in DOMAIN t[k].names
                      /\ \E e \in Entries : e.name = t[i].increment.name
                                             /\ t[i].increment.entry = {e}
    BY DEF IncrementsOK
  <2>1. i \in DOMAIN sc /\ t[i] = sc[i]
    BY <1>1, <1>6
  <2>2. PICK k \in DOMAIN sc : k <= i /\ sc[i].increment.name \in DOMAIN sc[k].names
    BY <2>1 DEF ParserInv, IncrementsOK
  <2>3. k \in DOMAIN t /\ t[k] = sc[k]
    BY <1>1, <1>3, <2>2
  <2>4. \E e \in Entries : e.name = sc[i].increment.name /\ sc[i].increment.entry = {e}
    BY <2>1 DEF ParserInv, IncrementsOK
  <2> QED
    BY <2>1, <2>2, <2>3, <2>4
<1> QED
  BY <1>7, <1>8, <1>9 DEF ParserInv, t, new

\* What is visible in one of the scopes is found in the tables.
LEMMA EnteredAreFound ==
  ASSUME NEW st, NEW sc, StackOK(st), Nested(sc, Len(st)), EnteredIn(st, sc),
         NEW i \in DOMAIN sc, NEW n \in DOMAIN sc[i].names
  PROVE  \E e \in Entries : e.name = n /\ Contains(st, n) = {e}
<1>1. sc[i].table \in 1..Len(st)
  BY ScopeTables
<1>2. sc[i].table \in DOMAIN st
  BY <1>1 DEF StackOK
<1>3. /\ n \in DOMAIN st[sc[i].table].last
      /\ \A k \in (sc[i].table + 1)..Len(st) : n \notin DOMAIN st[k].last
  BY DEF EnteredIn
<1> QED
  BY <1>2, <1>3, FindingEntry

\* A new name is declared in a function.
LEMMA DeclaringInFunction ==
  ASSUME TypeInv, ResolutionInv, NEW e \in Entries, e.name \notin VisibleNames,
         Top.kind # "file"
  PROVE  LET t == DeclareIn(Len(scopes), e) IN
         /\ GlobalsBound(t, globals)
         /\ Apart(t, symbols) /\ Apart(t, With(symbols, e.name, NewId))
         /\ LocalsBound(scopes, symbols) => LocalsBound(t, With(symbols, e.name, NewId))
<1> DEFINE top == Len(scopes)
           t == DeclareIn(top, e)
           new == With(symbols, e.name, NewId)
<1>1. top \in DOMAIN scopes /\ 1 \in DOMAIN scopes /\ top > 1 /\ DOMAIN scopes = 1..top
      /\ top \in Nat
  BY Innermost
<1>2. /\ DOMAIN t = DOMAIN scopes /\ Len(t) = Len(scopes)
      /\ \A j \in DOMAIN scopes : j # top => t[j].names = scopes[j].names
      /\ DOMAIN t[top].names = DOMAIN scopes[top].names \cup {e.name}
      /\ t[top].names[e.name].id = NewId
      /\ \A n \in DOMAIN scopes[top].names :
           n # e.name => t[top].names[n] = scopes[top].names[n]
  BY <1>1, Declared
<1>3. \A j \in DOMAIN scopes : e.name \notin DOMAIN scopes[j].names
  BY DEF VisibleNames
<1>4. IsWith(new, symbols, e.name, NewId)
  <2>1. e.name \in Names
    BY EntryName
  <2>2. symbols \in PartialFunctions(Names, Nat)
    <3>1. Ids \subseteq Nat
      BY DEF Ids
    <3> QED
      BY <3>1, Larger DEF TypeInv
  <2>3. NewId \in Nat
    BY Innermost
  <2> QED
    BY <2>1, <2>2, <2>3, WithType
<1> HIDE DEF t, top, new
<1>5. t[1].names = scopes[1].names
  BY <1>1, <1>2
<1>6. GlobalsBound(t, globals)
  BY <1>5 DEF ResolutionInv, GlobalsBound
<1>7. Apart(scopes, symbols) /\ Len(scopes) > 1
  BY <1>1 DEF ResolutionInv, top
<1>8. Apart(t, symbols)
  BY <1>2, <1>5, <1>7 DEF Apart
<1>9. Apart(t, new)
  BY <1>1, <1>2, <1>3, <1>4, <1>5, <1>7 DEF Apart, IsWith
<1>10. ASSUME LocalsBound(scopes, symbols) PROVE LocalsBound(t, new)
  <2> SUFFICES ASSUME NEW i \in DOMAIN scopes, i > 1, NEW n \in DOMAIN t[i].names
               PROVE  n \in DOMAIN new /\ new[n] = t[i].names[n].id
    BY <1>2 DEF LocalsBound
  <2>1. CASE n = e.name
    <3>1. i = top
      BY <1>2, <1>3, <2>1
    <3> QED
      BY <1>2, <1>4, <2>1, <3>1 DEF IsWith
  <2>2. CASE n # e.name
    <3>1. n \in DOMAIN scopes[i].names /\ t[i].names[n] = scopes[i].names[n]
      BY <1>2, <2>2
    <3>2. n \in DOMAIN symbols /\ symbols[n] = scopes[i].names[n].id
      BY <1>10, <3>1 DEF LocalsBound
    <3> QED
      BY <1>4, <2>2, <3>1, <3>2 DEF IsWith
  <2> QED
    BY <2>1, <2>2
<1> QED
  BY <1>6, <1>8, <1>9, <1>10 DEF t, top, new

\* A scope that is opened in a function leaves the tables of code generation.
LEMMA OpeningInFunction ==
  ASSUME TypeInv, ResolutionInv, Top.kind # "file", Top.kind # "parameters",
         NEW s, NEW sym,
         \/ sym = symbols /\ DOMAIN s.names = {}
         \/ \E e \in Entries : /\ sym = With(symbols, e.name, NewId)
                               /\ e.name \notin VisibleNames
                               /\ DOMAIN s.names = {e.name}
                               /\ s.names[e.name].id = NewId
  PROVE  LET t == Append(scopes, s) IN
         GlobalsBound(t, globals) /\ Apart(t, sym) /\ LocalsBound(t, sym)
<1> DEFINE t == Append(scopes, s)
<1>1. scopes \in Seq(ScopeSet) /\ Len(scopes) > 1 /\ 1 \in DOMAIN scopes
  BY Innermost
<1>2. /\ DOMAIN t = 1..(Len(scopes) + 1) /\ Len(t) = Len(scopes) + 1
      /\ \A i \in DOMAIN scopes : t[i] = scopes[i]
      /\ t[Len(scopes) + 1] = s /\ DOMAIN scopes = 1..Len(scopes) /\ Len(scopes) \in Nat
  BY <1>1
<1> HIDE DEF t
<1>3. t[1] = scopes[1]
  BY <1>1, <1>2
<1>4. GlobalsBound(t, globals)
  BY <1>3 DEF ResolutionInv, GlobalsBound
<1>5. /\ \A n \in DOMAIN symbols : n \in DOMAIN sym
      /\ \A n \in DOMAIN symbols : n \in VisibleNames => sym[n] = symbols[n]
      /\ \A n \in DOMAIN sym : n \in DOMAIN symbols \/ n \notin VisibleNames
      /\ \A n \in DOMAIN s.names : n \in DOMAIN sym /\ sym[n] = s.names[n].id
  <2>1. CASE sym = symbols /\ DOMAIN s.names = {}
    BY <2>1
  <2>2. CASE \E e \in Entries : /\ sym = With(symbols, e.name, NewId)
                                /\ e.name \notin VisibleNames
                                /\ DOMAIN s.names = {e.name}
                                /\ s.names[e.name].id = NewId
    <3>1. PICK e \in Entries : /\ sym = With(symbols, e.name, NewId)
                               /\ e.name \notin VisibleNames
                               /\ DOMAIN s.names = {e.name}
                               /\ s.names[e.name].id = NewId
      BY <2>2
    <3>2. Ids \subseteq Nat /\ NewId \in Nat
      BY Innermost DEF Ids
    <3>3. symbols \in PartialFunctions(Names, Nat)
      BY <3>2, Larger DEF TypeInv
    <3>4. IsWith(sym, symbols, e.name, NewId)
      BY <3>1, <3>2, <3>3, EntryName, WithType
    <3> QED
      BY <3>1, <3>4 DEF IsWith
  <2> QED
    BY <2>1, <2>2
<1>6. \A i \in DOMAIN scopes : DOMAIN scopes[i].names \subseteq VisibleNames
  BY DEF VisibleNames
<1>7. Apart(t, sym)
  BY <1>1, <1>3, <1>5, <1>6 DEF ResolutionInv, Apart
<1>8. LocalsBound(t, sym)
  <2> SUFFICES ASSUME NEW i \in DOMAIN t, i > 1, NEW n \in DOMAIN t[i].names
               PROVE  n \in DOMAIN sym /\ sym[n] = t[i].names[n].id
    BY DEF LocalsBound
  <2>1. CASE i \in DOMAIN scopes
    <3>1. n \in DOMAIN symbols /\ symbols[n] = scopes[i].names[n].id
      BY <1>2, <2>1 DEF ResolutionInv, LocalsBound
    <3> QED
      BY <1>2, <1>5, <1>6, <2>1, <3>1
  <2>2. CASE i = Len(scopes) + 1
    BY <1>2, <1>5, <2>2
  <2> QED
    BY <1>2, <2>1, <2>2
<1> QED
  BY <1>4, <1>7, <1>8 DEF t

-----------------------------------------------------------------------------
(* The steps.  No declaration hides another one. *)

\* Without shadowing, no declaration takes a name that is visible.
LEMMA NotVisible ==
  ASSUME ~Shadowing, NEW e, MayDeclare(e)
  PROVE  e.name \notin VisibleNames
  BY DEF MayDeclare

\* A declaration of the file keeps the invariant.
LEMMA GlobalStep ==
  ASSUME TypeInv, ResolutionInv, ~Shadowing, NEW e \in Entries,
         (e \in Objects /\ DeclareGlobal(e)) \/ (e \in Enumerators /\ DeclareEnumerator(e))
  PROVE  ResolutionInv'
<1> DEFINE t == DeclareIn(1, e)
<1>1. Top.kind = "file" /\ e.name \notin VisibleNames /\ stack' = InsertEntry(stack, e)
      /\ scopes' = t /\ symbols' = symbols
  BY NotVisible DEF DeclareGlobal, DeclareEnumerator
<1>2. Len(scopes) = 1 /\ 1 \in DOMAIN scopes /\ DOMAIN scopes = {1}
  BY <1>1, Innermost
<1>3. ParserInv(stack', t)
  BY <1>1, <1>2, DeclaringResolution
<1>4. /\ DOMAIN t = DOMAIN scopes /\ Len(t) = Len(scopes) /\ t[1].kind = scopes[1].kind
      /\ DOMAIN t[1].names = DOMAIN scopes[1].names \cup {e.name}
      /\ t[1].names[e.name].entry = e /\ t[1].names[e.name].id = NewId
      /\ \A n \in DOMAIN scopes[1].names :
           n # e.name => t[1].names[n] = scopes[1].names[n]
  BY <1>2, Declared
<1>5. t[1].kind = "file"
  BY <1>1, <1>2, <1>4 DEF Top
<1>6. DOMAIN globals \subseteq DOMAIN scopes[1].names /\ e.name \notin DOMAIN scopes[1].names
      /\ \A n \in DOMAIN scopes[1].names : scopes[1].names[n].entry \in Objects =>
           n \in DOMAIN globals /\ globals[n] = scopes[1].names[n].id
  BY <1>1, <1>2 DEF VisibleNames, ResolutionInv, GlobalsBound
<1> HIDE DEF t
<1>7. GlobalsBound(t, globals')
  <2>1. CASE e \in Objects /\ DeclareGlobal(e)
    <3>1. globals' = With(globals, e.name, NewId)
      BY <1>6, <2>1 DEF DeclareGlobal
    <3>2. IsWith(globals', globals, e.name, NewId)
      <4>1. Ids \subseteq Nat /\ NewId \in Nat
        BY Innermost DEF Ids
      <4>2. globals \in PartialFunctions(Names, Nat)
        BY <4>1, Larger DEF TypeInv
      <4> QED
        BY <3>1, <4>1, <4>2, EntryName, WithType
    <3> QED
      BY <1>4, <1>6, <3>2 DEF IsWith, GlobalsBound
  <2>2. CASE e \in Enumerators /\ DeclareEnumerator(e)
    <3>1. globals' = globals
      BY <2>2 DEF DeclareEnumerator
    <3>2. e \notin Objects
      BY <2>2, EntriesAssumption
    <3> QED
      BY <1>4, <1>6, <3>1, <3>2 DEF GlobalsBound
  <2> QED
    BY <2>1, <2>2
<1>8. LocalsBound(t, symbols) /\ Apart(t, symbols)
  BY <1>2, <1>4 DEF LocalsBound, Apart
<1>9. ParametersOnly(stack', t, symbols) /\ t[Len(t)].kind # "parameters"
  BY <1>2, <1>4, <1>5 DEF ParametersOnly
<1> QED
  BY <1>1, <1>3, <1>7, <1>8, <1>9 DEF ParserInv, ResolutionInv, Top

\* The declaration of a parameter keeps the invariant.
LEMMA ParameterStep ==
  ASSUME TypeInv, ResolutionInv, ~Shadowing, NEW e \in Objects, DeclareParameter(e)
  PROVE  ResolutionInv'
<1> DEFINE t == DeclareIn(Len(scopes), e)
<1>1. /\ Top.kind = "parameters" /\ Top.kind # "file" /\ e.name \notin VisibleNames
      /\ stack' = InsertEntry(stack, e) /\ scopes' = t /\ symbols' = symbols
      /\ globals' = globals /\ e \in Entries
  BY NotVisible, EntryKinds DEF DeclareParameter
<1>2. ParserInv(stack', t)
  BY <1>1, DeclaringResolution
<1>3. GlobalsBound(t, globals) /\ Apart(t, symbols)
  BY <1>1, DeclaringInFunction
<1>4. /\ Len(scopes) \in DOMAIN scopes /\ stack \in Seq(TableSet)
      /\ Len(stack) \in DOMAIN stack
  BY Innermost
<1>5. /\ Len(t) = Len(scopes) /\ t[Len(t)].kind = "parameters"
      /\ DOMAIN t[Len(t)].names = DOMAIN Top.names \cup {e.name}
  BY <1>1, <1>4, Declared DEF Top
<1>6. Len(stack') = Len(stack) /\ stack'[Len(stack)].entries \subseteq stack[Len(stack)].entries \cup {e}
  BY <1>1, <1>4, Inserting DEF TypeInv, StackOK, InsertEntry
<1> HIDE DEF t
<1>7. ParametersOnly(stack', t, symbols)
  <2>1. DOMAIN symbols = {} /\ \A x \in stack[Len(stack)].entries : x.name \in DOMAIN Top.names
    BY <1>1 DEF ResolutionInv, ParametersOnly, Top
  <2> QED
    BY <1>5, <1>6, <2>1 DEF ParametersOnly
<1> QED
  BY <1>1, <1>2, <1>3, <1>5, <1>7 DEF ParserInv, ResolutionInv, Top

\* A declaration of a block keeps the invariant.
LEMMA LocalStep ==
  ASSUME TypeInv, ResolutionInv, ~Shadowing, NEW e \in Objects, NEW n, DeclareLocal(e, n)
  PROVE  ResolutionInv'
<1> DEFINE t == DeclareIn(Len(scopes), e)
<1>1. /\ Top.kind # "parameters" /\ Top.kind # "file" /\ e.name \notin VisibleNames
      /\ stack' = InsertEntry(stack, e) /\ scopes' = t /\ globals' = globals
      /\ symbols' = With(symbols, e.name, NewId) /\ e \in Entries
  BY NotVisible, EntryKinds DEF DeclareLocal
<1>2. ParserInv(stack', t)
  BY <1>1, DeclaringResolution
<1>3. GlobalsBound(t, globals) /\ Apart(t, symbols') /\ LocalsBound(t, symbols')
  BY <1>1, DeclaringInFunction DEF ResolutionInv
<1>4. Len(scopes) \in DOMAIN scopes
  BY Innermost
<1>5. Len(t) = Len(scopes) /\ t[Len(t)].kind = Top.kind
  BY <1>1, <1>4, Declared DEF Top
<1> HIDE DEF t
<1>6. ParametersOnly(stack', t, symbols')
  BY <1>1, <1>5 DEF ParametersOnly
<1> QED
  BY <1>1, <1>2, <1>3, <1>6 DEF ParserInv, ResolutionInv

\* Opening the parameters of a function keeps the invariant.
LEMMA BeginFunctionStep ==
  ASSUME TypeInv, ResolutionInv, BeginFunction
  PROVE  ResolutionInv'
<1> DEFINE s == Scope("parameters", Len(stack) + 1, NoNames, NoIncrement)
           t == Append(scopes, s)
<1>1. s.kind = "parameters" /\ s.table = Len(stack) + 1 /\ s.names = NoNames
  BY DEF Scope
<1>2. s \in ScopeSet
  <2>1. NoNames \in PartialFunctions(Names, DeclarationSet) /\ Len(stack) + 1 \in Nat
    BY NoNamesType, Innermost
  <2>2. NoIncrement \in IncrementSet /\ "parameters" \in Kinds
    BY DEF NoIncrement, Increment, IncrementSet, Kinds
  <2>3. s = [kind |-> "parameters", table |-> Len(stack) + 1, names |-> NoNames,
             increment |-> NoIncrement]
    BY DEF Scope
  <2> QED
    BY <2>1, <2>2, <2>3, ScopeOf
<1>3. DOMAIN NoNames = {}
  BY NoNamesType
<1>4. /\ stack' = PushSymTable(stack) /\ scopes' = t /\ symbols' = NoNames
      /\ globals' = globals /\ Top.kind = "file"
  BY DEF BeginFunction, ClearSymbols
<1>5. /\ StackOK(PushSymTable(stack)) /\ Len(PushSymTable(stack)) = Len(stack) + 1
      /\ \A i \in DOMAIN stack : PushSymTable(stack)[i] = stack[i]
      /\ PushSymTable(stack)[Len(stack) + 1] = EmptyTable /\ DOMAIN EmptyTable.last = {}
  BY Pushing DEF TypeInv
<1>6. Len(stack) \in Nat /\ Len(scopes) = 1 /\ scopes \in Seq(ScopeSet)
  BY <1>4, Innermost
<1> HIDE DEF s
<1>7. ParserInv(PushSymTable(stack), t)
  <2>1. \A k \in (Len(stack) + 1)..Len(PushSymTable(stack)) :
          DOMAIN PushSymTable(stack)[k].last \subseteq DOMAIN s.names
    BY <1>5, <1>6
  <2>2. Len(PushSymTable(stack)) >= Len(stack) /\ s.table = Len(PushSymTable(stack))
    BY <1>1, <1>5, <1>6
  <2>3. s.kind # "for" /\ DOMAIN s.names = {}
    BY <1>1, <1>3
  <2> QED
    BY <1>2, <1>5, <2>1, <2>2, <2>3, OpeningResolution
<1>12. scopes \in Seq(ScopeSet)
  BY <1>6
<1>13. Len(t) = Len(scopes) + 1 /\ t[Len(scopes) + 1] = s
      /\ \A i \in 1..Len(scopes) : t[i] = scopes[i]
  BY <1>2, <1>12
<1>8. t[1] = scopes[1] /\ Len(t) = 2 /\ t[2] = s
  <2>1. 1 \in 1..Len(scopes) /\ Len(scopes) + 1 = 2
    BY <1>6
  <2> QED
    BY <2>1, <1>13
<1> HIDE DEF t
<1>9. GlobalsBound(t, globals)
  BY <1>8 DEF ResolutionInv, GlobalsBound
<1>10. Apart(t, NoNames) /\ t[Len(t)].kind = "parameters"
  BY <1>1, <1>3, <1>8 DEF Apart
<1>11. ParametersOnly(PushSymTable(stack), t, NoNames)
  <2>1. EmptyTable.entries = {}
    BY DEF EmptyTable
  <2> QED
    BY <1>3, <1>5, <2>1 DEF ParametersOnly
<1> QED
  BY <1>4, <1>7, <1>9, <1>10, <1>11 DEF ParserInv, ResolutionInv, Top

\* The function is declared in the file, in front of its body or of a semicolon.
LEMMA FunctionDeclared ==
  ASSUME TypeInv, ResolutionInv, NEW f \in Functions, MayDeclareFunction(f)
  PROVE  LET sc == DeclareIn(1, f) IN
         /\ ParserInv(InsertGlobalEntry(stack, f), sc)
         /\ GlobalsBound(sc, globals) /\ DOMAIN symbols = {}
         /\ sc[2].names = Top.names /\ sc[2].kind = "parameters"
<1> DEFINE sc == DeclareIn(1, f)
           st == InsertGlobalEntry(stack, f)
<1>1. f \in Entries /\ f \notin Objects /\ f.name \notin DOMAIN Top.names
      /\ Top.kind = "parameters"
  <2>1. f.name \in VisibleNames \/ f.name \notin DOMAIN Top.names
    BY Innermost DEF VisibleNames, Top
  <2> QED
    BY <2>1, EntryKinds, EntriesAssumption DEF MayDeclareFunction
<1>2. /\ Len(scopes) = 2 /\ Len(stack) = 2 /\ DOMAIN scopes = 1..2 /\ DOMAIN stack = 1..2
      /\ scopes[1].table \in 1..2 /\ scopes[2].table = 2 /\ scopes[1].table = 1
      /\ Top = scopes[2] /\ stack \in Seq(TableSet)
  <2>1. Len(scopes) = 2 /\ Len(stack) = 2
    BY FunctionStep
  <2>2. Top = scopes[2] /\ Top.table = Len(stack) /\ stack \in Seq(TableSet)
        /\ scopes \in Seq(ScopeSet)
    BY <2>1, Innermost DEF Top
  <2>3. scopes[1].table = 1
    BY DEF TypeInv, Nested
  <2> QED
    BY <2>1, <2>2, <2>3
<1>3. /\ DOMAIN sc = 1..2
      /\ \A j \in 1..2 : /\ sc[j].kind = scopes[j].kind /\ sc[j].table = scopes[j].table
                         /\ sc[j].increment = scopes[j].increment
      /\ sc[2].names = scopes[2].names
      /\ DOMAIN sc[1].names = DOMAIN scopes[1].names \cup {f.name}
      /\ sc[1].names[f.name].entry = f
      /\ \A n \in DOMAIN scopes[1].names :
           n # f.name => sc[1].names[n] = scopes[1].names[n]
  <2>1. 1 \in DOMAIN scopes /\ 2 \in DOMAIN scopes /\ 2 # 1
    BY <1>2
  <2> QED
    BY <1>1, <1>2, <2>1, Declared
<1>4. DOMAIN symbols = {} /\ \A e \in stack[2].entries : e.name \in DOMAIN Top.names
  BY <1>1, <1>2 DEF ResolutionInv, ParametersOnly
<1>5. f \notin stack[2].entries
  BY <1>1, <1>4
<1>6. f.name \notin DOMAIN stack[2].last
  <2>1. DOMAIN stack[2].last = {e.name : e \in stack[2].entries}
    BY <1>2 DEF TypeInv, StackOK, TableOK
  <2> QED
    BY <1>1, <1>4, <2>1
<1>7. /\ Len(st) = 2 /\ st[2] = stack[2]
      /\ DOMAIN stack[1].last \subseteq DOMAIN st[1].last /\ f.name \in DOMAIN st[1].last
  <2>1. 1 \in DOMAIN stack /\ 2 \in DOMAIN stack /\ 2 # 1 /\ f \notin stack[Len(stack)].entries
    BY <1>2, <1>5
  <2> QED
    BY <1>1, <1>2, <2>1, Inserting DEF TypeInv, StackOK, InsertGlobalEntry
<1> HIDE DEF sc, st
<1>8. EnteredIn(st, sc)
  <2>1. ASSUME NEW n \in DOMAIN sc[1].names
        PROVE  n \in DOMAIN st[1].last /\ \A k \in 2..2 : n \notin DOMAIN st[k].last
    <3>1. CASE n = f.name
      BY <1>6, <1>7, <3>1
    <3>2. CASE n # f.name
      <4>1. n \in DOMAIN scopes[1].names
        BY <1>3, <3>2
      <4>2. n \in DOMAIN stack[1].last /\ \A k \in (1 + 1)..2 : n \notin DOMAIN stack[k].last
        BY <1>2, <4>1 DEF ResolutionInv, EnteredIn
      <4> QED
        BY <1>7, <4>2
    <3> QED
      BY <3>1, <3>2
  <2>2. ASSUME NEW n \in DOMAIN sc[2].names
        PROVE  n \in DOMAIN st[2].last
    BY <1>2, <1>3, <1>7 DEF ResolutionInv, EnteredIn
  <2>3. sc[1].table = 1 /\ sc[2].table = 2 /\ Len(st) = 2 /\ DOMAIN sc = {1, 2}
    BY <1>2, <1>3, <1>7
  <2>4. (2 + 1)..2 = {} /\ (1 + 1)..2 = 2..2
    OBVIOUS
  <2> QED
    BY <2>1, <2>2, <2>3, <2>4 DEF EnteredIn
<1>9. NamedAsDeclared(sc)
  <2> SUFFICES ASSUME NEW i \in 1..2, NEW n \in DOMAIN sc[i].names
               PROVE  sc[i].names[n].entry.name = n
    BY <1>3 DEF NamedAsDeclared
  <2>1. CASE i = 1 /\ n = f.name
    BY <1>3, <2>1
  <2>2. CASE i = 1 /\ n # f.name
    BY <1>2, <1>3, <2>2 DEF ResolutionInv, NamedAsDeclared
  <2>3. CASE i = 2
    BY <1>2, <1>3, <2>3 DEF ResolutionInv, NamedAsDeclared
  <2> QED
    BY <2>1, <2>2, <2>3
<1>10. Disjoint(sc)
  <2>1. ASSUME NEW n \in DOMAIN sc[1].names PROVE n \notin DOMAIN sc[2].names
    <3>1. CASE n = f.name
      BY <1>1, <1>2, <1>3, <3>1
    <3>2. CASE n # f.name
      BY <1>2, <1>3, <3>2 DEF ResolutionInv, Disjoint
    <3> QED
      BY <3>1, <3>2
  <2> QED
    BY <1>3, <2>1 DEF Disjoint
<1>11. IncrementsOK(sc)
  <2>1. \A j \in DOMAIN scopes : DOMAIN scopes[j].names \subseteq DOMAIN sc[j].names
    BY <1>2, <1>3
  <2> QED
    BY <1>2, <1>3, <2>1, IncrementsStay DEF ResolutionInv
<1>12. GlobalsBound(sc, globals)
  <2>1. ASSUME NEW n \in DOMAIN sc[1].names, sc[1].names[n].entry \in Objects
        PROVE  n \in DOMAIN globals /\ globals[n] = sc[1].names[n].id
    <3>1. n # f.name
      BY <1>1, <1>3, <2>1
    <3> QED
      BY <1>3, <2>1, <3>1 DEF ResolutionInv, GlobalsBound
  <2> QED
    BY <1>3, <2>1 DEF ResolutionInv, GlobalsBound
<1> QED
  BY <1>1, <1>2, <1>3, <1>4, <1>8, <1>9, <1>10, <1>11, <1>12 DEF ParserInv, sc, st

\* The end of a prototype keeps the invariant: its parameters are gone.
LEMMA PrototypeStep ==
  ASSUME TypeInv, ResolutionInv, NEW f \in Functions, Prototype(f)
  PROVE  ResolutionInv'
<1> DEFINE sc == DeclareIn(1, f)
           st == InsertGlobalEntry(stack, f)
<1>1. MayDeclareFunction(f)
  BY DEF Prototype
<1>2. ParserInv(st, sc) /\ GlobalsBound(sc, globals) /\ sc[2].kind = "parameters"
  BY <1>1, FunctionDeclared
<1>3. /\ Nested(sc, Len(stack)) /\ Len(sc) = 2 /\ Len(scopes) = 2 /\ StackOK(st)
      /\ Len(st) = 2 /\ Len(stack) = 2
  BY <1>1, FunctionStep
<1>4. /\ scopes' = SubSeq(sc, 1, Len(sc) - 1) /\ stack' = PopSymTable(st)
      /\ symbols' = symbols /\ globals' = globals
  BY <1>3 DEF Prototype
<1> HIDE DEF sc, st
<1>5. ParserInv(stack', scopes')
  <2>1. Nested(sc, Len(st)) /\ Len(sc) > 1 /\ Len(st) > 1 /\ sc[Len(sc)].kind # "block"
    BY <1>2, <1>3
  <2> QED
    BY <1>2, <1>3, <1>4, <2>1, LeavingResolution
<1>6. Len(scopes') = 1 /\ DOMAIN scopes' = {1} /\ scopes'[1] = sc[1]
  <2>1. sc \in Seq(ScopeSet)
    BY <1>3 DEF Nested
  <2> QED
    BY <1>3, <1>4, <2>1
<1>7. scopes'[1].kind = "file"
  BY <1>3, <1>6 DEF Nested
<1>8. GlobalsBound(scopes', globals')
  BY <1>2, <1>4, <1>6 DEF GlobalsBound
<1>9. LocalsBound(scopes', symbols') /\ Apart(scopes', symbols')
  BY <1>6 DEF LocalsBound, Apart
<1>10. ParametersOnly(stack', scopes', symbols')
  BY <1>6, <1>7 DEF ParametersOnly
<1> QED
  BY <1>5, <1>8, <1>9, <1>10 DEF ParserInv, ResolutionInv

\* The body of a function keeps the invariant: its table is built from the parameters.
LEMMA BeginBodyStep ==
  ASSUME TypeInv, ResolutionInv, NEW f \in Functions, BeginBody(f)
  PROVE  ResolutionInv'
<1> DEFINE sc == DeclareIn(1, f)
           t == [sc EXCEPT ![2].kind = "function"]
<1>1. MayDeclareFunction(f)
  BY DEF BeginBody
<1>2. /\ ParserInv(InsertGlobalEntry(stack, f), sc) /\ GlobalsBound(sc, globals)
      /\ sc[2].names = Top.names /\ sc[2].kind = "parameters" /\ DOMAIN symbols = {}
  BY <1>1, FunctionDeclared
<1>3. Nested(sc, Len(stack)) /\ Len(sc) = 2 /\ Len(scopes) = 2
  BY <1>1, FunctionStep
<1>4. /\ scopes' = t /\ stack' = InsertGlobalEntry(stack, f)
      /\ symbols' = WithAll(symbols, Top.names) /\ globals' = globals
  BY <1>3 DEF BeginBody
<1> HIDE DEF sc
<1>5. /\ DOMAIN t = {1, 2} /\ DOMAIN sc = {1, 2} /\ Len(t) = 2 /\ t[1] = sc[1]
      /\ t[2].kind = "function" /\ t[2].names = sc[2].names
      /\ t[2].table = sc[2].table /\ t[2].increment = sc[2].increment
  <2>1. sc \in Seq(ScopeSet) /\ sc[2] \in ScopeSet
    BY <1>3 DEF Nested
  <2>2. t = [sc EXCEPT ![2] = [sc[2] EXCEPT !.kind = "function"]]
    OBVIOUS
  <2>3. [sc[2] EXCEPT !.kind = "function"]
          = [kind |-> "function", table |-> sc[2].table, names |-> sc[2].names,
             increment |-> sc[2].increment]
    BY <2>1 DEF ScopeSet
  <2>4. DOMAIN sc = {1, 2}
    BY <1>3, <2>1
  <2>5. t[2] = [kind |-> "function", table |-> sc[2].table, names |-> sc[2].names,
                increment |-> sc[2].increment]
    BY <2>2, <2>3, <2>4
  <2>6. DOMAIN t = {1, 2} /\ Len(t) = 2 /\ t[1] = sc[1]
    BY <1>3, <2>1, <2>4
  <2> QED
    BY <2>4, <2>5, <2>6
<1> HIDE DEF t
<1>6. EnteredIn(stack', t)
  BY <1>2, <1>4, <1>5 DEF ParserInv, EnteredIn
<1>7. NamedAsDeclared(t)
  BY <1>2, <1>5 DEF ParserInv, NamedAsDeclared
<1>8. Disjoint(t)
  BY <1>2, <1>5 DEF ParserInv, Disjoint
<1>9. IncrementsOK(t)
  <2>1. \A j \in DOMAIN sc : /\ t[j].kind = "for" => sc[j].kind = "for"
                            /\ t[j].increment = sc[j].increment
                            /\ DOMAIN sc[j].names \subseteq DOMAIN t[j].names
    BY <1>5
  <2> QED
    BY <1>2, <1>5, <2>1, IncrementsStay DEF ParserInv
<1>10. GlobalsBound(t, globals)
  BY <1>2, <1>5 DEF GlobalsBound
<1>11. DOMAIN symbols' = DOMAIN Top.names /\ \A n \in DOMAIN Top.names : symbols'[n] = Top.names[n].id
  BY <1>2, <1>4 DEF WithAll
<1>12. LocalsBound(t, symbols')
  <2>1. \A i \in DOMAIN t : i > 1 => i = 2
    BY <1>5
  <2> QED
    BY <1>2, <1>5, <1>11, <2>1 DEF LocalsBound
<1>13. Apart(t, symbols')
  <2>1. \A n \in DOMAIN t[2].names : n \notin DOMAIN t[1].names
    BY <1>5, <1>8 DEF Disjoint
  <2> QED
    BY <1>2, <1>5, <1>11, <2>1 DEF Apart
<1>14. ParametersOnly(stack', t, symbols')
  BY <1>5 DEF ParametersOnly
<1> QED
  BY <1>4, <1>6, <1>7, <1>8, <1>9, <1>10, <1>12, <1>13, <1>14 DEF ResolutionInv

\* Entering a block keeps the invariant.
LEMMA EnterBlockStep ==
  ASSUME TypeInv, ResolutionInv, EnterBlock
  PROVE  ResolutionInv'
<1> DEFINE s == Scope("block", Top.table, NoNames, NoIncrement)
           t == Append(scopes, s)
<1>1. s.kind = "block" /\ s.table = Top.table /\ s.names = NoNames
  BY DEF Scope
<1>2. /\ NoNames \in PartialFunctions(Names, DeclarationSet) /\ DOMAIN NoNames = {}
      /\ Top.table = Len(stack) /\ Len(stack) \in Nat /\ scopes \in Seq(ScopeSet)
  BY NoNamesType, Innermost
<1>3. s \in ScopeSet
  <2>1. NoIncrement \in IncrementSet /\ "block" \in Kinds
    BY DEF NoIncrement, Increment, IncrementSet, Kinds
  <2>2. s = [kind |-> "block", table |-> Top.table, names |-> NoNames,
             increment |-> NoIncrement]
    BY DEF Scope
  <2> QED
    BY <1>2, <2>1, <2>2, ScopeOf
<1>4. /\ scopes' = t /\ UNCHANGED <<stack, symbols, globals>>
      /\ Top.kind # "file" /\ Top.kind # "parameters"
  BY DEF EnterBlock, InFunction
<1> HIDE DEF s
<1>5. ParserInv(stack, t)
  <2>1. (Len(stack) + 1)..Len(stack) = {} /\ Len(stack) >= Len(stack)
    BY <1>2
  <2>2. s.kind # "for" /\ DOMAIN s.names = {} /\ s.table = Len(stack) /\ StackOK(stack)
    BY <1>1, <1>2 DEF TypeInv
  <2> QED
    BY <1>3, <2>1, <2>2, OpeningResolution
<1>6. GlobalsBound(t, globals) /\ Apart(t, symbols) /\ LocalsBound(t, symbols)
  BY <1>1, <1>2, <1>4, OpeningInFunction
<1>7. t[Len(t)] = s
  BY <1>2, <1>3
<1> HIDE DEF t
<1>8. ParametersOnly(stack, t, symbols)
  BY <1>1, <1>7 DEF ParametersOnly
<1> QED
  BY <1>4, <1>5, <1>6, <1>8 DEF ParserInv, ResolutionInv

\* The tables of a loop: the name of the increment is found in them.
LEMMA EnterForStep ==
  ASSUME TypeInv, ResolutionInv, NEW n \in VisibleNames, EnterFor(n)
  PROVE  ResolutionInv'
<1> DEFINE st == PushSymTable(stack)
           c == Increment(Contains(st, n), n)
           s == Scope("for", Len(stack) + 1, NoNames, c)
           t == Append(scopes, s)
<1>1. s.kind = "for" /\ s.table = Len(stack) + 1 /\ s.names = NoNames /\ s.increment = c
      /\ c.name = n /\ c.entry = Contains(st, n)
  BY DEF Scope, Increment
<1>2. /\ NoNames \in PartialFunctions(Names, DeclarationSet) /\ DOMAIN NoNames = {}
      /\ Len(stack) \in Nat /\ Len(stack) + 1 \in Nat /\ scopes \in Seq(ScopeSet)
      /\ n \in Names /\ DOMAIN stack = 1..Len(stack)
  BY NoNamesType, Innermost, VisibleAreNames
<1>3. /\ StackOK(st) /\ Len(st) = Len(stack) + 1
      /\ \A i \in DOMAIN stack : st[i] = stack[i]
      /\ st[Len(stack) + 1] = EmptyTable /\ DOMAIN EmptyTable.last = {}
  BY Pushing DEF TypeInv
<1>4. /\ stack' = st /\ scopes' = t /\ UNCHANGED <<symbols, globals>>
      /\ Top.kind # "file" /\ Top.kind # "parameters"
  BY DEF EnterFor, InFunction
<1> HIDE DEF st
<1>5. \E e \in Entries : e.name = n /\ Contains(st, n) = {e}
  <2>1. PICK i \in DOMAIN scopes : n \in DOMAIN scopes[i].names
    BY DEF VisibleNames
  <2>2. scopes[i].table \in 1..Len(stack)
    BY ScopeTables DEF TypeInv
  <2>3. n \in DOMAIN stack[scopes[i].table].last
        /\ \A k \in (scopes[i].table + 1)..Len(stack) : n \notin DOMAIN stack[k].last
    BY <2>1 DEF ResolutionInv, EnteredIn
  <2>4. scopes[i].table \in DOMAIN st /\ n \in DOMAIN st[scopes[i].table].last
    BY <1>2, <1>3, <2>2, <2>3 DEF StackOK
  <2>5. ASSUME NEW k \in (scopes[i].table + 1)..Len(st) PROVE n \notin DOMAIN st[k].last
    <3>1. CASE k = Len(stack) + 1
      BY <1>3, <3>1
    <3>2. CASE k # Len(stack) + 1
      <4>1. k \in DOMAIN stack /\ k \in (scopes[i].table + 1)..Len(stack)
        BY <1>2, <1>3, <2>2, <3>2
      <4> QED
        BY <1>3, <2>3, <4>1
    <3> QED
      BY <3>1, <3>2
  <2> QED
    BY <1>3, <2>4, <2>5, FindingEntry
<1> HIDE DEF c
<1>6. s \in ScopeSet
  <2>1. c \in IncrementSet /\ "for" \in Kinds
    <3>1. Contains(st, n) \in SUBSET Entries
      BY <1>5
    <3> QED
      BY <1>2, <3>1 DEF c, Increment, IncrementSet, Kinds
  <2>2. s = [kind |-> "for", table |-> Len(stack) + 1, names |-> NoNames, increment |-> c]
    BY DEF Scope
  <2> QED
    BY <1>2, <2>1, <2>2, ScopeOf
<1> HIDE DEF s
<1>7. ParserInv(st, t)
  <2>1. \A k \in (Len(stack) + 1)..Len(st) : DOMAIN st[k].last \subseteq DOMAIN s.names
    BY <1>1, <1>2, <1>3
  <2>2. Len(st) >= Len(stack) /\ s.table = Len(st) /\ DOMAIN s.names = {}
    BY <1>1, <1>2, <1>3
  <2>3. /\ s.increment.name \in VisibleNames \cup DOMAIN s.names
        /\ \E e \in Entries : e.name = s.increment.name /\ s.increment.entry = {e}
    BY <1>1, <1>5
  <2> QED
    BY <1>3, <1>6, <2>1, <2>2, <2>3, OpeningResolution
<1>8. GlobalsBound(t, globals) /\ Apart(t, symbols) /\ LocalsBound(t, symbols)
  BY <1>1, <1>2, <1>4, OpeningInFunction
<1>9. t[Len(t)] = s
  BY <1>2, <1>6
<1> HIDE DEF t
<1>10. ParametersOnly(st, t, symbols)
  BY <1>1, <1>9 DEF ParametersOnly
<1> QED
  BY <1>4, <1>7, <1>8, <1>10 DEF ParserInv, ResolutionInv

\* Entering a loop that declares its counter keeps the invariant.
LEMMA EnterForDeclaringStep ==
  ASSUME TypeInv, ResolutionInv, ~Shadowing, NEW e \in Objects,
         NEW n \in VisibleNames \cup {e.name}, EnterForDeclaring(e, n)
  PROVE  ResolutionInv'
<1> DEFINE st == InsertEntry(PushSymTable(stack), e)
           c == Increment(Contains(st, n), n)
           names == With(NoNames, e.name, Declaration(e))
           s == Scope("for", Len(stack) + 1, names, c)
           t == Append(scopes, s)
<1>1. s.kind = "for" /\ s.table = Len(stack) + 1 /\ s.names = names /\ s.increment = c
      /\ c.name = n /\ c.entry = Contains(st, n)
  BY DEF Scope, Increment
<1>2. /\ Len(stack) \in Nat /\ Len(stack) + 1 \in Nat /\ scopes \in Seq(ScopeSet)
      /\ n \in Names /\ DOMAIN stack = 1..Len(stack)
      /\ e \in Entries /\ e.name \in Names /\ NewId \in Nat
  BY Innermost, VisibleAreNames, EntryKinds, EntryName
<1>3. /\ StackOK(st) /\ Len(st) = Len(stack) + 1
      /\ \A i \in DOMAIN stack : st[i] = stack[i]
      /\ DOMAIN st[Len(stack) + 1].last = {e.name}
  <2>1. /\ StackOK(PushSymTable(stack)) /\ Len(PushSymTable(stack)) = Len(stack) + 1
        /\ \A i \in DOMAIN stack : PushSymTable(stack)[i] = stack[i]
        /\ PushSymTable(stack)[Len(stack) + 1] = EmptyTable /\ DOMAIN EmptyTable.last = {}
    BY Pushing DEF TypeInv
  <2> DEFINE pushed == PushSymTable(stack)
  <2> HIDE DEF pushed
  <2>2. /\ StackOK(pushed) /\ pushed \in Seq(TableSet) /\ pushed # <<>>
        /\ Len(pushed) = Len(stack) + 1 /\ Len(pushed) \in DOMAIN pushed
        /\ \A j \in DOMAIN pushed : TableOK(pushed[j])
        /\ DOMAIN pushed = 1..(Len(stack) + 1)
        /\ DOMAIN pushed[Len(pushed)].last = {}
        /\ \A i \in DOMAIN stack : pushed[i] = stack[i]
    BY <2>1, <1>2 DEF StackOK, pushed
  <2>3. st = InsertToSymTable(pushed, e, Len(pushed))
    BY DEF InsertEntry, pushed
  <2> HIDE DEF st
  <2>4. /\ st \in Seq(TableSet) /\ Len(st) = Len(pushed) /\ \A j \in DOMAIN st : TableOK(st[j])
        /\ \A j \in DOMAIN pushed : j # Len(pushed) => st[j] = pushed[j]
        /\ DOMAIN st[Len(pushed)].last \subseteq DOMAIN pushed[Len(pushed)].last \cup {e.name}
        /\ e.name \in DOMAIN st[Len(pushed)].last
    BY <1>2, <2>2, <2>3, Inserting
  <2>5. st # <<>>
    BY <1>2, <2>2, <2>4
  <2>6. \A i \in DOMAIN stack : st[i] = stack[i]
    BY <1>2, <2>2, <2>4
  <2> QED
    BY <2>2, <2>4, <2>5, <2>6 DEF StackOK
<1>4. /\ stack' = st /\ scopes' = t /\ globals' = globals
      /\ symbols' = With(symbols, e.name, NewId)
      /\ Top.kind # "file" /\ Top.kind # "parameters" /\ e.name \notin VisibleNames
  BY DEF EnterForDeclaring, InFunction
<1>5. /\ names \in PartialFunctions(Names, DeclarationSet)
      /\ DOMAIN names = {e.name} /\ names[e.name].entry = e /\ names[e.name].id = NewId
  <2>1. NoNames \in PartialFunctions(Names, DeclarationSet) /\ DOMAIN NoNames = {}
    BY NoNamesType
  <2>2. Declaration(e) \in DeclarationSet /\ Declaration(e).entry = e
        /\ Declaration(e).id = NewId
    BY <1>2 DEF Declaration, DeclarationSet
  <2>3. names \in PartialFunctions(Names, DeclarationSet)
        /\ IsWith(names, NoNames, e.name, Declaration(e))
    BY <1>2, <2>1, <2>2, WithType
  <2> QED
    BY <2>1, <2>2, <2>3 DEF IsWith
<1> HIDE DEF st, names
<1>6. \E x \in Entries : x.name = n /\ Contains(st, n) = {x}
  <2>1. CASE n = e.name
    <3> DEFINE last == Len(st)
    <3>1. last \in DOMAIN st /\ (last + 1)..Len(st) = {}
      BY <1>2, <1>3 DEF StackOK
    <3>2. n \in DOMAIN st[last].last
          /\ \A k \in (last + 1)..Len(st) : n \notin DOMAIN st[k].last
      BY <1>3, <2>1, <3>1
    <3> HIDE DEF last
    <3> QED
      BY <1>3, <3>1, <3>2, FindingEntry
  <2>2. CASE n # e.name
    <3>1. PICK i \in DOMAIN scopes : n \in DOMAIN scopes[i].names
      BY <2>2 DEF VisibleNames
    <3>2. scopes[i].table \in 1..Len(stack)
      BY ScopeTables DEF TypeInv
    <3>3. n \in DOMAIN stack[scopes[i].table].last
          /\ \A k \in (scopes[i].table + 1)..Len(stack) : n \notin DOMAIN stack[k].last
      BY <3>1 DEF ResolutionInv, EnteredIn
    <3>4. scopes[i].table \in DOMAIN st /\ n \in DOMAIN st[scopes[i].table].last
      BY <1>2, <1>3, <3>2, <3>3 DEF StackOK
    <3>5. ASSUME NEW k \in (scopes[i].table + 1)..Len(st) PROVE n \notin DOMAIN st[k].last
      <4>1. CASE k = Len(stack) + 1
        BY <1>3, <2>2, <4>1
      <4>2. CASE k # Len(stack) + 1
        <5>1. k \in DOMAIN stack /\ k \in (scopes[i].table + 1)..Len(stack)
          BY <1>2, <1>3, <3>2, <4>2
        <5> QED
          BY <1>3, <3>3, <5>1
      <4> QED
        BY <4>1, <4>2
    <3> QED
      BY <1>3, <3>4, <3>5, FindingEntry
  <2> QED
    BY <2>1, <2>2
<1> HIDE DEF c
<1>7. s \in ScopeSet
  <2>1. c \in IncrementSet /\ "for" \in Kinds
    <3>1. Contains(st, n) \in SUBSET Entries
      BY <1>6
    <3> QED
      BY <1>2, <3>1 DEF c, Increment, IncrementSet, Kinds
  <2>2. s = [kind |-> "for", table |-> Len(stack) + 1, names |-> names, increment |-> c]
    BY DEF Scope
  <2> QED
    BY <1>2, <1>5, <2>1, <2>2, ScopeOf
<1> HIDE DEF s
<1>8. ParserInv(st, t)
  <2>1. \A k \in (Len(stack) + 1)..Len(st) : DOMAIN st[k].last \subseteq DOMAIN s.names
    BY <1>1, <1>2, <1>3, <1>5
  <2>2. Len(st) >= Len(stack) /\ s.table = Len(st)
    BY <1>1, <1>2, <1>3
  <2>3. \A x \in DOMAIN s.names :
          x \notin VisibleNames /\ s.names[x].entry.name = x /\ x \in DOMAIN st[Len(st)].last
    BY <1>1, <1>3, <1>4, <1>5
  <2>4. /\ s.increment.name \in VisibleNames \cup DOMAIN s.names
        /\ \E x \in Entries : x.name = s.increment.name /\ s.increment.entry = {x}
    BY <1>1, <1>5, <1>6
  <2> QED
    BY <1>3, <1>7, <2>1, <2>2, <2>3, <2>4, OpeningResolution
<1>9. GlobalsBound(t, globals) /\ Apart(t, symbols') /\ LocalsBound(t, symbols')
  <2>1. \E x \in Entries : /\ symbols' = With(symbols, x.name, NewId)
                           /\ x.name \notin VisibleNames
                           /\ DOMAIN s.names = {x.name} /\ s.names[x.name].id = NewId
    BY <1>1, <1>2, <1>4, <1>5
  <2> QED
    BY <1>4, <2>1, OpeningInFunction
<1>10. t[Len(t)] = s
  BY <1>2, <1>7
<1> HIDE DEF t
<1>11. ParametersOnly(st, t, symbols')
  BY <1>1, <1>10 DEF ParametersOnly
<1> QED
  BY <1>4, <1>8, <1>9, <1>11 DEF ParserInv, ResolutionInv

\* Leaving a scope keeps the invariant: what is left in the tables hides nothing.
LEMMA LeaveStep ==
  ASSUME TypeInv, ResolutionInv, EndFunction \/ LeaveBlock \/ LeaveFor
  PROVE  ResolutionInv'
<1>1. /\ Top.kind # "file" /\ Top.kind # "parameters" /\ scopes' = Outer
      /\ stack' = IF Top.kind = "block" THEN stack ELSE PopSymTable(stack)
      /\ UNCHANGED <<symbols, globals>>
  BY DEF EndFunction, LeaveBlock, LeaveFor
<1>2. /\ Len(scopes) > 1 /\ Len(stack) > 1 /\ scopes \in Seq(ScopeSet)
      /\ Len(scopes) \in Nat /\ DOMAIN scopes = 1..Len(scopes)
  BY <1>1, Innermost
<1>3. ParserInv(stack', Outer)
  <2>1. ParserInv(stack, scopes) /\ Nested(scopes, Len(stack)) /\ StackOK(stack)
    BY DEF ResolutionInv, ParserInv, TypeInv
  <2> QED
    BY <1>1, <1>2, <2>1, LeavingResolution DEF Top, Outer
<1>4. /\ Len(Outer) = Len(scopes) - 1 /\ DOMAIN Outer = 1..(Len(scopes) - 1)
      /\ \A i \in DOMAIN Outer : i \in DOMAIN scopes /\ Outer[i] = scopes[i]
  BY <1>2 DEF Outer
<1> HIDE DEF Outer
<1>5. Outer[1] = scopes[1]
  BY <1>2, <1>4
<1>6. GlobalsBound(Outer, globals) /\ Apart(Outer, symbols)
  BY <1>2, <1>5 DEF ResolutionInv, GlobalsBound, Apart
<1>7. LocalsBound(Outer, symbols)
  BY <1>1, <1>4 DEF ResolutionInv, LocalsBound
<1>8. Outer[Len(Outer)].kind # "parameters"
  <2>1. Len(Outer) \in DOMAIN Outer /\ Len(Outer) # Len(scopes)
          /\ (Len(Outer) # 1 => Len(Outer) \in 2..Len(scopes))
    <3> DEFINE l == Len(scopes)
               m == Len(Outer)
    <3>1. l \in Nat /\ l > 1 /\ m = l - 1 /\ DOMAIN Outer = 1..(l - 1)
      BY <1>2, <1>4
    <3> HIDE DEF l, m
    <3>2. m \in DOMAIN Outer /\ m # l /\ (m # 1 => m \in 2..l)
      BY <3>1
    <3> QED
      BY <3>2 DEF l, m
  <2>2. Len(Outer) \in DOMAIN scopes /\ Outer[Len(Outer)] = scopes[Len(Outer)]
    BY <1>4, <2>1
  <2>3. CASE Len(Outer) = 1
    BY <2>2, <2>3 DEF TypeInv, Nested
  <2>4. CASE Len(Outer) # 1
    <3>1. Len(Outer) \in 2..Len(scopes)
      BY <2>1, <2>4
    <3> QED
      BY <2>1, <2>2, <3>1 DEF TypeInv, Nested
  <2> QED
    BY <2>3, <2>4
<1>9. ParametersOnly(stack', Outer, symbols)
  BY <1>8 DEF ParametersOnly
<1> QED
  BY <1>1, <1>3, <1>6, <1>7, <1>9 DEF ParserInv, ResolutionInv

\* The invariant holds before anything was declared.
LEMMA InitResolution == Init => ResolutionInv
<1> SUFFICES ASSUME Init PROVE ResolutionInv
  OBVIOUS
<1>1. DOMAIN NoNames = {}
  BY NoNamesType
<1>2. /\ DOMAIN scopes = {1} /\ Len(scopes) = 1
      /\ scopes[1].names = NoNames /\ scopes[1].kind = "file"
      /\ globals = NoNames /\ symbols = NoNames
  BY DEF Init, Scope
<1>3. EnteredIn(stack, scopes) /\ NamedAsDeclared(scopes) /\ Disjoint(scopes)
  BY <1>1, <1>2 DEF EnteredIn, NamedAsDeclared, Disjoint
<1>4. IncrementsOK(scopes) /\ ParametersOnly(stack, scopes, symbols)
  BY <1>2 DEF IncrementsOK, ParametersOnly
<1>5. LocalsBound(scopes, symbols) /\ GlobalsBound(scopes, globals) /\ Apart(scopes, symbols)
  BY <1>1, <1>2 DEF LocalsBound, GlobalsBound, Apart
<1> QED
  BY <1>3, <1>4, <1>5 DEF ResolutionInv

\* Without shadowing, every step keeps the invariant.
LEMMA ResolutionStep ==
  ASSUME ~Shadowing, TypeInv, ResolutionInv, [Next]_vars
  PROVE  ResolutionInv'
<1>1. ASSUME NEW e \in Objects, DeclareGlobal(e) PROVE ResolutionInv'
  BY <1>1, EntryKinds, GlobalStep
<1>2. ASSUME NEW e \in Enumerators, DeclareEnumerator(e) PROVE ResolutionInv'
  BY <1>2, EntryKinds, GlobalStep
<1>3. ASSUME NEW e \in Objects, DeclareParameter(e) PROVE ResolutionInv'
  BY <1>3, ParameterStep
<1>4. ASSUME NEW e \in Objects, NEW n, DeclareLocal(e, n) PROVE ResolutionInv'
  BY <1>4, LocalStep
<1>5. ASSUME NEW f \in Functions, BeginBody(f) \/ Prototype(f) PROVE ResolutionInv'
  BY <1>5, BeginBodyStep, PrototypeStep
<1>6. ASSUME BeginFunction \/ EnterBlock PROVE ResolutionInv'
  BY <1>6, BeginFunctionStep, EnterBlockStep
<1>7. ASSUME NEW n \in VisibleNames, EnterFor(n) PROVE ResolutionInv'
  BY <1>7, EnterForStep
<1>8. ASSUME NEW e \in Objects, NEW n \in VisibleNames \cup {e.name}, EnterForDeclaring(e, n)
      PROVE  ResolutionInv'
  BY <1>8, EnterForDeclaringStep
<1>9. ASSUME EndFunction \/ LeaveBlock \/ LeaveFor PROVE ResolutionInv'
  BY <1>9, LeaveStep
<1>10. ASSUME UNCHANGED <<stack, symbols, globals, scopes>> PROVE ResolutionInv'
  BY <1>10 DEF ResolutionInv, Top
<1>11. ASSUME NEW n, Use(n) PROVE ResolutionInv'
  BY <1>10, <1>11 DEF Use
<1>12. ASSUME EndOfFile \/ UNCHANGED vars PROVE ResolutionInv'
  BY <1>10, <1>12 DEF EndOfFile, vars
<1> QED
  BY <1>1, <1>2, <1>3, <1>4, <1>5, <1>6, <1>7, <1>8, <1>9, <1>11, <1>12 DEF Next

\* A use is resolved as C does if the parser has found the entry of what C sees,
\* and code generation its object.
LEMMA ResolvedUse ==
  ASSUME NEW entry, NEW value, NEW decl, use' = Used(entry, value, decl),
         entry = {decl.entry}, decl.entry \in Objects => value = decl.id
  PROVE  ResolvesAsC'
<1>1. \A u \in use' : u.entry = entry /\ u.value = value /\ u.decl = decl
  BY DEF Used
<1> QED
  BY <1>1 DEF ResolvesAsC

\* With the invariant, a use of a name is resolved as in C.
LEMMA UseStep ==
  ASSUME OneEntryPerName, ~Shadowing, TypeInv, ResolutionInv, ResolvesAsC, [Next]_vars
  PROVE  ResolvesAsC'
<1>1. ASSUME use' = {} PROVE ResolvesAsC'
  BY <1>1 DEF ResolvesAsC
<1>2. ASSUME NEW n \in VisibleNames, Use(n) PROVE ResolvesAsC'
  <2>1. PICK i \in DOMAIN scopes : n \in DOMAIN scopes[i].names
    BY DEF VisibleNames
  <2>2. /\ Contains(stack, n) = {Seen(scopes, n).entry}
        /\ Seen(scopes, n).entry \in Objects => GetSymbolValue(symbols, n) = Seen(scopes, n).id
    BY <1>2, <2>1, Resolving DEF Use
  <2> QED
    BY <1>2, <2>2, ResolvedUse DEF Use
<1>3. ASSUME NEW e \in Objects, NEW n, DeclareLocal(e, n) PROVE ResolvesAsC'
  <2>1. CASE n = NoName
    BY <1>1, <1>3, <2>1 DEF DeclareLocal
  <2>2. CASE n # NoName
    <3>1. /\ n \in VisibleNames /\ n # e.name /\ InFunction
          /\ e.name \notin VisibleNames /\ stack' = InsertEntry(stack, e)
          /\ use' = Used(Contains(stack', n), GetSymbolValue(symbols, n), Seen(scopes, n))
      BY <1>3, <2>2, NotVisible DEF DeclareLocal, InFunction
    <3>2. PICK i \in DOMAIN scopes : n \in DOMAIN scopes[i].names
      BY <3>1 DEF VisibleNames
    <3>3. /\ Seen(scopes, n) = scopes[i].names[n]
          /\ Seen(scopes, n).entry \in Objects => GetSymbolValue(symbols, n) = Seen(scopes, n).id
          /\ Contains(stack, n) = {Seen(scopes, n).entry}
      BY <3>1, <3>2, Resolving
    <3>4. Seen(scopes, n).entry \in Entries /\ Seen(scopes, n).entry.name = n
      <4>1. EnteredIn(stack, scopes)
        BY DEF ResolutionInv
      <4>2. PICK x \in Entries : x.name = n /\ Contains(stack, n) = {x}
        BY <3>2, <4>1, EnteredAreFound DEF TypeInv
      <4> QED
        BY <3>3, <4>2
    <3>5. PICK x \in Entries : x.name = n /\ Contains(InsertEntry(stack, e), n) = {x}
      <4> DEFINE t == DeclareIn(Len(scopes), e)
                 st == InsertEntry(stack, e)
      <4>1. e \in Entries /\ Len(scopes) \in DOMAIN scopes /\ declared < MaxDeclarations
        BY <1>3, EntryKinds, Innermost DEF DeclareLocal, MayDeclare
      <4>2. EnteredIn(st, t)
        BY <3>1, <4>1, DeclaringResolution DEF ParserInv
      <4>3. StackOK(st) /\ Len(st) = Len(stack)
        BY <4>1, Innermost, Inserting DEF TypeInv, StackOK, InsertEntry
      <4>4. Nested(t, Len(st))
        BY <4>1, <4>3, DeclaringType
      <4>5. i \in DOMAIN t /\ n \in DOMAIN t[i].names
        BY <3>2, <4>1, Declared
      <4> HIDE DEF t, st
      <4>6. \E x \in Entries : x.name = n /\ Contains(st, n) = {x}
        BY <4>2, <4>3, <4>4, <4>5, EnteredAreFound
      <4> QED
        BY <4>6 DEF st
    <3>6. Contains(stack', n) = {Seen(scopes, n).entry}
      BY <3>1, <3>4, <3>5 DEF OneEntryPerName
    <3> QED
      BY <3>1, <3>3, <3>6, ResolvedUse
  <2> QED
    BY <2>1, <2>2
<1>4. ASSUME LeaveFor PROVE ResolvesAsC'
  <2> DEFINE c == Top.increment
  <2>1. /\ Top.kind = "for" /\ InFunction /\ Len(scopes) \in DOMAIN scopes
        /\ use' = Used(c.entry, GetSymbolValue(symbols, c.name), Seen(scopes, c.name))
    BY <1>4, Innermost DEF LeaveFor, InFunction
  <2>2. PICK k \in DOMAIN scopes : c.name \in DOMAIN scopes[k].names
    BY <2>1 DEF ResolutionInv, IncrementsOK, Top
  <2>3. PICK e \in Entries : e.name = c.name /\ c.entry = {e}
    BY <2>1 DEF ResolutionInv, IncrementsOK, Top
  <2> HIDE DEF c
  <2>4. /\ Contains(stack, c.name) = {Seen(scopes, c.name).entry}
        /\ Seen(scopes, c.name).entry \in Objects =>
             GetSymbolValue(symbols, c.name) = Seen(scopes, c.name).id
    BY <2>1, <2>2, Resolving
  <2>5. PICK x \in Entries : x.name = c.name /\ Contains(stack, c.name) = {x}
    <3>1. EnteredIn(stack, scopes)
      BY DEF ResolutionInv
    <3> QED
      BY <2>2, <3>1, EnteredAreFound DEF TypeInv
  <2>6. c.entry = {Seen(scopes, c.name).entry}
    BY <2>3, <2>4, <2>5 DEF OneEntryPerName
  <2> QED
    BY <2>1, <2>4, <2>6, ResolvedUse
<1>5. ASSUME EndOfFile \/ UNCHANGED vars PROVE ResolvesAsC'
  BY <1>5 DEF EndOfFile, vars, ResolvesAsC
<1>6. ASSUME NEW e, DeclareGlobal(e) \/ DeclareParameter(e) \/ DeclareEnumerator(e)
      PROVE  ResolvesAsC'
  BY <1>1, <1>6 DEF DeclareGlobal, DeclareParameter, DeclareEnumerator
<1>7. ASSUME NEW f, BeginBody(f) \/ Prototype(f) PROVE ResolvesAsC'
  BY <1>1, <1>7 DEF BeginBody, Prototype
<1>8. ASSUME NEW e, NEW n, EnterFor(n) \/ EnterForDeclaring(e, n) PROVE ResolvesAsC'
  BY <1>1, <1>8 DEF EnterFor, EnterForDeclaring
<1>9. ASSUME BeginFunction \/ EndFunction \/ EnterBlock \/ LeaveBlock PROVE ResolvesAsC'
  BY <1>1, <1>9 DEF BeginFunction, EndFunction, EnterBlock, LeaveBlock
<1> QED
  BY <1>2, <1>3, <1>4, <1>5, <1>6, <1>7, <1>8, <1>9 DEF Next

\* Where no declaration hides another one and a name stands for one entry, every
\* use of a name in a function is resolved to the declaration C sees, by the
\* parser and by code generation.
THEOREM Resolution ==
  ASSUME ~Shadowing, OneEntryPerName
  PROVE  Spec => []ResolvesAsC
<1>1. Init => TypeInv /\ ResolutionInv /\ ResolvesAsC
  BY InitType, InitResolution DEF Init, ResolvesAsC
<1>2. TypeInv /\ ResolutionInv /\ ResolvesAsC /\ [Next]_vars
        => (TypeInv /\ ResolutionInv /\ ResolvesAsC)'
  BY TypeStep, ResolutionStep, UseStep
<1> QED
  BY <1>1, <1>2, PTL DEF Spec
=============================================================================
