------------------------ MODULE VirtualRegistersProofs ------------------------
(***************************************************************************)
(* Theorems about VirtualRegisters.                                        *)
(***************************************************************************)
EXTENDS VirtualRegisters, SequenceLemmas, FiniteSetTheorems

-----------------------------------------------------------------------------
(* The scan of the parameters *)

Scan(parameters, next, f) ==
  f = [i \in 0..Len(parameters) |->
         IF i = 0 THEN next
         ELSE IF parameters[i] = f[i - 1] THEN f[i - 1] + 1
         ELSE IF parameters[i] > f[i - 1] THEN parameters[i]
         ELSE f[i - 1]]

\* The scan is defined, by induction on the number of parameters.
LEMMA ScanExists ==
  ASSUME NEW parameters, parameters \in Seq(Nat), NEW next
  PROVE  \E f : Scan(parameters, next, f)
<1> DEFINE Step(f, i) == 
             IF i = 0 THEN next
             ELSE IF parameters[i] = f[i - 1] THEN f[i - 1] + 1
             ELSE IF parameters[i] > f[i - 1] THEN parameters[i]
             ELSE f[i - 1]
           Upto(n, f) == f = [i \in 0..n |-> Step(f, i)]
           Good == {n \in Nat : \E f : Upto(n, f)}
<1>1. 0 \in Good
  <2>1. Upto(0, [i \in 0..0 |-> next])
    OBVIOUS
  <2> QED BY <2>1
<1>2. ASSUME NEW n \in Nat \ {0}, n - 1 \in Good PROVE n \in Good
  <2>1. PICK g : Upto(n - 1, g)
    BY <1>2
  <2> DEFINE f == [i \in 0..n |-> IF i < n THEN g[i] ELSE Step(g, n)]
  <2>2. ASSUME NEW i \in 0..n PROVE f[i] = Step(f, i)
    <3>1. i # 0 => i - 1 \in 0..n /\ f[i - 1] = g[i - 1]
      OBVIOUS
    <3>2. Step(f, i) = Step(g, i)
      BY <3>1
    <3>3. i < n => i \in 0..(n - 1)
      OBVIOUS
    <3>4. ~(i < n) => i = n
      OBVIOUS
    <3> HIDE DEF Step
    <3>5. i < n => g[i] = Step(g, i)
      BY <2>1, <3>3
    <3> QED BY <3>2, <3>4, <3>5
  <2>3. Upto(n, f)
    <3> HIDE DEF Step
    <3> QED BY <2>2
  <2> QED BY <2>3
<1> HIDE DEF Good
<1>3. Len(parameters) \in Good
  BY <1>1, <1>2, Induction
<1> QED BY <1>3 DEF Good, Scan

\* Where no parameter has a number above next, the scan ends at next, or behind it
\* if a parameter has that number.
LEMMA ScannedProperties ==
  ASSUME NEW parameters, parameters \in Seq(Nat), NEW next, next \in Nat,
         \A i \in DOMAIN parameters : parameters[i] <= next
  PROVE  /\ Scanned(parameters, next) \in {next, next + 1}
         /\ \A i \in DOMAIN parameters : parameters[i] < Scanned(parameters, next)
         /\ (\A i \in DOMAIN parameters : parameters[i] < next) => Scanned(parameters, next) = next
<1>1. PICK f : f = CHOOSE g : Scan(parameters, next, g)
  OBVIOUS
<1>2. Scan(parameters, next, f)
  BY <1>1, ScanExists
<1>3. Scanned(parameters, next) = f[Len(parameters)]
  BY <1>1 DEF Scanned, Scan
<1> DEFINE Holds(i) ==
             /\ f[i] \in {next, next + 1}
             /\ \A j \in 1..i : parameters[j] < f[i]
             /\ (\A j \in 1..i : parameters[j] < next) => f[i] = next
           Good == {i \in Nat : i <= Len(parameters) => Holds(i)}
<1>4. 0 \in Good
  BY <1>2 DEF Scan
<1>5. ASSUME NEW i \in Nat \ {0}, i - 1 \in Good PROVE i \in Good
  <2> SUFFICES ASSUME i <= Len(parameters) PROVE Holds(i)
    OBVIOUS
  <2>1. Holds(i - 1)
    BY <1>5
  <2>2. i \in 1..Len(parameters) /\ parameters[i] \in Nat /\ parameters[i] <= next
    OBVIOUS
  <2>3. f[i] = IF parameters[i] = f[i - 1] THEN f[i - 1] + 1
               ELSE IF parameters[i] > f[i - 1] THEN parameters[i]
               ELSE f[i - 1]
    <3>1. i \in 0..Len(parameters) /\ i # 0
      OBVIOUS
    <3> QED BY <1>2, <3>1 DEF Scan
  <2>4. \A j \in 1..i : parameters[j] \in Nat /\ (j = i \/ j \in 1..(i - 1))
    BY <2>2
  <2>5. f[i] \in {next, next + 1} /\ parameters[i] < f[i] /\ f[i - 1] <= f[i]
    <3>1. f[i - 1] \in {next, next + 1} /\ next \in Nat
      BY <2>1
    <3> HIDE DEF Holds, Good
    <3> QED BY <2>2, <2>3, <3>1
  <2>6. \A j \in 1..i : parameters[j] < f[i]
    <3>1. f[i] \in Nat /\ f[i - 1] \in Nat
      BY <2>1, <2>5
    <3>2. \A j \in 1..(i - 1) : parameters[j] \in Nat /\ parameters[j] < f[i - 1]
      BY <2>1, <2>2, <2>4
    <3>3. \A j \in 1..(i - 1) : parameters[j] < f[i]
      BY <2>5, <3>1, <3>2
    <3> QED BY <2>4, <2>5, <3>3
  <2>7. (\A j \in 1..i : parameters[j] < next) => f[i] = next
    BY <2>1, <2>2, <2>3, <2>4
  <2> QED BY <2>5, <2>6, <2>7
<1>6. Holds(Len(parameters)) /\ DOMAIN parameters = 1..Len(parameters)
  <2> HIDE DEF Holds
  <2>1. Len(parameters) \in Nat
    OBVIOUS
  <2>2. Nat \subseteq Good
    <3> HIDE DEF Good
    <3> QED BY <1>4, <1>5, Induction
  <2> QED BY <2>1, <2>2
<1> QED BY <1>3, <1>6

-----------------------------------------------------------------------------
(* The invariant of the body: what was dealt out has a number below NextVReg *)
(* or is a parameter, and no parameter has one above.                        *)

Fields == {"next", "parameters", "structs", "loaded", "map", "slots", "regs", "frame"}

Consistent(m) ==
  /\ DOMAIN m = Fields
  /\ m.next \in Nat /\ m.parameters \in Seq(Nat)
  /\ m.slots \subseteq 0..(m.next - 1)
  /\ DOMAIN m.regs \subseteq Numbers(m)
  /\ \A v \in DOMAIN m.map : m.map[v] \in DOMAIN m.regs \cup m.slots

\* The numbers of the parameters up to the n-th are those of parameters, or taken.
Covered(m, n) ==
  \A i \in 1..n :
    ParameterOf(i) < m.next \/ \E j \in DOMAIN m.parameters : m.parameters[j] = ParameterOf(i)

Ready(m) ==
  /\ Consistent(m) /\ Covered(m, Len(signature))
  /\ \A j \in DOMAIN m.parameters : m.parameters[j] <= m.next

\* What an operation may make of the function m.
Goes(m, to) ==
  /\ Ready(to) /\ to.parameters = m.parameters /\ Numbers(m) \subseteq Numbers(to)

IsSignature == signature \in Seq(Kinds)

LEMMA GoesAgain ==
  ASSUME NEW a, NEW b, NEW c, Goes(a, b), Goes(b, c)
  PROVE  Goes(a, c)
BY DEF Goes

LEMMA GoesNowhere ==
  ASSUME NEW m, Ready(m)
  PROVE  Goes(m, m)
BY DEF Goes

\* The next number is that of nothing that was dealt out.
LEMMA NewProperties ==
  ASSUME NEW m, Ready(m), IsSignature
  PROVE  /\ New(m) \in {m.next, m.next + 1}
         /\ \A j \in DOMAIN m.parameters : m.parameters[j] < New(m)
         /\ New(m) \notin Numbers(m)
         /\ (\A j \in DOMAIN m.parameters : m.parameters[j] < m.next) => New(m) = m.next
<1>1. m.next \in Nat /\ m.parameters \in Seq(Nat)
  BY DEF Ready, Consistent
<1>2. New(m) = Scanned(m.parameters, m.next)
  BY DEF New, GetNextAvailableVReg
<1>3. /\ New(m) \in {m.next, m.next + 1}
      /\ \A j \in DOMAIN m.parameters : m.parameters[j] < New(m)
      /\ (\A j \in DOMAIN m.parameters : m.parameters[j] < m.next) => New(m) = m.next
  BY <1>1, <1>2, ScannedProperties DEF Ready
<1>4. ASSUME NEW i \in DOMAIN signature, New(m) = ParameterOf(i) PROVE FALSE
  <2>1. i \in 1..Len(signature) /\ ParameterOf(i) \in Nat
    BY DEF IsSignature, ParameterOf
  <2>2. ~(ParameterOf(i) < m.next)
    BY <1>1, <1>3, <1>4, <2>1
  <2>3. PICK j \in DOMAIN m.parameters : m.parameters[j] = New(m)
    BY <1>4, <2>1, <2>2 DEF Ready, Covered
  <2>4. m.parameters[j] < New(m)
    BY <1>3
  <2> QED BY <1>1, <1>3, <2>3, <2>4
<1>5. New(m) \notin 0..(m.next - 1)
  BY <1>1, <1>3
<1> QED BY <1>3, <1>4, <1>5 DEF Numbers

LEMMA DefineGoes ==
  ASSUME NEW m, NEW t, Ready(m), IsSignature
  PROVE  /\ Goes(m, Define(m, t))
         /\ New(m) \in DOMAIN Define(m, t).regs
         /\ Define(m, t).map = m.map /\ Define(m, t).slots = m.slots
         /\ DOMAIN m.regs \subseteq DOMAIN Define(m, t).regs
<1> DEFINE n == New(m)
           d == Define(m, t)
<1>1. m.next \in Nat /\ n \in {m.next, m.next + 1} /\ DOMAIN m = Fields
  BY NewProperties DEF Ready, Consistent
<1>2. d = [m EXCEPT !.next = n + 1, !.regs = With(@, n, t)]
  BY DEF Define, New
<1>3. /\ DOMAIN d = Fields /\ d.next = n + 1 /\ d.parameters = m.parameters
      /\ d.slots = m.slots /\ d.map = m.map /\ d.regs = With(m.regs, n, t)
  BY <1>1, <1>2 DEF Fields
<1> HIDE DEF n, d
<1>4. DOMAIN d.regs = DOMAIN m.regs \cup {n}
  BY <1>3 DEF With
<1>5. d.next \in Nat /\ m.next < d.next /\ n \in 0..(d.next - 1)
  BY <1>1, <1>3
<1>6. 0..(m.next - 1) \subseteq 0..(d.next - 1)
  BY <1>1, <1>5
<1>7. Numbers(m) \subseteq Numbers(d) /\ n \in Numbers(d)
  BY <1>5, <1>6 DEF Numbers
<1>8. Consistent(d)
  BY <1>3, <1>4, <1>5, <1>6, <1>7 DEF Consistent, Ready
<1>9. Covered(d, Len(signature))
  <2>1. \A i \in 1..Len(signature) : ParameterOf(i) \in Nat
    BY DEF ParameterOf, IsSignature
  <2> QED BY <1>1, <1>3, <1>5, <2>1 DEF Covered, Ready
<1>10. \A j \in DOMAIN d.parameters : d.parameters[j] <= d.next
  <2>1. \A j \in DOMAIN m.parameters : m.parameters[j] \in Nat
    BY DEF Ready, Consistent
  <2> QED BY <1>1, <1>3, <1>5, <2>1 DEF Ready
<1> QED BY <1>3, <1>4, <1>7, <1>8, <1>9, <1>10 DEF Goes, Ready, n, d
\* What the frame has in it, and which registers a struct is loaded to, is not
\* about numbers.
LEMMA SameNumbersGoes ==
  ASSUME NEW m, NEW to, Ready(m), DOMAIN to = Fields,
         to.next = m.next, to.parameters = m.parameters, to.slots = m.slots,
         to.regs = m.regs, to.map = m.map
  PROVE  Goes(m, to)
<1>1. Numbers(to) = Numbers(m)
  BY DEF Numbers
<1>2. Consistent(to)
  BY <1>1 DEF Consistent, Ready
<1> QED BY <1>1, <1>2 DEF Goes, Ready, Covered

LEMMA FrameGoes ==
  ASSUME NEW m, NEW frame, Ready(m)
  PROVE  Goes(m, [m EXCEPT !.frame = frame])
<1>1. DOMAIN m = Fields
  BY DEF Ready, Consistent
<1> QED BY <1>1, SameNumbersGoes DEF Fields

LEMMA LoadedGoes ==
  ASSUME NEW m, NEW loaded, Ready(m)
  PROVE  Goes(m, [m EXCEPT !.loaded = loaded])
<1>1. DOMAIN m = Fields
  BY DEF Ready, Consistent
<1> QED BY <1>1, SameNumbersGoes DEF Fields

LEMMA SetRegGoes ==
  ASSUME NEW m, NEW n, NEW t, Ready(m), n \in Numbers(m)
  PROVE  Goes(m, SetReg(m, n, t))
<1> DEFINE to == SetReg(m, n, t)
<1>1. DOMAIN m = Fields
  BY DEF Ready, Consistent
<1>2. /\ DOMAIN to = Fields /\ to.next = m.next /\ to.parameters = m.parameters
      /\ to.slots = m.slots /\ to.map = m.map /\ to.regs = With(m.regs, n, t)
  BY <1>1 DEF SetReg, Fields
<1> HIDE DEF to
<1>3. DOMAIN to.regs = DOMAIN m.regs \cup {n}
  BY <1>2 DEF With
<1>4. Numbers(to) = Numbers(m)
  BY <1>2 DEF Numbers
<1>5. Consistent(to)
  BY <1>2, <1>3, <1>4 DEF Consistent, Ready
<1> QED BY <1>2, <1>4, <1>5 DEF Goes, Ready, Covered, to

\* A slot of a new number, to which the value v is mapped.
LEMMA NewSlotGoes ==
  ASSUME NEW m, NEW v, NEW frame, Ready(m), IsSignature
  PROVE  Goes(m, [InsertStackSlot(m, New(m)) EXCEPT
                    !.map = With(@, v, New(m)), !.frame = frame])
<1> DEFINE n == New(m)
           to == [InsertStackSlot(m, n) EXCEPT !.map = With(@, v, n), !.frame = frame]
<1>1. m.next \in Nat /\ n \in {m.next, m.next + 1} /\ DOMAIN m = Fields
  BY NewProperties DEF Ready, Consistent
<1>2. /\ DOMAIN to = Fields /\ to.next = n + 1 /\ to.parameters = m.parameters
      /\ to.slots = m.slots \cup {n} /\ to.map = With(m.map, v, n) /\ to.regs = m.regs
  BY <1>1 DEF InsertStackSlot, Fields
<1> HIDE DEF n, to
<1>3. to.next \in Nat /\ m.next < to.next /\ n \in 0..(to.next - 1)
  BY <1>1, <1>2
<1>4. 0..(m.next - 1) \subseteq 0..(to.next - 1)
  BY <1>1, <1>3
<1>5. Numbers(m) \subseteq Numbers(to)
  BY <1>4 DEF Numbers
<1>6. \A x \in DOMAIN to.map : to.map[x] \in DOMAIN to.regs \cup to.slots
  BY <1>2 DEF With, Consistent, Ready
<1>7. Consistent(to)
  BY <1>2, <1>3, <1>4, <1>5, <1>6 DEF Consistent, Ready
<1>8. Covered(to, Len(signature))
  <2>1. \A i \in 1..Len(signature) : ParameterOf(i) \in Nat
    BY DEF ParameterOf, IsSignature
  <2> QED BY <1>1, <1>2, <1>3, <2>1 DEF Covered, Ready
<1>9. \A j \in DOMAIN to.parameters : to.parameters[j] <= to.next
  <2>1. \A j \in DOMAIN m.parameters : m.parameters[j] \in Nat
    BY DEF Ready, Consistent
  <2> QED BY <1>1, <1>2, <1>3, <2>1 DEF Ready
<1> QED BY <1>2, <1>5, <1>7, <1>8, <1>9 DEF Goes, Ready, n, to

\* The value v is mapped to a new register.
LEMMA MapNewGoes ==
  ASSUME NEW m, NEW v, Ready(m), IsSignature
  PROVE  Goes(m, MapNew(m, v).m) /\ MapNew(m, v).reg \in Numbers(MapNew(m, v).m)
<1> DEFINE n == New(m)
           d == Define(m, Undefined)
           to == [d EXCEPT !.map = With(@, v, n)]
<1>1. Goes(m, d) /\ n \in DOMAIN d.regs
  BY DefineGoes
<1>2. DOMAIN d = Fields
  BY <1>1 DEF Goes, Ready, Consistent
<1>3. MapNew(m, v).m = to /\ MapNew(m, v).reg = n
  BY DEF MapNew
<1> HIDE DEF n, d
<1>4. /\ DOMAIN to = Fields /\ to.next = d.next /\ to.parameters = d.parameters
      /\ to.slots = d.slots /\ to.map = With(d.map, v, n) /\ to.regs = d.regs
  BY <1>2 DEF Fields
<1> HIDE DEF to
<1>5. Numbers(to) = Numbers(d)
  BY <1>4 DEF Numbers
<1>6. \A x \in DOMAIN to.map : to.map[x] \in DOMAIN to.regs \cup to.slots
  BY <1>1, <1>4 DEF With, Consistent, Ready, Goes
<1>7. Consistent(to)
  BY <1>1, <1>4, <1>5, <1>6 DEF Consistent, Ready, Goes
<1>8. Goes(d, to)
  BY <1>1, <1>4, <1>5, <1>7 DEF Goes, Ready, Covered
<1>9. n \in Numbers(to)
  BY <1>1, <1>5 DEF Goes, Ready, Consistent
<1> QED BY <1>1, <1>3, <1>8, <1>9, GoesAgain

LEMMA OperandGoes ==
  ASSUME NEW m, NEW v, NEW isDef, Ready(m), IsSignature
  PROVE  LET o == GetMachineOperandFromValue(m, v, isDef)
         IN Goes(m, o.m) /\ o.reg \in Numbers(o.m)
<1> DEFINE o == GetMachineOperandFromValue(m, v, isDef)
<1>1. ASSUME NEW slot, o = Load(m, slot) PROVE Goes(m, o.m) /\ o.reg \in Numbers(o.m)
  <2> DEFINE d == Define(m, At(m.frame, <<slot, 1>>))
  <2>1. o.m = d /\ o.reg = New(m)
    BY <1>1 DEF Load
  <2>2. Goes(m, d) /\ New(m) \in DOMAIN d.regs
    BY DefineGoes
  <2> HIDE DEF d, o
  <2> QED BY <2>1, <2>2 DEF Goes, Ready, Consistent
<1>2. ASSUME o = MapNew(m, v) PROVE Goes(m, o.m) /\ o.reg \in Numbers(o.m)
  BY <1>2, MapNewGoes
<1>3. ASSUME v \in DOMAIN m.map, o = [m |-> m, reg |-> m.map[v]]
      PROVE  Goes(m, o.m) /\ o.reg \in Numbers(o.m)
  <2>1. m.map[v] \in Numbers(m)
    BY <1>3 DEF Ready, Consistent, Numbers
  <2> QED BY <1>3, <2>1, GoesNowhere
<1>4. \/ \E slot : o = Load(m, slot)
      \/ o = MapNew(m, v)
      \/ v \in DOMAIN m.map /\ o = [m |-> m, reg |-> m.map[v]]
  BY Zenon DEF GetMachineOperandFromValue
<1> QED BY <1>1, <1>2, <1>3, <1>4

LEMMA SourceGoes ==
  ASSUME NEW m, NEW v, Ready(m), IsSignature
  PROVE  Goes(m, Source(m, v).m)
<1>1. CASE v = Literal
  BY <1>1, GoesNowhere DEF Source
<1>2. CASE v # Literal
  BY <1>2, OperandGoes DEF Source
<1> QED BY <1>1, <1>2
-----------------------------------------------------------------------------
(* Loops that deal out several numbers *)

Temporary(m, k, f) ==
  f = [i \in 0..k |-> IF i = 0 THEN m ELSE Define(f[i - 1], Undefined)]

LEMMA TemporariesExist ==
  ASSUME NEW m, NEW k \in Nat
  PROVE  \E f : Temporary(m, k, f)
<1> DEFINE Step(f, i) == IF i = 0 THEN m ELSE Define(f[i - 1], Undefined)
           Upto(n, f) == f = [i \in 0..n |-> Step(f, i)]
           Good == {n \in Nat : \E f : Upto(n, f)}
<1>1. 0 \in Good
  <2>1. Upto(0, [i \in 0..0 |-> m])
    OBVIOUS
  <2> QED BY <2>1
<1>2. ASSUME NEW n \in Nat \ {0}, n - 1 \in Good PROVE n \in Good
  <2>1. PICK g : Upto(n - 1, g)
    BY <1>2
  <2> DEFINE f == [i \in 0..n |-> IF i < n THEN g[i] ELSE Step(g, n)]
  <2>2. ASSUME NEW i \in 0..n PROVE f[i] = Step(f, i)
    <3>1. i # 0 => i - 1 \in 0..n /\ f[i - 1] = g[i - 1]
      OBVIOUS
    <3>2. Step(f, i) = Step(g, i)
      BY <3>1
    <3>3. i < n => i \in 0..(n - 1)
      OBVIOUS
    <3>4. ~(i < n) => i = n
      OBVIOUS
    <3> HIDE DEF Step
    <3>5. i < n => g[i] = Step(g, i)
      BY <2>1, <3>3
    <3> QED BY <3>2, <3>4, <3>5
  <2>3. Upto(n, f)
    <3> HIDE DEF Step
    <3> QED BY <2>2
  <2> QED BY <2>3
<1> HIDE DEF Good
<1>3. k \in Good
  BY <1>1, <1>2, Induction
<1> QED BY <1>3 DEF Good, Temporary

LEMMA TemporariesGo ==
  ASSUME NEW m, NEW k \in Nat, Ready(m), IsSignature
  PROVE  Goes(m, Temporaries(m, k))
<1>1. PICK f : f = CHOOSE g : Temporary(m, k, g)
  OBVIOUS
<1>2. Temporary(m, k, f)
  BY <1>1, TemporariesExist
<1>3. Temporaries(m, k) = f[k]
  BY <1>1 DEF Temporaries, Temporary
<1> DEFINE Good == {i \in Nat : i <= k => Goes(m, f[i])}
<1>4. 0 \in Good
  BY <1>2, GoesNowhere DEF Temporary
<1>5. ASSUME NEW i \in Nat \ {0}, i - 1 \in Good PROVE i \in Good
  <2> SUFFICES ASSUME i <= k PROVE Goes(m, f[i])
    OBVIOUS
  <2>1. Goes(m, f[i - 1]) /\ i \in 0..k
    BY <1>5
  <2>2. f[i] = Define(f[i - 1], Undefined)
    BY <1>2, <2>1 DEF Temporary
  <2>3. Goes(f[i - 1], f[i])
    BY <2>1, <2>2, DefineGoes DEF Goes
  <2> QED BY <2>1, <2>3, GoesAgain
<1>6. k \in Good
  <2> HIDE DEF Good
  <2> QED BY <1>4, <1>5, Induction
<1> QED BY <1>3, <1>6

PassedUpto(m, args, f) ==
  f = [i \in 0..Len(args) |->
         IF i = 0 THEN [m |-> m, reads |-> {}]
         ELSE LET p == Passed(f[i - 1].m, args[i])
              IN [m |-> p.m, reads |-> f[i - 1].reads \cup p.reads]]

LEMMA PassedExists ==
  ASSUME NEW m, NEW args, Len(args) \in Nat
  PROVE  \E f : PassedUpto(m, args, f)
<1> DEFINE Step(f, i) == 
             IF i = 0 THEN [m |-> m, reads |-> {}]
             ELSE LET p == Passed(f[i - 1].m, args[i])
                  IN [m |-> p.m, reads |-> f[i - 1].reads \cup p.reads]
           Upto(n, f) == f = [i \in 0..n |-> Step(f, i)]
           Good == {n \in Nat : \E f : Upto(n, f)}
<1>1. 0 \in Good
  <2>1. Upto(0, [i \in 0..0 |-> [m |-> m, reads |-> {}]])
    OBVIOUS
  <2> QED BY <2>1
<1>2. ASSUME NEW n \in Nat \ {0}, n - 1 \in Good PROVE n \in Good
  <2>1. PICK g : Upto(n - 1, g)
    BY <1>2
  <2> DEFINE f == [i \in 0..n |-> IF i < n THEN g[i] ELSE Step(g, n)]
  <2>2. ASSUME NEW i \in 0..n PROVE f[i] = Step(f, i)
    <3>1. i # 0 => i - 1 \in 0..n /\ f[i - 1] = g[i - 1]
      OBVIOUS
    <3>2. Step(f, i) = Step(g, i)
      BY <3>1
    <3>3. i < n => i \in 0..(n - 1)
      OBVIOUS
    <3>4. ~(i < n) => i = n
      OBVIOUS
    <3> HIDE DEF Step
    <3>5. i < n => g[i] = Step(g, i)
      BY <2>1, <3>3
    <3> QED BY <3>2, <3>4, <3>5
  <2>3. Upto(n, f)
    <3> HIDE DEF Step
    <3> QED BY <2>2
  <2> QED BY <2>3
<1> HIDE DEF Good
<1>3. Len(args) \in Good
  BY <1>1, <1>2, Induction
<1> QED BY <1>3 DEF Good, PassedUpto

LEMMA PassedGoes ==
  ASSUME NEW m, NEW v, Ready(m), IsSignature
  PROVE  Goes(m, Passed(m, v).m)
<1>1. Passed(m, v).m = m \/ Passed(m, v).m = Source(m, v).m
  BY DEF Passed
<1> QED BY <1>1, GoesNowhere, SourceGoes

LEMMA PassedAllGo ==
  ASSUME NEW m, NEW args, Len(args) \in Nat, Ready(m), IsSignature
  PROVE  Goes(m, PassedAll(m, args).m)
<1>1. PICK f : f = CHOOSE g : PassedUpto(m, args, g)
  OBVIOUS
<1>2. PassedUpto(m, args, f)
  BY <1>1, PassedExists
<1>3. PassedAll(m, args) = f[Len(args)]
  BY <1>1 DEF PassedAll, PassedUpto
<1> DEFINE Good == {i \in Nat : i <= Len(args) => Goes(m, f[i].m)}
<1>4. 0 \in Good
  BY <1>2, GoesNowhere DEF PassedUpto
<1>5. ASSUME NEW i \in Nat \ {0}, i - 1 \in Good PROVE i \in Good
  <2> SUFFICES ASSUME i <= Len(args) PROVE Goes(m, f[i].m)
    OBVIOUS
  <2>1. Goes(m, f[i - 1].m) /\ i \in 0..Len(args)
    BY <1>5
  <2>2. f[i].m = Passed(f[i - 1].m, args[i]).m
    <3> DEFINE p == Passed(f[i - 1].m, args[i])
    <3>1. i # 0 /\ i \in 0..Len(args)
      BY <2>1
    <3>2. f[i] = [m |-> p.m, reads |-> f[i - 1].reads \cup p.reads]
      BY <1>2, <3>1, Zenon DEF PassedUpto
    <3> HIDE DEF p
    <3>3. f[i].m = p.m
      BY <3>2
    <3> QED BY <3>3 DEF p
  <2>3. Goes(f[i - 1].m, f[i].m)
    BY <2>1, <2>2, PassedGoes DEF Goes
  <2> QED BY <2>1, <2>3, GoesAgain
<1>6. Len(args) \in Good
  <2> HIDE DEF Good
  <2> QED BY <1>4, <1>5, Induction
<1> QED BY <1>3, <1>6
-----------------------------------------------------------------------------
(* The instructions *)

LEMMA ResultGoes ==
  ASSUME NEW m, NEW v, Ready(m), IsSignature
  PROVE  Goes(m, Result(m, v).m) /\ Result(m, v).reg \in Numbers(Result(m, v).m)
BY OperandGoes DEF Result

\* An instruction that defines a register that was asked for before its sources.
LEMMA SetLaterGoes ==
  ASSUME NEW m, NEW d, NEW to, NEW t, IsSignature,
         Goes(m, d.m), d.reg \in Numbers(d.m), Goes(d.m, to)
  PROVE  Goes(m, SetReg(to, d.reg, t))
<1>1. Ready(to) /\ d.reg \in Numbers(to)
  BY DEF Goes
<1>2. Goes(to, SetReg(to, d.reg, t))
  BY <1>1, SetRegGoes
<1> QED BY <1>2, GoesAgain

LEMMA BinaryGoes ==
  ASSUME NEW l, NEW r, NEW dead, LowerBinary(l, r, dead), Ready(mf), IsSignature
  PROVE  Goes(mf, mf')
<1> DEFINE d == Result(mf, NextID)
           a == Source(d.m, l)
           b == Source(a.m, r)
<1>1. Goes(mf, d.m) /\ d.reg \in Numbers(d.m)
  BY ResultGoes
<1>2. mf' = SetReg(b.m, d.reg, ValueOf(NextID))
  BY DEF LowerBinary
<1> HIDE DEF d
<1>3. Goes(d.m, a.m)
  BY <1>1, SourceGoes DEF Goes
<1> HIDE DEF a
<1>4. Goes(a.m, b.m)
  BY <1>3, SourceGoes DEF Goes
<1> HIDE DEF b
<1>5. Goes(d.m, b.m)
  BY <1>3, <1>4, GoesAgain
<1> QED BY <1>1, <1>2, <1>5, SetLaterGoes

LEMMA UnaryGoes ==
  ASSUME NEW x, LowerUnary(x), Ready(mf), IsSignature
  PROVE  Goes(mf, mf')
<1> DEFINE d == Result(mf, NextID)
           a == Source(d.m, x)
<1>1. Goes(mf, d.m) /\ d.reg \in Numbers(d.m)
  BY ResultGoes
<1>2. mf' = SetReg(a.m, d.reg, ValueOf(NextID))
  BY DEF LowerUnary
<1> HIDE DEF d
<1>3. Goes(d.m, a.m)
  BY <1>1, SourceGoes DEF Goes
<1> HIDE DEF a
<1> QED BY <1>1, <1>2, <1>3, SetLaterGoes

LEMMA LoadGoes ==
  ASSUME NEW v, NEW dead, LowerLoad(v, dead), Ready(mf), IsSignature
  PROVE  Goes(mf, mf')
<1> DEFINE d == GetMachineOperandFromValue(mf, NextID, TRUE)
<1>1. Goes(mf, d.m) /\ d.reg \in Numbers(d.m)
  BY OperandGoes
<1>2. \E t : mf' = SetReg(d.m, d.reg, t)
  BY DEF LowerLoad
<1> HIDE DEF d
<1>3. Goes(d.m, d.m)
  BY <1>1 DEF Goes
<1> QED BY <1>1, <1>2, <1>3, SetLaterGoes

LEMMA StoreGoes ==
  ASSUME NEW v, NEW x, NEW dead, LowerStore(v, x, dead), Ready(mf), IsSignature
  PROVE  Goes(mf, mf')
<1> DEFINE s == Source(mf, x)
<1>1. Goes(mf, s.m)
  BY SourceGoes
<1>2. mf' = s.m \/ \E frame : mf' = [s.m EXCEPT !.frame = frame]
  BY DEF LowerStore
<1> HIDE DEF s
<1>3. \A frame : Goes(s.m, [s.m EXCEPT !.frame = frame])
  BY <1>1, FrameGoes DEF Goes
<1> QED BY <1>1, <1>2, <1>3, GoesAgain

LEMMA LoadGlobalGoes ==
  ASSUME LowerLoadGlobal, Ready(mf), IsSignature
  PROVE  Goes(mf, mf')
<1> DEFINE g == Define(mf, Global)
           d == GetMachineOperandFromValue(g, NextID, TRUE)
<1>1. Goes(mf, g)
  BY DefineGoes
<1>2. mf' = SetReg(d.m, d.reg, ValueOf(NextID))
  BY DEF LowerLoadGlobal
<1> HIDE DEF g
<1>3. Goes(g, d.m) /\ d.reg \in Numbers(d.m)
  BY <1>1, OperandGoes DEF Goes
<1> HIDE DEF d
<1>4. Goes(mf, d.m) /\ Goes(d.m, d.m)
  BY <1>1, <1>3, GoesAgain DEF Goes
<1> QED BY <1>2, <1>3, <1>4, SetLaterGoes

LEMMA StoreGlobalGoes ==
  ASSUME NEW x, LowerStoreGlobal(x), Ready(mf), IsSignature
  PROVE  Goes(mf, mf')
<1> DEFINE g == Define(mf, Global)
<1>1. Goes(mf, g)
  BY DefineGoes
<1>2. mf' = Source(g, x).m
  BY DEF LowerStoreGlobal
<1> HIDE DEF g
<1>3. Goes(g, Source(g, x).m)
  BY <1>1, SourceGoes DEF Goes
<1> QED BY <1>1, <1>2, <1>3, GoesAgain

LEMMA GEPGoes ==
  ASSUME NEW v, NEW x, NEW extra \in Nat, LowerGEP(v, x, extra), Ready(mf), IsSignature
  PROVE  Goes(mf, mf')
<1> DEFINE d == Result(mf, NextID)
           i == Source(d.m, x)
           t == Temporaries(i.m, extra)
           b == Source(t, v)
<1>1. Goes(mf, d.m) /\ d.reg \in Numbers(d.m)
  BY ResultGoes
<1>2. \/ mf' = SetReg(t, d.reg, ValueOf(NextID))
      \/ mf' = SetReg(b.m, d.reg, ValueOf(NextID))
  BY DEF LowerGEP
<1> HIDE DEF d
<1>3. Goes(d.m, i.m)
  BY <1>1, SourceGoes DEF Goes
<1> HIDE DEF i
<1>4. Goes(i.m, t)
  BY <1>3, TemporariesGo DEF Goes
<1> HIDE DEF t
<1>5. Goes(t, b.m)
  BY <1>4, SourceGoes DEF Goes
<1> HIDE DEF b
<1>6. Goes(d.m, t)
  BY <1>3, <1>4, GoesAgain
<1>7. Goes(d.m, b.m)
  BY <1>5, <1>6, GoesAgain
<1> QED BY <1>1, <1>2, <1>6, <1>7, SetLaterGoes

LEMMA GEPGlobalGoes ==
  ASSUME NEW g, NEW x, NEW extra \in Nat, NEW zero,
         LowerGEPGlobal(g, x, extra, zero), Ready(mf), IsSignature
  PROVE  Goes(mf, mf')
<1> DEFINE d == Result(mf, NextID)
           i == Source(d.m, x)
           t == Temporaries(i.m, extra)
<1>1. Goes(mf, d.m) /\ d.reg \in Numbers(d.m)
  BY ResultGoes
<1>2. \E token : mf' = SetReg(t, d.reg, token)
  BY DEF LowerGEPGlobal
<1> HIDE DEF d
<1>3. Goes(d.m, i.m)
  BY <1>1, SourceGoes DEF Goes
<1> HIDE DEF i
<1>4. Goes(i.m, t)
  BY <1>3, TemporariesGo DEF Goes
<1> HIDE DEF t
<1>5. Goes(d.m, t)
  BY <1>3, <1>4, GoesAgain
<1> QED BY <1>1, <1>2, <1>5, SetLaterGoes

LEMMA LoadStructGoes ==
  ASSUME NEW v, LowerLoadStruct(v), Ready(mf), IsSignature
  PROVE  Goes(mf, mf')
<1> DEFINE d == GetMachineOperandFromValue(mf, NextID, TRUE)
           first == Define(d.m, At(d.m.frame, <<GetIDFromValue(mf, v), 1>>))
           second == Define(first, At(d.m.frame, <<GetIDFromValue(mf, v), 2>>))
<1>1. Goes(mf, d.m)
  BY OperandGoes
<1>2. \E loaded : mf' = [second EXCEPT !.loaded = loaded]
  BY DEF LowerLoadStruct
<1> HIDE DEF d
<1>3. Goes(d.m, first)
  BY <1>1, DefineGoes DEF Goes
<1> HIDE DEF first
<1>4. Goes(first, second)
  BY <1>3, DefineGoes DEF Goes
<1> HIDE DEF second
<1>5. \A loaded : Goes(second, [second EXCEPT !.loaded = loaded])
  BY <1>4, LoadedGoes DEF Goes
<1>6. Goes(mf, second)
  BY <1>1, <1>3, <1>4, GoesAgain
<1> QED BY <1>2, <1>5, <1>6, GoesAgain

LEMMA MemoryCopyGoes ==
  ASSUME NEW v, NEW from, LowerMemoryCopy(v, from), Ready(mf), IsSignature
  PROVE  Goes(mf, mf')
<1> DEFINE m == Temporaries(mf, Cardinality(Parts))
<1>1. Cardinality(Parts) \in Nat
  <2>1. Parts = {1} \cup {2}
    BY DEF Parts
  <2> QED BY <2>1, FS_Singleton, FS_AddElement, FS_CardinalityType
<1>2. Goes(mf, m)
  BY <1>1, TemporariesGo
<1>3. mf' = m \/ \E frame : mf' = [m EXCEPT !.frame = frame]
  BY DEF LowerMemoryCopy
<1> HIDE DEF m
<1>4. \A frame : Goes(m, [m EXCEPT !.frame = frame])
  BY <1>2, FrameGoes DEF Goes
<1> QED BY <1>2, <1>3, <1>4, GoesAgain

LEMMA VoidCallGoes ==
  ASSUME NEW args, Len(args) \in Nat, LowerVoidCall(args), Ready(mf), IsSignature
  PROVE  Goes(mf, mf')
BY PassedAllGo DEF LowerVoidCall

LEMMA CallGoes ==
  ASSUME NEW args, Len(args) \in Nat, LowerCall(args), Ready(mf), IsSignature
  PROVE  Goes(mf, mf')
<1> DEFINE p == PassedAll(mf, args).m
<1>1. Goes(mf, p)
  BY PassedAllGo
<1>2. mf' = [InsertStackSlot(p, New(p)) EXCEPT
               !.map = With(@, NextID, New(p)),
               !.frame = With(@, <<New(p), 1>>, ValueOf(NextID))]
  BY DEF LowerCall
<1> HIDE DEF p
<1>3. PICK frame : mf' = [InsertStackSlot(p, New(p)) EXCEPT
                            !.map = With(@, NextID, New(p)), !.frame = frame]
  BY <1>2
<1>4. Goes(p, mf')
  BY <1>1, <1>3, NewSlotGoes DEF Goes
<1> QED BY <1>1, <1>4, GoesAgain
LEMMA InstructionGoes ==
  ASSUME LowerInstruction, Ready(mf), IsSignature
  PROVE  /\ Goes(mf, mf') /\ pc = "body" /\ pc' \in {"body", "done"}
         /\ UNCHANGED <<signature, param, locals>>
<1>1. ASSUME NEW l, NEW r, NEW dead, LowerBinary(l, r, dead)
      PROVE  /\ Goes(mf, mf') /\ pc = "body" /\ pc' \in {"body", "done"}
             /\ UNCHANGED <<signature, param, locals>>
  BY <1>1, BinaryGoes DEF LowerBinary, Unchanged
<1>2. ASSUME NEW x, LowerUnary(x) \/ LowerStoreGlobal(x) \/ LowerBranch(x) \/ LowerReturn(x)
      PROVE  /\ Goes(mf, mf') /\ pc = "body" /\ pc' \in {"body", "done"}
             /\ UNCHANGED <<signature, param, locals>>
  <2>1. CASE LowerUnary(x)
    BY <2>1, UnaryGoes DEF LowerUnary, Unchanged
  <2>2. CASE LowerStoreGlobal(x)
    BY <2>2, StoreGlobalGoes DEF LowerStoreGlobal, Unchanged
  <2>3. CASE LowerBranch(x)
    BY <2>3, SourceGoes DEF LowerBranch, Unchanged
  <2>4. CASE LowerReturn(x)
    BY <2>4, SourceGoes DEF LowerReturn
  <2> QED BY <1>2, <2>1, <2>2, <2>3, <2>4
<1>3. ASSUME NEW v, NEW dead, LowerLoad(v, dead)
      PROVE  /\ Goes(mf, mf') /\ pc = "body" /\ pc' \in {"body", "done"}
             /\ UNCHANGED <<signature, param, locals>>
  BY <1>3, LoadGoes DEF LowerLoad, Unchanged
<1>4. ASSUME NEW v, NEW x, NEW dead, LowerStore(v, x, dead)
      PROVE  /\ Goes(mf, mf') /\ pc = "body" /\ pc' \in {"body", "done"}
             /\ UNCHANGED <<signature, param, locals>>
  BY <1>4, StoreGoes DEF LowerStore, Unchanged
<1>5. ASSUME LowerLoadGlobal
      PROVE  /\ Goes(mf, mf') /\ pc = "body" /\ pc' \in {"body", "done"}
             /\ UNCHANGED <<signature, param, locals>>
  BY <1>5, LoadGlobalGoes DEF LowerLoadGlobal, Unchanged
<1>6. ASSUME NEW v, NEW x, NEW extra \in 0..3, LowerGEP(v, x, extra)
      PROVE  /\ Goes(mf, mf') /\ pc = "body" /\ pc' \in {"body", "done"}
             /\ UNCHANGED <<signature, param, locals>>
  BY <1>6, GEPGoes DEF LowerGEP, Unchanged
<1>7. ASSUME NEW g, NEW x, NEW extra \in 0..3, NEW zero, LowerGEPGlobal(g, x, extra, zero)
      PROVE  /\ Goes(mf, mf') /\ pc = "body" /\ pc' \in {"body", "done"}
             /\ UNCHANGED <<signature, param, locals>>
  BY <1>7, GEPGlobalGoes DEF LowerGEPGlobal, Unchanged
<1>8. ASSUME NEW v, LowerLoadStruct(v)
      PROVE  /\ Goes(mf, mf') /\ pc = "body" /\ pc' \in {"body", "done"}
             /\ UNCHANGED <<signature, param, locals>>
  BY <1>8, LoadStructGoes DEF LowerLoadStruct, Unchanged
<1>9. ASSUME NEW v, NEW from, LowerMemoryCopy(v, from)
      PROVE  /\ Goes(mf, mf') /\ pc = "body" /\ pc' \in {"body", "done"}
             /\ UNCHANGED <<signature, param, locals>>
  BY <1>9, MemoryCopyGoes DEF LowerMemoryCopy, Unchanged
<1>10. ASSUME NEW args \in ArgumentLists, LowerVoidCall(args) \/ LowerCall(args)
      PROVE  /\ Goes(mf, mf') /\ pc = "body" /\ pc' \in {"body", "done"}
             /\ UNCHANGED <<signature, param, locals>>
  <2>1. Len(args) \in Nat
    BY DEF ArgumentLists
  <2>2. CASE LowerVoidCall(args)
    BY <2>1, <2>2, VoidCallGoes DEF LowerVoidCall, Unchanged
  <2>3. CASE LowerCall(args)
    BY <2>1, <2>3, CallGoes DEF LowerCall, Unchanged
  <2> QED BY <1>10, <2>2, <2>3
<1> QED BY Zenon, <1>1, <1>2, <1>3, <1>4, <1>5, <1>6, <1>7, <1>8, <1>9, <1>10
    DEF LowerInstruction

-----------------------------------------------------------------------------
(* The inductive invariant.  While parameters and variables are lowered, what *)
(* is said of them in Ready is still to come: that NextVReg has passed the     *)
(* parameters rests on the variables, one of which is in front of each.        *)

\* A struct behind a scalar gets the number of the scalar.
StructsFirst(sig) ==
  \A i, j \in DOMAIN sig : i < j /\ sig[j] = "struct" => sig[i] = "struct"

Distinct(m) ==
  \A i, j \in DOMAIN m.parameters : m.parameters[i] = m.parameters[j] => i = j

\* Structs take two numbers each, from NextVReg on; then each parameter has its own.
ParametersSoFar ==
  /\ mf.next <= 2 * (param - 1)
  /\ (\A i \in 1..(param - 1) : signature[i] = "struct") => mf.next = 2 * (param - 1)
  /\ \A j \in DOMAIN mf.parameters : mf.parameters[j] < 2 * (param - 1)

IInv ==
  /\ IsSignature /\ StructsFirst(signature)
  /\ DOMAIN locals \subseteq Nat
  /\ \A i \in DOMAIN signature : LocalOf(i) \in DOMAIN locals
  /\ pc \in {"parameters", "allocations", "body", "done"}
  /\ param \in 1..(Len(signature) + 1)
  /\ pc # "parameters" => param = Len(signature) + 1
  /\ Consistent(mf) /\ Distinct(mf) /\ Covered(mf, param - 1)
  /\ pc = "parameters" => ParametersSoFar
  /\ pc = "allocations" =>
       \A j \in DOMAIN mf.parameters : mf.parameters[j] < 2 * Len(signature)
  /\ pc \in {"body", "done"} => Ready(mf)

LEMMA InitIInv ==
  ASSUME \A sig \in Signatures : StructsFirst(sig), Init
  PROVE  IInv
<1>1. IsSignature /\ StructsFirst(signature)
  BY LoweringAssumption DEF Init, IsSignature
<1>2. DOMAIN locals \subseteq Nat /\ \A i \in DOMAIN signature : LocalOf(i) \in DOMAIN locals
  <2>1. PICK l \in OtherLocals(signature) :
          DOMAIN locals = DOMAIN ParameterLocals(signature) \cup DOMAIN l
    BY DEF Init, Allocations
  <2>2. DOMAIN ParameterLocals(signature) = {LocalOf(i) : i \in DOMAIN signature}
    BY DEF ParameterLocals
  <2>3. \A i \in DOMAIN signature : LocalOf(i) \in Nat
    BY <1>1 DEF IsSignature, LocalOf
  <2>4. 2 * Len(signature) \in Nat
    BY <1>1 DEF IsSignature
  <2>5. DOMAIN l \subseteq 2 * Len(signature)..2 * Len(signature) + MaxIDs - 1
    BY <2>1 DEF OtherLocals
  <2>6. DOMAIN l \subseteq Nat
    BY <2>4, <2>5, LoweringAssumption
  <2> QED BY <2>1, <2>2, <2>3, <2>6
<1>3. mf = EmptyFunction /\ param = 1 /\ pc = "parameters" /\ Len(signature) \in Nat
  BY <1>1 DEF Init, IsSignature
<1>4. Consistent(mf)
  BY <1>3 DEF Consistent, EmptyFunction, Nothing, Fields, Numbers
<1>5. Distinct(mf) /\ Covered(mf, param - 1) /\ ParametersSoFar
  BY <1>3 DEF Distinct, Covered, ParametersSoFar, EmptyFunction
<1> QED BY <1>1, <1>2, <1>3, <1>4, <1>5 DEF IInv
\* Inserting a parameter whose number is above those of the others.
LEMMA InsertParameterProperties ==
  ASSUME NEW m, NEW n \in Nat, NEW t, Consistent(m), Distinct(m), n \in Numbers(m),
         \A j \in DOMAIN m.parameters : m.parameters[j] < n
  PROVE  LET to == InsertParameter(m, n, t) IN
         /\ Consistent(to) /\ Distinct(to) /\ to.next = m.next
         /\ \A j \in DOMAIN to.parameters : to.parameters[j] = n \/
              \E i \in DOMAIN m.parameters : to.parameters[j] = m.parameters[i]
         /\ \E j \in DOMAIN to.parameters : to.parameters[j] = n
         /\ \A i \in DOMAIN m.parameters :
              \E j \in DOMAIN to.parameters : to.parameters[j] = m.parameters[i]
<1> DEFINE to == InsertParameter(m, n, t)
<1>1. DOMAIN m = Fields /\ m.parameters \in Seq(Nat) /\ m.next \in Nat
  BY DEF Consistent
<1>2. /\ DOMAIN to = Fields /\ to.next = m.next /\ to.parameters = Append(m.parameters, n)
      /\ to.slots = m.slots /\ to.map = m.map /\ to.regs = With(m.regs, n, t)
  BY <1>1 DEF InsertParameter, Fields
<1> HIDE DEF to
<1>3. DOMAIN to.regs = DOMAIN m.regs \cup {n}
  BY <1>2 DEF With
<1>4. Numbers(to) = Numbers(m)
  BY <1>2 DEF Numbers
<1> DEFINE k == Len(m.parameters) + 1
<1>5. /\ to.parameters \in Seq(Nat) /\ DOMAIN to.parameters = DOMAIN m.parameters \cup {k}
      /\ to.parameters[k] = n /\ k \notin DOMAIN m.parameters
      /\ \A j \in DOMAIN m.parameters : to.parameters[j] = m.parameters[j]
  BY <1>1, <1>2
<1> HIDE DEF k
<1>6. Consistent(to)
  BY <1>2, <1>3, <1>4, <1>5 DEF Consistent
<1>7. Distinct(to)
  <2>1. \A j \in DOMAIN m.parameters : m.parameters[j] \in Nat /\ m.parameters[j] # n
    BY <1>1
  <2> QED BY <1>5, <2>1 DEF Distinct
<1> QED BY <1>2, <1>5, <1>6, <1>7 DEF to

\* The next number is taken, and nothing else changes.
LEMMA TakeProperties ==
  ASSUME NEW m, Consistent(m), Distinct(m),
         \A j \in DOMAIN m.parameters : m.parameters[j] < m.next
  PROVE  LET to == [m EXCEPT !.next = New(m) + 1] IN
         /\ Consistent(to) /\ Distinct(to) /\ to.parameters = m.parameters
         /\ New(m) = m.next /\ to.next = m.next + 1 /\ New(m) \in Numbers(to)
<1> DEFINE to == [m EXCEPT !.next = New(m) + 1]
<1>1. DOMAIN m = Fields /\ m.parameters \in Seq(Nat) /\ m.next \in Nat
  BY DEF Consistent
<1>2. \A j \in DOMAIN m.parameters : m.parameters[j] \in Nat
  BY <1>1
<1>3. \A j \in DOMAIN m.parameters : m.parameters[j] <= m.next
  BY <1>1, <1>2
<1>4. New(m) = m.next
  BY <1>1, <1>3, ScannedProperties DEF New, GetNextAvailableVReg
<1>5. /\ DOMAIN to = Fields /\ to.next = m.next + 1 /\ to.parameters = m.parameters
      /\ to.slots = m.slots /\ to.map = m.map /\ to.regs = m.regs
  BY <1>1, <1>4 DEF Fields
<1> HIDE DEF to
<1>6. 0..(m.next - 1) \subseteq 0..(to.next - 1) /\ m.next \in 0..(to.next - 1)
  BY <1>1, <1>5
<1>7. Numbers(m) \subseteq Numbers(to)
  BY <1>6 DEF Numbers
<1>8. Consistent(to)
  BY <1>1, <1>5, <1>6, <1>7 DEF Consistent
<1>9. m.next \in Numbers(to)
  BY <1>6 DEF Numbers
<1> QED BY <1>4, <1>5, <1>8, <1>9 DEF to, Distinct

LEMMA NewParameterProperties ==
  ASSUME NEW m, NEW t, Consistent(m), Distinct(m),
         \A j \in DOMAIN m.parameters : m.parameters[j] < m.next
  PROVE  LET to == InsertNewParameter(m, t) IN
         /\ Consistent(to) /\ Distinct(to) /\ to.next = m.next + 1
         /\ \A j \in DOMAIN to.parameters : to.parameters[j] < to.next
         /\ \A i \in DOMAIN m.parameters :
              \E j \in DOMAIN to.parameters : to.parameters[j] = m.parameters[i]
<1> DEFINE taken == [m EXCEPT !.next = New(m) + 1]
           to == InsertNewParameter(m, t)
<1>1. m.next \in Nat /\ m.parameters \in Seq(Nat)
  BY DEF Consistent
<1>2. /\ Consistent(taken) /\ Distinct(taken) /\ taken.parameters = m.parameters
      /\ New(m) = m.next /\ taken.next = m.next + 1 /\ New(m) \in Numbers(taken)
  BY TakeProperties
<1>3. to = InsertParameter(taken, New(m), t)
  BY DEF InsertNewParameter
<1> HIDE DEF taken, to
<1>4. New(m) \in Nat /\ \A j \in DOMAIN taken.parameters : taken.parameters[j] < New(m)
  BY <1>1, <1>2
<1>5. /\ Consistent(to) /\ Distinct(to) /\ to.next = m.next + 1
      /\ \A j \in DOMAIN to.parameters : to.parameters[j] = m.next \/
           \E i \in DOMAIN m.parameters : to.parameters[j] = m.parameters[i]
      /\ \A i \in DOMAIN m.parameters :
           \E j \in DOMAIN to.parameters : to.parameters[j] = m.parameters[i]
  BY <1>2, <1>3, <1>4, InsertParameterProperties
<1>6. \A i \in DOMAIN m.parameters : m.parameters[i] \in Nat
  BY <1>1
<1>7. \A j \in DOMAIN to.parameters : to.parameters[j] < to.next
  BY <1>1, <1>5, <1>6
<1> QED BY <1>5, <1>7 DEF to
LEMMA ParameterIInv ==
  ASSUME IInv, HandleFunctionParam
  PROVE  IInv'
<1> DEFINE p == ParameterOf(param)
           first == InsertNewParameter(mf, Parameter(param, 1))
           second == InsertNewParameter(first, Parameter(param, 2))
<1>1. /\ IsSignature /\ Len(signature) \in Nat /\ param \in DOMAIN signature
      /\ param \in 1..Len(signature) /\ param' = param + 1
      /\ Consistent(mf) /\ Distinct(mf) /\ Covered(mf, param - 1) /\ ParametersSoFar
      /\ mf.next \in Nat /\ mf.parameters \in Seq(Nat)
  BY DEF IInv, HandleFunctionParam, IsSignature, Consistent
<1>2. UNCHANGED <<pc, signature, locals>> /\ pc = "parameters"
  BY DEF HandleFunctionParam
<1>3. p = 2 * (param - 1) + 1 /\ p \in Numbers(mf) /\ p \in Nat
  BY <1>1 DEF ParameterOf, Numbers
<1>4. \A i \in 1..param : i = param \/ i \in 1..(param - 1)
  BY <1>1
<1>5. \A j \in DOMAIN mf.parameters : mf.parameters[j] \in Nat /\ mf.parameters[j] < 2 * (param - 1)
  BY <1>1 DEF ParametersSoFar
<1>6. \A i \in 1..param : ParameterOf(i) \in Nat
  BY <1>1 DEF ParameterOf
<1>7. CASE signature[param] # "struct"
  <2>1. mf' = InsertParameter(mf, p, Parameter(param, 1))
    BY <1>7 DEF HandleFunctionParam
  <2>2. \A j \in DOMAIN mf.parameters : mf.parameters[j] < p
    BY <1>1, <1>3, <1>5
  <2> DEFINE to == InsertParameter(mf, p, Parameter(param, 1))
  <2> HIDE DEF p
  <2>a. /\ Consistent(to) /\ Distinct(to) /\ to.next = mf.next
        /\ \A j \in DOMAIN to.parameters : to.parameters[j] = p \/
             \E i \in DOMAIN mf.parameters : to.parameters[j] = mf.parameters[i]
        /\ \E j \in DOMAIN to.parameters : to.parameters[j] = p
        /\ \A i \in DOMAIN mf.parameters :
             \E j \in DOMAIN to.parameters : to.parameters[j] = mf.parameters[i]
    <3>1. Consistent(mf) /\ Distinct(mf) /\ p \in Numbers(mf) /\ p \in Nat
      BY <1>1, <1>3
    <3> QED BY <2>2, <3>1, InsertParameterProperties
  <2> HIDE DEF to
  <2>3. /\ Consistent(mf') /\ Distinct(mf') /\ mf'.next = mf.next
        /\ \A j \in DOMAIN mf'.parameters : mf'.parameters[j] = p \/
             \E i \in DOMAIN mf.parameters : mf'.parameters[j] = mf.parameters[i]
        /\ \E j \in DOMAIN mf'.parameters : mf'.parameters[j] = p
        /\ \A i \in DOMAIN mf.parameters :
             \E j \in DOMAIN mf'.parameters : mf'.parameters[j] = mf.parameters[i]
    BY <2>a, <2>1 DEF to
  <2>4. Covered(mf', param)
    BY <1>1, <1>4, <2>3 DEF Covered, p
  <2>5. \A j \in DOMAIN mf'.parameters : mf'.parameters[j] < 2 * param
    <3>1. param \in Nat /\ p \in Nat /\ p < 2 * param
      BY <1>1, <1>3
    <3>2. \A i \in DOMAIN mf.parameters : mf.parameters[i] < 2 * param
      BY <1>5, <3>1
    <3> QED BY <2>3, <3>1, <3>2
  <2>6. mf'.next <= 2 * param
    BY <1>1, <2>3 DEF ParametersSoFar
  <2>7. ParametersSoFar'
    BY <1>1, <1>2, <1>7, <2>5, <2>6 DEF ParametersSoFar
  <2> HIDE DEF first, second
  <2>8. /\ IsSignature' /\ StructsFirst(signature)' /\ DOMAIN locals' \subseteq Nat
        /\ \A i \in DOMAIN signature' : LocalOf(i) \in DOMAIN locals'
    BY <1>2 DEF IInv, IsSignature
  <2>9. param' \in 1..(Len(signature) + 1) /\ param' - 1 = param
    BY <1>1
  <2>10. Consistent(mf)' /\ Distinct(mf)' /\ Covered(mf, param - 1)'
    <3>1. Covered(mf', param' - 1)
      BY <2>4, <2>9
    <3>2. Consistent(mf)'
      BY <1>2, <2>3 DEF Consistent, Numbers
    <3>3. Covered(mf, param - 1)'
      BY <3>1 DEF Covered
    <3> QED BY <2>3, <3>2, <3>3 DEF Distinct
  <2> QED BY <1>2, <2>7, <2>8, <2>9, <2>10 DEF IInv
<1>8. CASE signature[param] = "struct"
  <2>1. \E structs : mf' = [second EXCEPT !.structs = structs]
    BY <1>8 DEF HandleFunctionParam
  <2>2. \A i \in 1..(param - 1) : signature[i] = "struct"
    BY <1>1, <1>8 DEF IInv, StructsFirst
  <2>3. mf.next = 2 * (param - 1)
    BY <1>1, <2>2 DEF ParametersSoFar
  <2>4. \A j \in DOMAIN mf.parameters : mf.parameters[j] < mf.next
    BY <1>5, <2>3
  <2>5. /\ Consistent(first) /\ Distinct(first) /\ first.next = mf.next + 1
        /\ \A j \in DOMAIN first.parameters : first.parameters[j] < first.next
        /\ \A i \in DOMAIN mf.parameters :
             \E j \in DOMAIN first.parameters : first.parameters[j] = mf.parameters[i]
    BY <1>1, <2>4, NewParameterProperties
  <2> HIDE DEF first
  <2>6. /\ Consistent(second) /\ Distinct(second) /\ second.next = first.next + 1
        /\ \A j \in DOMAIN second.parameters : second.parameters[j] < second.next
        /\ \A i \in DOMAIN first.parameters :
             \E j \in DOMAIN second.parameters : second.parameters[j] = first.parameters[i]
    BY <2>5, NewParameterProperties
  <2> HIDE DEF second
  <2>7. /\ mf'.next = second.next /\ mf'.parameters = second.parameters
        /\ mf'.slots = second.slots /\ mf'.map = second.map /\ mf'.regs = second.regs
        /\ DOMAIN mf' = Fields
    BY <2>1, <2>6 DEF Consistent, Fields
  <2>8. Numbers(mf') = Numbers(second)
    BY <2>7 DEF Numbers
  <2>9. Consistent(mf') /\ Distinct(mf')
    BY <2>6, <2>7, <2>8 DEF Consistent, Distinct
  <2>10. mf'.next = 2 * param
    BY <1>1, <2>3, <2>5, <2>6, <2>7
  <2>11. \A i \in 1..(param - 1) : ParameterOf(i) < 2 * param
    BY <1>1 DEF ParameterOf
  <2>12. Covered(mf', param)
    BY <1>1, <1>3, <1>4, <2>10, <2>11 DEF Covered
  <2>13. ParametersSoFar'
    BY <1>1, <1>2, <2>6, <2>7, <2>10 DEF ParametersSoFar
  <2> QED BY <1>1, <1>2, <2>9, <2>12, <2>13
      DEF IInv, Consistent, Covered, Distinct, Numbers, IsSignature, ParameterOf
<1> QED BY <1>7, <1>8

LEMMA HandledIInv ==
  ASSUME IInv, ParametersHandled
  PROVE  IInv'
<1>1. Len(signature) \in Nat /\ param = Len(signature) + 1 /\ ParametersSoFar
  BY DEF IInv, ParametersHandled, IsSignature
<1>2. UNCHANGED <<signature, param, locals, mf>> /\ pc' = "allocations"
  BY DEF ParametersHandled
<1>3. \A j \in DOMAIN mf.parameters : mf.parameters[j] < 2 * Len(signature)
  BY <1>1 DEF ParametersSoFar
<1> QED BY <1>1, <1>2, <1>3 DEF IInv, Consistent, Covered, Distinct, Numbers, IsSignature

\* An allocation has the number of its variable, which NextVReg passes.
LEMMA AllocationIInv ==
  ASSUME IInv, HandleStackAllocation
  PROVE  IInv'
<1>1. UNCHANGED <<pc, signature, param, locals>> /\ pc = "allocations"
  BY DEF HandleStackAllocation
<1>2. PICK n \in DOMAIN locals \ mf.slots :
        mf' = [InsertStackSlot(mf, n) EXCEPT !.frame = Over(InitialCells(n), @)]
  BY DEF HandleStackAllocation
<1>3. n \in Nat /\ mf.next \in Nat /\ DOMAIN mf = Fields /\ mf.parameters \in Seq(Nat)
  BY <1>2 DEF IInv, Consistent
<1> DEFINE next == IF mf.next <= n THEN n + 1 ELSE mf.next
<1>4. /\ DOMAIN mf' = Fields /\ mf'.next = next /\ mf'.parameters = mf.parameters
      /\ mf'.slots = mf.slots \cup {n} /\ mf'.map = mf.map /\ mf'.regs = mf.regs
  BY <1>2, <1>3 DEF InsertStackSlot, Fields
<1>5. mf'.next \in Nat /\ mf.next <= mf'.next /\ n \in 0..(mf'.next - 1)
  BY <1>3, <1>4
<1>6. 0..(mf.next - 1) \subseteq 0..(mf'.next - 1)
  BY <1>3, <1>5
<1>7. Numbers(mf) \subseteq Numbers(mf')
  BY <1>6 DEF Numbers
<1>8. Consistent(mf')
  BY <1>4, <1>5, <1>6, <1>7 DEF IInv, Consistent
<1>9. Covered(mf', param - 1)
  <2>1. \A i \in 1..(param - 1) : ParameterOf(i) \in Nat
    BY DEF IInv, IsSignature, ParameterOf
  <2> QED BY <1>3, <1>4, <1>5, <2>1 DEF IInv, Covered
<1> QED BY <1>1, <1>4, <1>8, <1>9
    DEF IInv, Consistent, Covered, Distinct, Numbers, IsSignature, ParameterOf

\* All variables have been allocated: that of the last parameter too, in front of it.
LEMMA StoreIInv ==
  ASSUME IInv, StoreParameters
  PROVE  IInv'
<1>1. /\ UNCHANGED <<signature, param, locals>> /\ pc = "allocations" /\ pc' = "body"
      /\ DOMAIN locals \subseteq mf.slots
  BY DEF StoreParameters
<1>2. PICK frame : mf' = [mf EXCEPT !.frame = frame]
  BY DEF StoreParameters
<1>3. /\ Len(signature) \in Nat /\ param = Len(signature) + 1 /\ mf.next \in Nat
      /\ mf.parameters \in Seq(Nat)
  BY <1>1 DEF IInv, IsSignature, Consistent
<1>4. \A j \in DOMAIN mf.parameters : mf.parameters[j] < 2 * Len(signature)
  BY <1>1 DEF IInv
<1>5. ASSUME NEW j \in DOMAIN mf.parameters PROVE mf.parameters[j] <= mf.next
  <2>1. mf.parameters[j] \in Nat /\ Len(signature) \in DOMAIN signature
    BY <1>3, <1>4, <1>5 DEF IInv, IsSignature
  <2>2. LocalOf(Len(signature)) \in mf.slots
    BY <1>1, <2>1 DEF IInv
  <2>3. LocalOf(Len(signature)) < mf.next
    BY <1>3, <2>2 DEF IInv, Consistent, LocalOf
  <2>4. LocalOf(Len(signature)) = 2 * (Len(signature) - 1)
    BY DEF LocalOf
  <2> QED BY <1>3, <1>4, <2>1, <2>3, <2>4
<1>6. Ready(mf)
  BY <1>3, <1>5 DEF Ready, IInv
<1>7. Goes(mf, mf')
  BY <1>2, <1>6, FrameGoes
<1> QED BY <1>1, <1>3, <1>7
    DEF IInv, Goes, Ready, Consistent, Covered, Distinct, Numbers, IsSignature, ParameterOf

LEMMA BodyIInv ==
  ASSUME IInv, LowerInstruction
  PROVE  IInv'
<1>1. pc = "body" /\ Ready(mf) /\ param = Len(signature) + 1 /\ Len(signature) \in Nat
  <2>1. pc = "body"
    BY
        DEF LowerInstruction, LowerBinary, LowerUnary, LowerStoreGlobal, LowerBranch, LowerReturn,
           LowerLoad, LowerStore, LowerLoadGlobal, LowerGEP, LowerGEPGlobal, LowerLoadStruct,
           LowerMemoryCopy, LowerVoidCall, LowerCall
  <2> QED BY <2>1 DEF IInv, IsSignature
<1>2. /\ Goes(mf, mf') /\ pc' \in {"body", "done"}
      /\ UNCHANGED <<signature, param, locals>>
  BY <1>1, InstructionGoes DEF IInv
<1> QED BY <1>1, <1>2
    DEF IInv, Goes, Ready, Consistent, Covered, Distinct, Numbers, IsSignature, ParameterOf

LEMMA NextIInv ==
  ASSUME IInv, [Next]_vars
  PROVE  IInv'
<1>1. CASE EndStatement \/ UNCHANGED vars
  <2>1. UNCHANGED <<pc, signature, param, locals, mf>>
    BY <1>1 DEF EndStatement, Unchanged, vars
  <2> QED BY <2>1
      DEF IInv, ParametersSoFar, Ready, Consistent, Covered, Distinct, Numbers, IsSignature
<1> QED BY <1>1, ParameterIInv, HandledIInv, AllocationIInv, StoreIInv, BodyIInv DEF Next

LEMMA IInvImpliesFreshness ==
  ASSUME IInv
  PROVE  NumbersAreFresh
<1>1. DOMAIN mf.regs \subseteq Numbers(mf) /\ mf.slots \subseteq 0..(mf.next - 1) /\ Distinct(mf)
  BY DEF IInv, Consistent
<1>2. ASSUME pc = "body" PROVE New(mf) \notin DOMAIN mf.regs \cup mf.slots
  <2>1. New(mf) \notin Numbers(mf)
    BY <1>2, NewProperties DEF IInv
  <2> QED BY <1>1, <2>1 DEF Numbers
<1> QED BY <1>1, <1>2 DEF NumbersAreFresh, Distinct

\* In every function whose struct parameters come first, GetNextAvailableVReg deals
\* out numbers that no register and no slot has, and each parameter has registers of
\* its own: whatever the number of parameters, variables and instructions.
THEOREM Freshness ==
  ASSUME \A sig \in Signatures : StructsFirst(sig)
  PROVE  Spec => []NumbersAreFresh
<1>1. Init => IInv
  BY InitIInv
<1>2. IInv /\ [Next]_vars => IInv'
  BY NextIInv
<1>3. IInv => NumbersAreFresh
  BY IInvImpliesFreshness
<1> QED BY <1>1, <1>2, <1>3, PTL DEF Spec

-----------------------------------------------------------------------------
(* What the operands hold.  Emitting an operand keeps everything that was     *)
(* defined; it takes numbers that nothing has.                               *)

Extends(f, g) == DOMAIN f \subseteq DOMAIN g /\ \A x \in DOMAIN f : g[x] = f[x]

Keeps(m, to) ==
  /\ Goes(m, to) /\ m.next \in Nat /\ to.next \in Nat /\ m.next <= to.next
  /\ to.map = m.map /\ to.slots = m.slots /\ to.loaded = m.loaded /\ to.frame = m.frame
  /\ Extends(m.regs, to.regs)

LEMMA KeepsAgain ==
  ASSUME NEW a, NEW b, NEW c, Keeps(a, b), Keeps(b, c)
  PROVE  Keeps(a, c)
<1>1. Goes(a, c)
  BY GoesAgain DEF Keeps
<1>2. Extends(a.regs, c.regs)
  BY DEF Keeps, Extends
<1>3. a.next \in Nat /\ c.next \in Nat /\ a.next <= c.next
  BY DEF Keeps
<1> QED BY <1>1, <1>2, <1>3 DEF Keeps

LEMMA KeepsNothing ==
  ASSUME NEW m, Ready(m)
  PROVE  Keeps(m, m)
BY GoesNowhere DEF Keeps, Extends, Ready, Consistent

\* All numbers that were dealt out are below the next one.
LEMMA NumbersBelowNew ==
  ASSUME NEW m, Ready(m), IsSignature
  PROVE  /\ New(m) \in Nat /\ m.next <= New(m)
         /\ \A n \in Numbers(m) : n < New(m)
         /\ New(m) \notin Numbers(m) /\ New(m) \notin DOMAIN m.regs /\ New(m) \notin m.slots
<1>1. /\ m.next \in Nat /\ m.parameters \in Seq(Nat)
      /\ DOMAIN m.regs \subseteq Numbers(m) /\ m.slots \subseteq 0..(m.next - 1)
  BY DEF Ready, Consistent
<1>2. /\ New(m) \in {m.next, m.next + 1} /\ New(m) \notin Numbers(m)
      /\ \A j \in DOMAIN m.parameters : m.parameters[j] < New(m)
  BY NewProperties
<1>3. New(m) \in Nat /\ m.next <= New(m)
  BY <1>1, <1>2
<1>4. ASSUME NEW i \in DOMAIN signature PROVE ParameterOf(i) < New(m)
  <2>1. i \in 1..Len(signature) /\ ParameterOf(i) \in Nat
    BY DEF IsSignature, ParameterOf
  <2>2. CASE ParameterOf(i) < m.next
    BY <1>1, <1>3, <2>1, <2>2
  <2>3. CASE ~(ParameterOf(i) < m.next)
    BY <1>2, <2>1, <2>3 DEF Ready, Covered
  <2> QED BY <2>2, <2>3
<1>5. \A n \in 0..(m.next - 1) : n < New(m)
  BY <1>1, <1>3
<1> QED BY <1>1, <1>2, <1>3, <1>4, <1>5 DEF Numbers

LEMMA NewGrows ==
  ASSUME NEW m, NEW to, Ready(m), Goes(m, to), m.next <= to.next, IsSignature
  PROVE  New(m) <= New(to)
<1>1. m.next \in Nat /\ to.next \in Nat /\ to.parameters = m.parameters /\ Ready(to)
  BY DEF Goes, Ready, Consistent
<1>2. New(m) \in {m.next, m.next + 1} /\ New(to) \in {to.next, to.next + 1}
  BY <1>1, NewProperties
<1>3. CASE m.next = to.next
  <2>1. New(m) = New(to)
    BY <1>1, <1>3 DEF New, GetNextAvailableVReg
  <2> QED BY <1>1, <1>2, <2>1
<1>4. CASE m.next # to.next
  BY <1>1, <1>2, <1>4
<1> QED BY <1>3, <1>4

LEMMA DefineKeeps ==
  ASSUME NEW m, NEW t, Ready(m), IsSignature
  PROVE  LET d == Define(m, t)
         IN Keeps(m, d) /\ New(m) \in DOMAIN d.regs /\ d.regs[New(m)] = t
<1> DEFINE n == New(m)
           d == Define(m, t)
<1>1. DOMAIN m = Fields /\ m.next \in Nat
  BY DEF Ready, Consistent
<1>2. n \in Nat /\ m.next <= n /\ n \notin DOMAIN m.regs
  BY NumbersBelowNew
<1>3. d = [m EXCEPT !.next = n + 1, !.regs = With(@, n, t)]
  BY DEF Define, New
<1>4. Goes(m, d)
  BY DefineGoes
<1> HIDE DEF n
<1>5. /\ d.next = n + 1 /\ d.regs = With(m.regs, n, t) /\ d.map = m.map
      /\ d.slots = m.slots /\ d.loaded = m.loaded /\ d.frame = m.frame
  BY <1>1, <1>3 DEF Fields
<1> HIDE DEF d
<1>6. Extends(m.regs, d.regs) /\ n \in DOMAIN d.regs /\ d.regs[n] = t
  BY <1>2, <1>5 DEF Extends, With
<1>7. m.next \in Nat /\ d.next \in Nat /\ m.next <= d.next
  BY <1>1, <1>2, <1>5
<1> QED BY <1>4, <1>5, <1>6, <1>7 DEF Keeps, n, d

LEMMA TemporariesKeep ==
  ASSUME NEW m, NEW k \in Nat, Ready(m), IsSignature
  PROVE  Keeps(m, Temporaries(m, k)) /\ (k > 0 => New(m) \in DOMAIN Temporaries(m, k).regs)
<1>1. PICK f : f = CHOOSE g : Temporary(m, k, g)
  OBVIOUS
<1>2. Temporary(m, k, f)
  BY <1>1, TemporariesExist
<1>3. Temporaries(m, k) = f[k]
  BY <1>1 DEF Temporaries, Temporary
<1> DEFINE Holds(i) == Keeps(m, f[i]) /\ (i > 0 => New(m) \in DOMAIN f[i].regs)
           Good == {i \in Nat : i <= k => Holds(i)}
<1>4. 0 \in Good
  BY <1>2, KeepsNothing DEF Temporary
<1>5. ASSUME NEW i \in Nat \ {0}, i - 1 \in Good PROVE i \in Good
  <2> SUFFICES ASSUME i <= k PROVE Holds(i)
    OBVIOUS
  <2>1. Holds(i - 1) /\ i \in 0..k
    BY <1>5
  <2>2. f[i] = Define(f[i - 1], Undefined)
    BY <1>2, <2>1 DEF Temporary
  <2>3. Ready(f[i - 1])
    BY <2>1 DEF Keeps, Goes
  <2>4. Keeps(f[i - 1], f[i]) /\ New(f[i - 1]) \in DOMAIN f[i].regs
    BY <2>2, <2>3, DefineKeeps
  <2>5. Keeps(m, f[i])
    BY <2>1, <2>4, KeepsAgain
  <2>6. New(m) \in DOMAIN f[i].regs
    <3>1. CASE i = 1
      <4>1. f[i - 1] = m
        BY <1>2, <2>1, <3>1 DEF Temporary
      <4> QED BY <2>4, <4>1
    <3>2. CASE i # 1
      <4>1. i - 1 > 0
        BY <3>2
      <4> QED BY <2>1, <2>4, <4>1 DEF Keeps, Extends
    <3> QED BY <3>1, <3>2
  <2> QED BY <2>5, <2>6
<1>6. k \in Good
  <2> HIDE DEF Good
  <2> QED BY <1>4, <1>5, Induction
<1> QED BY <1>3, <1>6

\* The value v, of which the IR knows w, is where the map says: a struct in the
\* registers that it was loaded to, the result of a call in its slot, anything else in
\* a register.  The address of a slot is never taken for a pointer.
Carried(m, v, w) ==
  IF w.kind = "struct"
  THEN /\ v \in DOMAIN m.loaded
       /\ \A p \in Parts : /\ m.loaded[v][p] \in DOMAIN m.regs
                           /\ m.regs[m.loaded[v][p]] = w.token[p]
  ELSE /\ v \in DOMAIN m.map
       /\ w.kind = "pointer" => v \notin m.slots /\ m.map[v] \notin m.slots
       /\ m.map[v] \in m.slots =>
            m.map[v] \notin DOMAIN locals /\ At(m.frame, <<m.map[v], 1>>) = w.token
       /\ m.map[v] \notin m.slots => m.map[v] \in DOMAIN m.regs /\ m.regs[m.map[v]] = w.token

AllCarried(m, vals) == \A v \in DOMAIN vals : Carried(m, v, vals[v])

\* The frame has in the slots of the variables what the variables have in the IR.
SameVariables(m, mem) ==
  \A n \in DOMAIN locals, p \in Parts : At(m.frame, <<n, p>>) = At(mem, <<n, p>>)

\* The numbers of the values run behind those of the registers.
Body(m, id, vals, mem) ==
  /\ id \in Nat /\ id <= EndID /\ id <= New(m)
  /\ DOMAIN locals \subseteq m.slots /\ DOMAIN locals \subseteq 0..(EndID - 1)
  /\ DOMAIN vals \cup DOMAIN m.map \cup DOMAIN m.loaded \subseteq (0..(id - 1)) \ DOMAIN locals
  /\ AllCarried(m, vals) /\ SameVariables(m, mem)

\* Before the body: parameters are in their registers.
InRegister(m, n, t) == n \in DOMAIN m.regs /\ m.regs[n] = t

HasParameter(m, i) ==
  IF signature[i] = "struct"
  THEN /\ i \in DOMAIN m.structs
       /\ \A p \in Parts : InRegister(m, m.structs[i][p], Parameter(i, p))
  ELSE InRegister(m, ParameterOf(i), Parameter(i, 1))

Before ==
  /\ ID = 2 * Len(signature) /\ values = Nothing
  /\ mf.map = Nothing /\ mf.loaded = Nothing /\ mf.frame = memory
  /\ DOMAIN locals \subseteq 0..(EndID - 1)
  /\ \A i \in DOMAIN signature : locals[LocalOf(i)] = signature[i]
  /\ \A i \in 1..(param - 1) : HasParameter(mf, i)
  /\ pc = "parameters" => \A n \in DOMAIN mf.regs : n < 2 * (param - 1)

VInv ==
  /\ IInv /\ OperandsHoldTheirValues
  /\ pc \in {"parameters", "allocations"} => Before
  /\ pc \in {"body", "done"} => Body(mf, ID, values, memory)


\* Registers, map, loaded structs and the slots of results are as they were.
Saves(m, to) ==
  /\ Extends(m.regs, to.regs) /\ Extends(m.map, to.map) /\ Extends(m.loaded, to.loaded)
  /\ m.slots \subseteq to.slots
  /\ \A n \in m.slots \ DOMAIN locals : At(to.frame, <<n, 1>>) = At(m.frame, <<n, 1>>)

\* A value stays where it is, if a new slot has neither its number nor that of its register.
LEMMA CarriedOn ==
  ASSUME NEW m, NEW to, NEW v, NEW w, Carried(m, v, w), Saves(m, to),
         \A n \in to.slots \ m.slots : n \notin DOMAIN m.regs /\ n # v
  PROVE  Carried(to, v, w)
<1>1. CASE w.kind = "struct"
  <2>1. v \in DOMAIN to.loaded /\ to.loaded[v] = m.loaded[v]
    BY <1>1 DEF Carried, Saves, Extends
  <2>2. \A p \in Parts : to.loaded[v][p] \in DOMAIN to.regs /\ to.regs[to.loaded[v][p]] = w.token[p]
    BY <1>1, <2>1 DEF Carried, Saves, Extends
  <2> QED BY <1>1, <2>1, <2>2 DEF Carried
<1>2. CASE w.kind # "struct"
  <2>1. v \in DOMAIN to.map /\ to.map[v] = m.map[v]
    BY <1>2 DEF Carried, Saves, Extends
  <2>2. CASE m.map[v] \in m.slots
    <3>1. /\ w.kind # "pointer" /\ m.map[v] \in to.slots /\ m.map[v] \notin DOMAIN locals
          /\ At(m.frame, <<m.map[v], 1>>) = w.token
      BY <1>2, <2>2 DEF Carried, Saves
    <3>2. At(to.frame, <<m.map[v], 1>>) = w.token
      BY <2>2, <3>1 DEF Saves
    <3> QED BY <1>2, <2>1, <3>1, <3>2 DEF Carried
  <2>3. CASE m.map[v] \notin m.slots
    <3>1. m.map[v] \in DOMAIN m.regs /\ m.regs[m.map[v]] = w.token
      BY <1>2, <2>3 DEF Carried
    <3>2. m.map[v] \in DOMAIN to.regs /\ to.regs[m.map[v]] = w.token
      BY <3>1 DEF Saves, Extends
    <3>3. m.map[v] \notin to.slots
      BY <2>3, <3>1
    <3>4. w.kind = "pointer" => v \notin to.slots
      BY <1>2 DEF Carried
    <3> QED BY <1>2, <2>1, <3>2, <3>3, <3>4 DEF Carried
  <2> QED BY <2>2, <2>3
<1> QED BY <1>1, <1>2

LEMMA AllCarriedOn ==
  ASSUME NEW m, NEW to, NEW vals, AllCarried(m, vals), Saves(m, to),
         \A n \in to.slots \ m.slots : n \notin DOMAIN m.regs /\ n \notin DOMAIN vals
  PROVE  AllCarried(to, vals)
<1> SUFFICES ASSUME NEW v \in DOMAIN vals PROVE Carried(to, v, vals[v])
  BY DEF AllCarried
<1>1. Carried(m, v, vals[v]) /\ \A n \in to.slots \ m.slots : n \notin DOMAIN m.regs /\ n # v
  BY DEF AllCarried
<1> QED BY <1>1, CarriedOn

LEMMA KeepsCarries ==
  ASSUME NEW m, NEW to, NEW vals, AllCarried(m, vals), Keeps(m, to)
  PROVE  AllCarried(to, vals)
<1>1. Saves(m, to) /\ to.slots = m.slots
  BY DEF Keeps, Saves, Extends
<1> QED BY <1>1, AllCarriedOn

-----------------------------------------------------------------------------
(* Sources: the register of an operand has in it what the IR's operand has.  *)

Usable(v) == v = Literal \/ (v \in DOMAIN values /\ values[v].kind # "struct")

Holds(m, v, o) == v = Literal \/ (o.reg \in DOMAIN m.regs /\ m.regs[o.reg] = TokenOf(v))

Right(pairs) == \A r \in pairs : r[1] = r[2]

LEMMA HoldsOn ==
  ASSUME NEW m, NEW to, NEW v, NEW o, Holds(m, v, o), Keeps(m, to)
  PROVE  Holds(to, v, o)
BY DEF Holds, Keeps, Extends

LEMMA HeldIsRead ==
  ASSUME NEW m, NEW v, NEW o, Holds(m, v, o)
  PROVE  Right({Read(m, v, o)})
<1>1. CASE v = Literal
  BY <1>1 DEF Right, Read, TokenOf
<1>2. CASE v # Literal
  BY <1>2 DEF Right, Read, Holds, At
<1> QED BY <1>1, <1>2

\* A value in a register is read there; one in a slot is loaded into a new register.
LEMMA SourceHolds ==
  ASSUME NEW m, NEW v, Ready(m), IsSignature, AllCarried(m, values), Usable(v)
  PROVE  LET s == Source(m, v) IN Keeps(m, s.m) /\ Holds(s.m, v, s)
<1> DEFINE s == Source(m, v)
<1>1. CASE v = Literal
  <2>1. s.m = m
    BY <1>1 DEF Source
  <2> QED BY <1>1, <2>1, KeepsNothing DEF Holds
<1>2. CASE v # Literal
  <2>1. v \in DOMAIN values /\ values[v].kind # "struct" /\ Carried(m, v, values[v])
    BY <1>2 DEF Usable, AllCarried
  <2>2. v \in DOMAIN m.map
    BY <2>1 DEF Carried
  <2>3. TokenOf(v) = values[v].token
    BY <1>2, <2>1 DEF TokenOf
  <2>4. CASE m.map[v] \in m.slots
    <3> DEFINE t == At(m.frame, <<m.map[v], 1>>)
    <3>1. s.m = Define(m, t) /\ s.reg = New(m)
      BY <1>2, <2>2, <2>4 DEF Source, GetMachineOperandFromValue, IsStackSlot, Load
    <3>2. t = TokenOf(v)
      BY <2>1, <2>3, <2>4 DEF Carried
    <3> HIDE DEF t, s
    <3>3. Keeps(m, Define(m, t)) /\ New(m) \in DOMAIN Define(m, t).regs /\ Define(m, t).regs[New(m)] = t
      BY DefineKeeps
    <3>4. Keeps(m, s.m) /\ Holds(s.m, v, s)
      BY <3>1, <3>2, <3>3 DEF Holds
    <3> QED BY <3>4 DEF s
  <2>5. CASE m.map[v] \notin m.slots
    <3>1. s.m = m /\ s.reg = m.map[v]
      BY <1>2, <2>2, <2>5 DEF Source, GetMachineOperandFromValue, IsStackSlot
    <3>2. m.map[v] \in DOMAIN m.regs /\ m.regs[m.map[v]] = TokenOf(v)
      BY <2>1, <2>3, <2>5 DEF Carried
    <3>3. Keeps(m, m)
      BY KeepsNothing
    <3> HIDE DEF s
    <3>4. Keeps(m, s.m) /\ Holds(s.m, v, s)
      BY <3>1, <3>2, <3>3 DEF Holds
    <3> QED BY <3>4 DEF s
  <2> QED BY <2>4, <2>5
<1> QED BY <1>1, <1>2

\* The address of a variable is that of its slot; a pointer is in a register.
Addressable(m, v) ==
  /\ v # Literal
  /\ \/ v \in DOMAIN values /\ values[v].kind = "pointer"
     \/ v \in m.slots /\ v \notin DOMAIN m.map /\ v \notin DOMAIN values

LEMMA AddressIsRead ==
  ASSUME NEW m, NEW v, AllCarried(m, values), Addressable(m, v)
  PROVE  Right({AddressRead(m, v)})
<1>1. CASE v \in DOMAIN values
  <2>1. /\ values[v].kind = "pointer" /\ Carried(m, v, values[v]) /\ v # Literal
        /\ TokenOf(v) = values[v].token
    BY <1>1 DEF Addressable, AllCarried, TokenOf
  <2>2. /\ v \in DOMAIN m.map /\ m.map[v] \notin m.slots /\ m.map[v] \in DOMAIN m.regs
        /\ m.regs[m.map[v]] = TokenOf(v)
    BY <2>1 DEF Carried
  <2>3. AddressRead(m, v) = <<TokenOf(v), TokenOf(v)>>
    BY <2>2 DEF AddressRead, GetIDFromValue, IsStackSlot, At
  <2> QED BY <2>3 DEF Right
<1>2. CASE v \notin DOMAIN values
  <2>1. /\ v \in m.slots /\ v \notin DOMAIN m.map /\ v # Literal
        /\ TokenOf(v) = AddressOf(v)
    BY <1>2 DEF Addressable, TokenOf
  <2>2. AddressRead(m, v) = <<TokenOf(v), TokenOf(v)>>
    BY <2>1 DEF AddressRead, GetIDFromValue, IsStackSlot
  <2> QED BY <2>2 DEF Right
<1> QED BY <1>1, <1>2


\* Arguments: values, constants and addresses of variables.
Passable(m, v) ==
  v = Literal \/ v \in DOMAIN values \/ v \in m.slots

LEMMA PassedHolds ==
  ASSUME NEW m, NEW v, Ready(m), IsSignature, AllCarried(m, values), Passable(m, v)
  PROVE  Keeps(m, Passed(m, v).m) /\ Right(Passed(m, v).reads)
<1>1. CASE KindOf(v) = "struct"
  <2>1. v # Literal /\ v \in DOMAIN values /\ values[v].kind = "struct"
    BY <1>1 DEF KindOf
  <2>2. \A p \in Parts : /\ m.loaded[v][p] \in DOMAIN m.regs
                         /\ m.regs[m.loaded[v][p]] = values[v].token[p]
    BY <2>1 DEF AllCarried, Carried
  <2>3. /\ Passed(m, v).m = m
        /\ Passed(m, v).reads
             = {<<values[v].token[p], At(m.regs, m.loaded[v][p])>> : p \in Parts}
    BY <1>1 DEF Passed
  <2>4. Right(Passed(m, v).reads)
    BY <2>2, <2>3 DEF Right, At
  <2> QED BY <2>3, <2>4, KeepsNothing
<1>2. CASE KindOf(v) = "pointer" /\ v \in m.slots
  <2>1. Passed(m, v).m = m /\ Passed(m, v).reads = {<<TokenOf(v), AddressOf(v)>>}
    BY <1>2 DEF Passed, IsStackSlot
  <2>2. v # Literal
    BY <1>2 DEF KindOf
  <2>3. v \notin DOMAIN values
    <3>1. SUFFICES ASSUME v \in DOMAIN values PROVE FALSE
      OBVIOUS
    <3>2. values[v].kind = "pointer" /\ Carried(m, v, values[v])
      BY <1>2, <2>2, <3>1 DEF KindOf, AllCarried
    <3> QED BY <1>2, <3>2 DEF Carried
  <2>4. TokenOf(v) = AddressOf(v)
    BY <2>2, <2>3 DEF TokenOf
  <2> QED BY <2>1, <2>4, KeepsNothing DEF Right
<1>3. CASE KindOf(v) # "struct" /\ ~(KindOf(v) = "pointer" /\ v \in m.slots)
  <2> DEFINE s == Source(m, v)
  <2>1. Passed(m, v).m = s.m /\ Passed(m, v).reads = {Read(s.m, v, s)}
    BY <1>3 DEF Passed, IsStackSlot
  <2>2. Usable(v)
    BY <1>3 DEF Usable, KindOf, Passable
  <2>3. Keeps(m, s.m) /\ Holds(s.m, v, s)
    BY <2>2, SourceHolds
  <2> HIDE DEF s
  <2>4. Right({Read(s.m, v, s)})
    BY <2>3, HeldIsRead
  <2> QED BY <2>1, <2>3, <2>4
<1> QED BY <1>1, <1>2, <1>3

LEMMA PassedAllHold ==
  ASSUME NEW m, NEW args, Len(args) \in Nat, Ready(m), IsSignature, AllCarried(m, values),
         \A i \in 1..Len(args) : Passable(m, args[i])
  PROVE  Keeps(m, PassedAll(m, args).m) /\ Right(PassedAll(m, args).reads)
<1>1. PICK f : f = CHOOSE g : PassedUpto(m, args, g)
  OBVIOUS
<1>2. PassedUpto(m, args, f)
  BY <1>1, PassedExists
<1>3. PassedAll(m, args) = f[Len(args)]
  BY <1>1 DEF PassedAll, PassedUpto
<1> DEFINE Good == {i \in Nat : i <= Len(args) => Keeps(m, f[i].m) /\ Right(f[i].reads)}
<1>4. 0 \in Good
  <2>1. f[0] = [m |-> m, reads |-> {}]
    BY <1>2 DEF PassedUpto
  <2> QED BY <2>1, KeepsNothing DEF Right
<1>5. ASSUME NEW i \in Nat \ {0}, i - 1 \in Good PROVE i \in Good
  <2> SUFFICES ASSUME i <= Len(args) PROVE Keeps(m, f[i].m) /\ Right(f[i].reads)
    OBVIOUS
  <2>1. Keeps(m, f[i - 1].m) /\ Right(f[i - 1].reads) /\ i \in 0..Len(args) /\ i \in 1..Len(args)
    BY <1>5
  <2> DEFINE n == f[i - 1].m
             p == Passed(n, args[i])
  <2>2. f[i] = [m |-> p.m, reads |-> f[i - 1].reads \cup p.reads]
    <3>1. i # 0 /\ i \in 0..Len(args)
      BY <2>1
    <3> QED BY <1>2, <3>1, Zenon DEF PassedUpto
  <2> HIDE DEF n, p
  <2>3. f[i].m = p.m /\ f[i].reads = f[i - 1].reads \cup p.reads
    BY <2>2
  <2>4. Keeps(m, n)
    BY <2>1 DEF n
  <2>5. Ready(n) /\ n.slots = m.slots
    BY <2>4 DEF Keeps, Goes
  <2>6. AllCarried(n, values) /\ Passable(n, args[i])
    BY <2>1, <2>4, <2>5, KeepsCarries DEF Passable
  <2>7. Keeps(n, p.m) /\ Right(p.reads)
    BY <2>5, <2>6, PassedHolds DEF p
  <2>8. Keeps(m, p.m)
    BY <2>4, <2>7, KeepsAgain
  <2>9. Right(f[i].reads)
    BY <2>1, <2>3, <2>7 DEF Right
  <2> QED BY <2>3, <2>8, <2>9
<1>6. Len(args) \in Good
  <2> HIDE DEF Good
  <2> QED BY <1>4, <1>5, Induction
<1> QED BY <1>3, <1>6

-----------------------------------------------------------------------------
(* Results: the number of the next value, and the register it is given.      *)

LEMMA EndIDIsNat ==
  ASSUME IsSignature
  PROVE  EndID \in Nat
BY LoweringAssumption DEF IsSignature, EndID

\* The numbers that the next value skips are those of variables.
LEMMA NextIDProperties ==
  ASSUME Body(mf, ID, values, memory), Ready(mf), IsSignature
  PROVE  /\ NextID \in Nat /\ ID <= NextID /\ NextID <= EndID /\ NextID <= New(mf)
         /\ NextID \notin DOMAIN locals
         /\ NextID \notin DOMAIN values /\ NextID \notin DOMAIN mf.map /\ NextID \notin DOMAIN mf.loaded
<1>1. ID \in Nat /\ EndID \in Nat /\ ID <= EndID /\ EndID \notin DOMAIN locals
  BY EndIDIsNat DEF Body
<1> DEFINE T == {n \in Nat : ID <= n /\ n \notin DOMAIN locals}
<1>2. PICK least \in T : \A k \in T : least <= k
  <2>1. EndID \in T /\ T \subseteq Nat
    BY <1>1
  <2> HIDE DEF T
  <2> QED BY <2>1, LeastNumber
<1>3. /\ least \in ID..EndID /\ least \notin DOMAIN locals
      /\ \A k \in ID..(least - 1) : k \in DOMAIN locals
  <2>1. least <= EndID /\ least \in Nat /\ ID <= least
    BY <1>1, <1>2
  <2>2. ASSUME NEW k \in ID..(least - 1) PROVE k \in DOMAIN locals
    <3>1. k \in Nat /\ ~(least <= k)
      BY <1>1, <2>1
    <3> QED BY <1>2, <3>1
  <2> QED BY <1>1, <1>2, <2>1, <2>2
<1> HIDE DEF T
<1>4. /\ NextID \in ID..EndID /\ NextID \notin DOMAIN locals
      /\ \A k \in ID..(NextID - 1) : k \in DOMAIN locals
  BY <1>3 DEF NextID
<1> HIDE DEF NextID
<1>5. NextID \in Nat /\ ID <= NextID /\ NextID <= EndID
  BY <1>1, <1>4
<1>6. NextID <= New(mf)
  <2>1. New(mf) \in Nat /\ ID <= New(mf) /\ \A n \in mf.slots : n < New(mf)
    BY NumbersBelowNew DEF Body, Numbers, Ready, Consistent
  <2>2. CASE ID = NextID
    BY <2>1, <2>2
  <2>3. CASE ID # NextID
    <3>1. NextID - 1 \in ID..(NextID - 1)
      BY <1>1, <1>5, <2>3
    <3>2. NextID - 1 \in mf.slots
      BY <1>4, <3>1 DEF Body
    <3>3. NextID - 1 < New(mf)
      BY <2>1, <3>2
    <3> QED BY <1>5, <2>1, <3>3
  <2> QED BY <2>2, <2>3
<1>7. NextID \notin 0..(ID - 1)
  BY <1>1, <1>5
<1> QED BY <1>4, <1>5, <1>6, <1>7 DEF Body

\* A register was taken for the value v.
Asked(m, v, d) ==
  /\ Goes(m, d.m) /\ New(m) <= d.reg /\ d.reg < d.m.next
  /\ d.reg \in Nat /\ d.reg \notin DOMAIN m.regs /\ d.reg \notin m.slots
  /\ d.reg \in DOMAIN d.m.regs /\ Extends(m.regs, d.m.regs)
  /\ d.m.map = With(m.map, v, d.reg) /\ d.m.slots = m.slots
  /\ d.m.frame = m.frame /\ d.m.loaded = m.loaded

LEMMA ResultAsked ==
  ASSUME NEW m, NEW v, NEW isDef, Ready(m), IsSignature, v \notin DOMAIN m.map,
         isDef \/ v \notin m.slots
  PROVE  Asked(m, v, GetMachineOperandFromValue(m, v, isDef))
<1> DEFINE d == GetMachineOperandFromValue(m, v, isDef)
           n == New(m)
           e == Define(m, Undefined)
<1>1. d = MapNew(m, v)
  BY DEF GetMachineOperandFromValue, IsStackSlot
<1>2. d.m = [e EXCEPT !.map = With(@, v, n)] /\ d.reg = n
  BY <1>1 DEF MapNew
<1>3. Keeps(m, e) /\ n \in DOMAIN e.regs
  BY DefineKeeps
<1>4. Goes(m, d.m)
  BY <1>1, MapNewGoes
<1>5. n \in Nat /\ n \notin DOMAIN m.regs /\ n \notin m.slots
  BY NumbersBelowNew
<1>6. e.next = n + 1
  <2>1. DOMAIN m = Fields
    BY DEF Ready, Consistent
  <2> QED BY <2>1 DEF Define, New, Fields
<1> HIDE DEF d, e, n
<1>7. DOMAIN e = Fields
  BY <1>3 DEF Keeps, Goes, Ready, Consistent
<1>8. /\ d.m.map = With(e.map, v, n) /\ d.m.slots = e.slots /\ d.m.frame = e.frame
      /\ d.m.loaded = e.loaded /\ d.m.regs = e.regs /\ d.m.next = e.next
  BY <1>2, <1>7 DEF Fields
<1>9. Asked(m, v, d)
  BY <1>2, <1>3, <1>4, <1>5, <1>6, <1>8 DEF Asked, Keeps, n
<1> QED BY <1>9 DEF d

\* Something was emitted before.
LEMMA AskedLater ==
  ASSUME NEW m, NEW g, NEW v, NEW d, Keeps(m, g), Asked(g, v, d), Ready(m), IsSignature
  PROVE  Asked(m, v, d)
<1>1. Goes(m, d.m)
  BY GoesAgain DEF Keeps, Asked
<1>2. New(m) <= d.reg
  <2>1. Goes(m, g) /\ m.next <= g.next /\ Ready(g)
    BY DEF Keeps, Goes
  <2>2. New(m) <= New(g) /\ New(m) \in Nat /\ New(g) \in Nat
    BY <2>1, NewGrows, NumbersBelowNew
  <2> QED BY <2>2 DEF Asked
<1>3. Extends(m.regs, d.m.regs) /\ d.reg \notin DOMAIN m.regs
  BY DEF Keeps, Asked, Extends
<1> QED BY <1>1, <1>2, <1>3 DEF Keeps, Asked

LEMMA AskedCarries ==
  ASSUME NEW m, NEW v, NEW d, NEW vals, Asked(m, v, d), v \notin DOMAIN m.map,
         AllCarried(m, vals)
  PROVE  AllCarried(d.m, vals)
<1>1. Saves(m, d.m) /\ d.m.slots = m.slots
  BY DEF Asked, Saves, Extends, With
<1> QED BY <1>1, AllCarriedOn


-----------------------------------------------------------------------------
(* The parts of Body after an instruction. *)

LEMMA KeepsBody ==
  ASSUME NEW m, NEW to, NEW id, NEW vals, NEW mem,
         Body(m, id, vals, mem), Ready(m), IsSignature, Keeps(m, to)
  PROVE  Body(to, id, vals, mem)
<1>1. AllCarried(to, vals)
  BY KeepsCarries DEF Body
<1>2. id <= New(to)
  <2>1. Goes(m, to) /\ m.next <= to.next /\ Ready(to)
    BY DEF Keeps, Goes
  <2>2. New(m) <= New(to) /\ New(m) \in Nat /\ New(to) \in Nat
    BY <2>1, NewGrows, NumbersBelowNew
  <2> QED BY <2>2 DEF Body
<1>3. to.slots = m.slots /\ to.map = m.map /\ to.loaded = m.loaded /\ to.frame = m.frame
  BY DEF Keeps
<1> QED BY <1>1, <1>2, <1>3 DEF Body, SameVariables

LEMMA FewerBody ==
  ASSUME NEW m, NEW id, NEW vals, NEW less, NEW mem, Body(m, id, vals, mem), Extends(less, vals)
  PROVE  Body(m, id, less, mem)
<1>1. AllCarried(m, less)
  BY DEF Body, AllCarried, Extends
<1> QED BY <1>1 DEF Body, Extends

LEMMA WithoutExtends ==
  ASSUME NEW dead
  PROVE  Extends(Without(dead), values)
BY DEF Without, Extends

LEMMA GivenValues ==
  ASSUME NEW kind, NEW token, NEW dead, Gives(kind, token, dead), NEW m,
         AllCarried(m, values), Carried(m, NextID, [kind |-> kind, token |-> token])
  PROVE  /\ AllCarried(m, values') /\ DOMAIN values' \subseteq DOMAIN values \cup {NextID}
         /\ ID' = NextID + 1 /\ NextID < EndID
<1>1. /\ values' = With(Without(dead), NextID, [kind |-> kind, token |-> token])
      /\ ID' = NextID + 1 /\ NextID < EndID
  BY DEF Gives
<1> DEFINE n == NextID
           w == [kind |-> kind, token |-> token]
           less == Without(dead)
<1>2. values' = With(less, n, w) /\ Carried(m, n, w) /\ Extends(less, values)
  BY <1>1, WithoutExtends
<1>3. DOMAIN values' \subseteq DOMAIN values \cup {n}
  <2> HIDE DEF n, w, less
  <2> QED BY <1>2 DEF With, Extends
<1>4. ASSUME NEW v \in DOMAIN values' PROVE Carried(m, v, values'[v])
  <2> HIDE DEF n, w, less
  <2>1. CASE v = n
    BY <1>2, <2>1 DEF With
  <2>2. CASE v # n
    BY <1>2, <2>2 DEF With, Extends, AllCarried
  <2> QED BY <2>1, <2>2
<1> QED BY <1>1, <1>3, <1>4 DEF AllCarried

\* Where the next value is given, numbers move on, and what has been there stays.
LEMMA NumbersMoveOn ==
  ASSUME NEW m, NEW vals, Body(mf, ID, values, memory), Ready(mf), IsSignature,
         ID' = NextID + 1, NextID < EndID, NextID < New(m), New(m) \in Nat,
         DOMAIN vals \subseteq DOMAIN values \cup {NextID},
         DOMAIN m.map \subseteq DOMAIN mf.map \cup {NextID},
         DOMAIN m.loaded \subseteq DOMAIN mf.loaded \cup {NextID}
  PROVE  /\ ID' \in Nat /\ ID' <= EndID /\ ID' <= New(m)
         /\ DOMAIN vals \cup DOMAIN m.map \cup DOMAIN m.loaded
              \subseteq (0..(ID' - 1)) \ DOMAIN locals
<1>1. ID \in Nat /\ EndID \in Nat /\ NextID \in Nat /\ ID <= NextID /\ NextID \notin DOMAIN locals
  BY EndIDIsNat, NextIDProperties DEF Body
<1>2. 0..(ID - 1) \subseteq 0..(ID' - 1) /\ NextID \in 0..(ID' - 1)
  BY <1>1
<1> QED BY <1>1, <1>2 DEF Body

\* The result is written to the register that was taken for it.
LEMMA ResultBody ==
  ASSUME NEW kind, NEW token, NEW dead, NEW d, NEW b,
         Body(mf, ID, values, memory), Ready(mf), IsSignature,
         Asked(mf, NextID, d), Keeps(d.m, b), Gives(kind, token, dead),
         kind # "struct", kind = "pointer" => NextID \notin mf.slots
  PROVE  Body(SetReg(b, d.reg, token), ID', values', memory)
<1> DEFINE to == SetReg(b, d.reg, token)
           n == NextID
           w == [kind |-> kind, token |-> token]
<1>1. DOMAIN b = Fields
  BY DEF Keeps, Goes, Ready, Consistent
<1>2. /\ to.regs = With(b.regs, d.reg, token) /\ to.next = b.next /\ to.map = b.map
      /\ to.slots = b.slots /\ to.loaded = b.loaded /\ to.frame = b.frame
  BY <1>1 DEF SetReg, Fields
<1>3. /\ n \in Nat /\ n <= New(mf) /\ n \notin DOMAIN values /\ n \notin DOMAIN mf.map
      /\ n \notin DOMAIN locals
  BY NextIDProperties
<1>4. Goes(mf, to)
  BY SetLaterGoes DEF Asked, Keeps, Goes, Ready, Consistent
<1>5. n < New(to) /\ New(to) \in Nat
  <2>1. New(to) \in Nat /\ to.next <= New(to) /\ New(mf) \in Nat /\ Ready(to)
    BY <1>4, NumbersBelowNew DEF Goes
  <2>2. d.m.next \in Nat /\ d.m.next <= b.next /\ b.next \in Nat
    BY DEF Keeps
  <2>3. New(mf) <= d.reg /\ d.reg < d.m.next /\ d.reg \in Nat
    BY DEF Asked
  <2> HIDE DEF to, n
  <2> QED BY <1>2, <1>3, <2>1, <2>2, <2>3
<1> HIDE DEF to, n
<1>6. /\ to.map = With(mf.map, n, d.reg) /\ to.slots = mf.slots /\ to.loaded = mf.loaded
      /\ to.frame = mf.frame
  BY <1>2 DEF Asked, Keeps, n
<1>7. Extends(mf.regs, to.regs) /\ d.reg \in DOMAIN to.regs /\ to.regs[d.reg] = token
  BY <1>2 DEF Asked, Keeps, Extends, With
<1>8. AllCarried(to, values)
  <2>1. Saves(mf, to) /\ AllCarried(mf, values)
    BY <1>3, <1>6, <1>7 DEF Saves, Extends, With, Body
  <2> QED BY <1>6, <2>1, AllCarriedOn
<1>9. Carried(to, n, w)
  <2>1. n \in DOMAIN to.map /\ to.map[n] = d.reg /\ d.reg \notin to.slots
    BY <1>6 DEF With, Asked
  <2>2. kind = "pointer" => n \notin to.slots
    BY <1>6 DEF n
  <2>3. w.kind = kind /\ w.token = token
    OBVIOUS
  <2> HIDE DEF w
  <2> QED BY <1>7, <2>1, <2>2, <2>3 DEF Carried
<1>10. /\ AllCarried(to, values') /\ DOMAIN values' \subseteq DOMAIN values \cup {n}
       /\ ID' = n + 1 /\ n < EndID
  BY <1>8, <1>9, GivenValues DEF n, w
<1>11. DOMAIN to.map \subseteq DOMAIN mf.map \cup {n} /\ DOMAIN to.loaded \subseteq DOMAIN mf.loaded \cup {n}
  BY <1>6 DEF With
<1>12. /\ ID' \in Nat /\ ID' <= EndID /\ ID' <= New(to)
       /\ DOMAIN values' \cup DOMAIN to.map \cup DOMAIN to.loaded
            \subseteq (0..(ID' - 1)) \ DOMAIN locals
  BY <1>5, <1>10, <1>11, NumbersMoveOn DEF n
<1>13. SameVariables(to, memory) /\ DOMAIN locals \subseteq to.slots /\ DOMAIN locals \subseteq 0..(EndID - 1)
  BY <1>6 DEF Body, SameVariables
<1>14. Body(to, ID', values', memory)
  BY <1>10, <1>12, <1>13 DEF Body
<1> QED BY <1>14 DEF to


-----------------------------------------------------------------------------
(* The instructions, in programs where none of the Meetings happens.          *)

InBody == Body(mf, ID, values, memory) /\ Ready(mf) /\ IsSignature /\ Admitted = {}

AfterInstruction == Body(mf', ID', values', memory') /\ Right(reads')

LEMMA BothRight ==
  ASSUME NEW x, NEW y, Right({x}), Right({y})
  PROVE  Right({x, y})
BY DEF Right

LEMMA OperandUsable ==
  ASSUME Admitted = {}, NEW candidates, NEW kinds, NEW v \in Operands(candidates, kinds),
         candidates \subseteq DOMAIN values, "struct" \notin kinds
  PROVE  Usable(v)
<1>1. (v \in candidates \/ v = Literal) /\ KindOf(v) \in kinds
  BY DEF Operands
<1> QED BY <1>1 DEF Usable, KindOf

LEMMA CandidatesAreValues ==
  /\ Latest \subseteq DOMAIN values
  /\ \A v : LastBut(v) \subseteq DOMAIN values
BY DEF Latest, LastBut

LEMMA LocalAddressable ==
  ASSUME InBody, NEW v \in DOMAIN locals
  PROVE  Addressable(mf, v) /\ v \in mf.slots /\ v \notin DOMAIN mf.map /\ v \notin DOMAIN values
<1>1. v \in 0..(EndID - 1) /\ EndID \in Nat
  BY EndIDIsNat DEF InBody, Body
<1>2. v # Literal
  BY <1>1 DEF Literal
<1>3. v \in mf.slots /\ v \notin DOMAIN mf.map /\ v \notin DOMAIN values
  BY DEF InBody, Body
<1> QED BY <1>2, <1>3 DEF Addressable

LEMMA PointerAddressable ==
  ASSUME InBody, NEW v \in DOMAIN values, values[v].kind = "pointer"
  PROVE  /\ Addressable(mf, v) /\ Usable(v)
         /\ v \in DOMAIN mf.map /\ mf.map[v] \notin mf.slots
<1>1. v \in 0..(ID - 1) /\ EndID \in Nat /\ ID \in Nat /\ ID <= EndID /\ Carried(mf, v, values[v])
  BY EndIDIsNat DEF InBody, Body, AllCarried
<1>2. v # Literal
  BY <1>1 DEF Literal
<1>3. v \in DOMAIN mf.map /\ mf.map[v] \notin mf.slots
  BY <1>1 DEF Carried
<1> QED BY <1>2, <1>3 DEF Addressable, Usable

\* The address is read after something was emitted.
LEMMA AddressableOn ==
  ASSUME NEW m, NEW to, NEW v, Addressable(m, v),
         to.slots = m.slots, DOMAIN to.map \subseteq DOMAIN m.map \cup {NextID}, v # NextID
  PROVE  Addressable(to, v)
BY DEF Addressable

LEMMA ResultStarted ==
  ASSUME InBody, NEW isDef, isDef \/ LooksUp
  PROVE  LET d == GetMachineOperandFromValue(mf, NextID, isDef) IN
         /\ Asked(mf, NextID, d) /\ Ready(d.m) /\ AllCarried(d.m, values)
<1> DEFINE d == GetMachineOperandFromValue(mf, NextID, isDef)
<1>1. NextID \notin DOMAIN mf.map
  BY NextIDProperties DEF InBody
<1>2. isDef \/ NextID \notin mf.slots
  BY DEF LooksUp, IsStackSlot, InBody
<1>3. Asked(mf, NextID, d)
  BY <1>1, <1>2, ResultAsked DEF InBody
<1> HIDE DEF d
<1>4. Ready(d.m)
  BY <1>3 DEF Asked, Goes
<1>5. AllCarried(d.m, values)
  BY <1>1, <1>3, AskedCarries DEF InBody, Body
<1> QED BY <1>3, <1>4, <1>5 DEF d

LEMMA NotSlotWhenLookedUp ==
  ASSUME InBody, LooksUp
  PROVE  NextID \notin mf.slots
BY DEF InBody, LooksUp, IsStackSlot

LEMMA BinaryBody ==
  ASSUME InBody, NEW l, NEW r, NEW dead, Usable(l), Usable(r), LowerBinary(l, r, dead)
  PROVE  AfterInstruction
<1> DEFINE d == Result(mf, NextID)
           a == Source(d.m, l)
           b == Source(a.m, r)
<1>1. /\ LooksUp /\ Gives("scalar", ValueOf(NextID), dead) /\ memory' = memory
      /\ mf' = SetReg(b.m, d.reg, ValueOf(NextID))
      /\ reads' = {Read(b.m, l, a), Read(b.m, r, b)}
  BY DEF LowerBinary
<1>2. Asked(mf, NextID, d) /\ Ready(d.m) /\ AllCarried(d.m, values)
  BY <1>1, ResultStarted DEF Result
<1> HIDE DEF d
<1>3. Keeps(d.m, a.m) /\ Holds(a.m, l, a)
  BY <1>2, SourceHolds DEF InBody
<1> HIDE DEF a
<1>4. Ready(a.m) /\ AllCarried(a.m, values)
  BY <1>2, <1>3, KeepsCarries DEF Keeps, Goes
<1>5. Keeps(a.m, b.m) /\ Holds(b.m, r, b)
  BY <1>4, SourceHolds DEF InBody
<1> HIDE DEF b
<1>6. Right({Read(b.m, l, a)}) /\ Right({Read(b.m, r, b)})
  BY <1>3, <1>5, HoldsOn, HeldIsRead
<1>7. Right(reads')
  BY <1>1, <1>6, BothRight
<1>8. Keeps(d.m, b.m)
  BY <1>3, <1>5, KeepsAgain
<1>9. Body(SetReg(b.m, d.reg, ValueOf(NextID)), ID', values', memory)
  BY <1>1, <1>2, <1>8, ResultBody DEF InBody
<1> QED BY <1>1, <1>7, <1>9 DEF AfterInstruction

LEMMA UnaryBody ==
  ASSUME InBody, NEW x, Usable(x), LowerUnary(x)
  PROVE  AfterInstruction
<1> DEFINE d == Result(mf, NextID)
           a == Source(d.m, x)
<1>1. /\ LooksUp /\ Gives("scalar", ValueOf(NextID), {x}) /\ memory' = memory
      /\ mf' = SetReg(a.m, d.reg, ValueOf(NextID)) /\ reads' = {Read(a.m, x, a)}
  BY DEF LowerUnary
<1>2. Asked(mf, NextID, d) /\ Ready(d.m) /\ AllCarried(d.m, values)
  BY <1>1, ResultStarted DEF Result
<1> HIDE DEF d
<1>3. Keeps(d.m, a.m) /\ Holds(a.m, x, a)
  BY <1>2, SourceHolds DEF InBody
<1> HIDE DEF a
<1>4. Right(reads')
  BY <1>1, <1>3, HeldIsRead
<1>5. Body(SetReg(a.m, d.reg, ValueOf(NextID)), ID', values', memory)
  BY <1>1, <1>2, <1>3, ResultBody DEF InBody
<1> QED BY <1>1, <1>4, <1>5 DEF AfterInstruction

LEMMA LoadBody ==
  ASSUME InBody, NEW v \in Locations, NEW dead, LowerLoad(v, dead)
  PROVE  AfterInstruction
<1> DEFINE d == GetMachineOperandFromValue(mf, NextID, TRUE)
           a == GetIDFromValue(mf, v)
           ir == IF v \in DOMAIN values THEN ValueOf(NextID) ELSE At(memory, <<v, 1>>)
           machine == IF IsStackSlot(d.m, a) THEN At(d.m.frame, <<a, 1>>) ELSE ValueOf(NextID)
<1>1. /\ ContentKind(v) = "pointer" => LooksUp
      /\ Gives(ContentKind(v), ir, dead) /\ memory' = memory
      /\ mf' = SetReg(d.m, d.reg, machine) /\ reads' = {AddressRead(d.m, v)}
  BY DEF LowerLoad
<1>2. Asked(mf, NextID, d) /\ Ready(d.m) /\ AllCarried(d.m, values)
  BY ResultStarted
<1>3. \/ v \in DOMAIN locals /\ locals[v] # "struct"
      \/ v \in DOMAIN values /\ values[v].kind = "pointer"
  BY DEF Locations, Variables, Latest
<1>4. Addressable(mf, v) /\ NextID \notin DOMAIN locals /\ NextID \notin DOMAIN values
  BY <1>3, LocalAddressable, PointerAddressable, NextIDProperties DEF InBody
<1> HIDE DEF d
<1>5. d.m.slots = mf.slots /\ d.m.frame = mf.frame /\ DOMAIN d.m.map \subseteq DOMAIN mf.map \cup {NextID}
  BY <1>2 DEF Asked, With
<1>6. Addressable(d.m, v)
  BY <1>3, <1>4, <1>5, AddressableOn
<1>7. Right(reads')
  BY <1>1, <1>2, <1>6, AddressIsRead
<1>8. ir = machine /\ ContentKind(v) # "struct"
  <2>1. CASE v \in DOMAIN values
    <3>1. v \in DOMAIN mf.map /\ mf.map[v] \notin mf.slots /\ values[v].kind = "pointer"
      BY <1>3, <2>1, LocalAddressable, PointerAddressable
    <3> QED BY <1>5, <2>1, <3>1 DEF GetIDFromValue, IsStackSlot, ContentKind
  <2>2. CASE v \notin DOMAIN values
    <3>1. v \in DOMAIN locals /\ v \in mf.slots /\ v \notin DOMAIN mf.map /\ locals[v] # "struct"
      BY <1>3, <2>2, LocalAddressable
    <3>2. At(mf.frame, <<v, 1>>) = At(memory, <<v, 1>>)
      BY <3>1 DEF InBody, Body, SameVariables, Parts
    <3>3. a = v /\ machine = At(mf.frame, <<v, 1>>) /\ ir = At(memory, <<v, 1>>)
      BY <1>5, <2>2, <3>1 DEF GetIDFromValue, IsStackSlot
    <3> QED BY <2>2, <3>1, <3>2, <3>3 DEF ContentKind
  <2> QED BY <2>1, <2>2
<1> HIDE DEF ir, machine
<1>9. Keeps(d.m, d.m)
  BY <1>2, KeepsNothing
<1>10. ContentKind(v) = "pointer" => NextID \notin mf.slots
  BY <1>1, NotSlotWhenLookedUp
<1>11. Body(SetReg(d.m, d.reg, machine), ID', values', memory)
  BY <1>1, <1>2, <1>8, <1>9, <1>10, ResultBody DEF InBody
<1> QED BY <1>1, <1>7, <1>11 DEF AfterInstruction

LEMMA LoadGlobalBody ==
  ASSUME InBody, LowerLoadGlobal
  PROVE  AfterInstruction
<1> DEFINE g == Define(mf, Global)
           d == GetMachineOperandFromValue(g, NextID, TRUE)
<1>1. /\ Gives("scalar", ValueOf(NextID), {}) /\ memory' = memory
      /\ mf' = SetReg(d.m, d.reg, ValueOf(NextID))
      /\ reads' = {<<Global, At(d.m.regs, New(mf))>>}
  BY DEF LowerLoadGlobal
<1>2. Keeps(mf, g) /\ New(mf) \in DOMAIN g.regs /\ g.regs[New(mf)] = Global
  BY DefineKeeps DEF InBody
<1> HIDE DEF g
<1>3. NextID \notin DOMAIN g.map /\ Ready(g)
  BY <1>2, NextIDProperties DEF Keeps, Goes, InBody
<1>4. Asked(g, NextID, d)
  BY <1>3, ResultAsked DEF InBody
<1> HIDE DEF d
<1>5. Asked(mf, NextID, d) /\ Keeps(d.m, d.m)
  BY <1>2, <1>4, AskedLater, KeepsNothing DEF InBody, Asked, Goes
<1>6. Right(reads')
  <2>1. At(d.m.regs, New(mf)) = Global
    BY <1>2, <1>4 DEF Asked, Extends, At
  <2> QED BY <1>1, <2>1 DEF Right
<1>7. Body(SetReg(d.m, d.reg, ValueOf(NextID)), ID', values', memory)
  BY <1>1, <1>5, ResultBody DEF InBody
<1> QED BY <1>1, <1>6, <1>7 DEF AfterInstruction

\* Instructions without a result only keep what there was.
LEMMA NoResultBody ==
  ASSUME InBody, NEW to, Keeps(mf, to), NEW less, Extends(less, values)
  PROVE  Body(to, ID, less, memory)
<1>1. Body(to, ID, values, memory)
  BY KeepsBody DEF InBody
<1> QED BY <1>1, FewerBody

LEMMA StoreGlobalBody ==
  ASSUME InBody, NEW x, Usable(x), LowerStoreGlobal(x)
  PROVE  AfterInstruction
<1> DEFINE g == Define(mf, Global)
           s == Source(g, x)
<1>1. /\ mf' = s.m /\ values' = Without({x}) /\ ID' = ID /\ memory' = memory
      /\ reads' = {<<Global, At(s.m.regs, New(mf))>>, Read(s.m, x, s)}
  BY DEF LowerStoreGlobal
<1>2. Keeps(mf, g) /\ New(mf) \in DOMAIN g.regs /\ g.regs[New(mf)] = Global
  BY DefineKeeps DEF InBody
<1> HIDE DEF g
<1>3. Ready(g) /\ AllCarried(g, values)
  BY <1>2, KeepsCarries DEF Keeps, Goes, InBody, Body
<1>4. Keeps(g, s.m) /\ Holds(s.m, x, s)
  BY <1>3, SourceHolds DEF InBody
<1> HIDE DEF s
<1>5. Right({<<Global, At(s.m.regs, New(mf))>>}) /\ Right({Read(s.m, x, s)})
  <2>1. At(s.m.regs, New(mf)) = Global
    BY <1>2, <1>4 DEF Keeps, Extends, At
  <2> QED BY <1>4, <2>1, HeldIsRead DEF Right
<1>6. Keeps(mf, s.m)
  BY <1>2, <1>4, KeepsAgain
<1>7. Body(s.m, ID, Without({x}), memory)
  BY <1>6, WithoutExtends, NoResultBody
<1> QED BY <1>1, <1>5, <1>7, BothRight DEF AfterInstruction


\* A variable is written in the IR and in the frame, in the same cells.
LEMMA WrittenBody ==
  ASSUME NEW m, NEW id, NEW vals, NEW mem, NEW after, NEW frame, NEW n \in DOMAIN locals,
         Body(m, id, vals, mem), Ready(m), IsSignature,
         \A c : c[1] # n => At(frame, c) = At(m.frame, c) /\ At(after, c) = At(mem, c),
         \A p \in Parts : At(frame, <<n, p>>) = At(after, <<n, p>>)
  PROVE  Body([m EXCEPT !.frame = frame], id, vals, after)
<1> DEFINE to == [m EXCEPT !.frame = frame]
<1>1. DOMAIN m = Fields
  BY DEF Ready, Consistent
<1>2. /\ to.frame = frame /\ to.regs = m.regs /\ to.map = m.map /\ to.loaded = m.loaded
      /\ to.slots = m.slots /\ to.next = m.next /\ to.parameters = m.parameters
  BY <1>1 DEF Fields
<1> HIDE DEF to
<1>3. New(to) = New(m)
  BY <1>2 DEF New, GetNextAvailableVReg
<1>4. Saves(m, to)
  BY <1>2 DEF Saves, Extends
<1>5. AllCarried(to, vals)
  BY <1>2, <1>4, AllCarriedOn DEF Body
<1>6. SameVariables(to, after)
  <2> SUFFICES ASSUME NEW k \in DOMAIN locals, NEW p \in Parts
               PROVE  At(to.frame, <<k, p>>) = At(after, <<k, p>>)
    BY DEF SameVariables
  <2>1. CASE k = n
    BY <1>2, <2>1
  <2>2. CASE k # n
    <3> DEFINE c == <<k, p>>
    <3>1. c[1] # n
      BY <2>2
    <3>2. At(m.frame, c) = At(mem, c)
      BY DEF Body, SameVariables
    <3> HIDE DEF c
    <3>3. At(to.frame, c) = At(after, c)
      BY <1>2, <3>1, <3>2
    <3> QED BY <3>3 DEF c
  <2> QED BY <2>1, <2>2
<1>7. Body(to, id, vals, after)
  BY <1>2, <1>3, <1>5, <1>6 DEF Body
<1> QED BY <1>7 DEF to

LEMMA StoreBody ==
  ASSUME InBody, NEW v \in Locations, NEW x, NEW dead, Usable(x), LowerStore(v, x, dead)
  PROVE  AfterInstruction
<1> DEFINE a == GetIDFromValue(mf, v)
           s == Source(mf, x)
           stored == Read(s.m, x, s)
<1>1. /\ mf' = IF IsStackSlot(mf, a) THEN [s.m EXCEPT !.frame = With(@, <<a, 1>>, stored[2])]
               ELSE s.m
      /\ memory' = IF v \in DOMAIN values THEN memory ELSE With(memory, <<v, 1>>, stored[1])
      /\ reads' = {AddressRead(s.m, v), stored} /\ values' = Without(dead) /\ ID' = ID
  BY DEF LowerStore
<1>2. Keeps(mf, s.m) /\ Holds(s.m, x, s)
  BY SourceHolds DEF InBody, Body
<1>3. Right({stored}) /\ stored[1] = stored[2]
  BY <1>2, HeldIsRead DEF Right
<1> HIDE DEF stored, s
<1>4. \/ v \in DOMAIN locals /\ v \notin DOMAIN values
      \/ v \in DOMAIN values /\ values[v].kind = "pointer"
  BY LocalAddressable DEF Locations, Variables, Latest
<1>5. Ready(s.m) /\ AllCarried(s.m, values) /\ s.m.slots = mf.slots /\ s.m.map = mf.map
  BY <1>2, KeepsCarries DEF Keeps, Goes, InBody, Body
<1>6. Addressable(mf, v)
  BY <1>4, LocalAddressable, PointerAddressable
<1>7. Right({AddressRead(s.m, v)})
  BY <1>5, <1>6, AddressIsRead DEF Addressable
<1>8. Right(reads')
  BY <1>1, <1>3, <1>7, BothRight
<1>9. Body(s.m, ID, Without(dead), memory)
  BY <1>2, WithoutExtends, NoResultBody
<1>10. CASE v \in DOMAIN values
  <2>1. a \notin mf.slots
    BY <1>4, <1>10, PointerAddressable DEF GetIDFromValue
  <2>2. mf' = s.m /\ memory' = memory
    BY <1>1, <1>10, <2>1 DEF IsStackSlot
  <2> QED BY <1>1, <1>8, <1>9, <2>2 DEF AfterInstruction
<1>11. CASE v \notin DOMAIN values
  <2>1. v \in DOMAIN locals /\ a = v /\ v \in mf.slots
    BY <1>4, <1>11, LocalAddressable DEF GetIDFromValue
  <2> DEFINE t == stored[2]
             frame == With(s.m.frame, <<v, 1>>, t)
             after == With(memory, <<v, 1>>, t)
  <2>2. mf' = [s.m EXCEPT !.frame = frame] /\ memory' = after
    BY <1>1, <1>3, <1>11, <2>1 DEF IsStackSlot
  <2>3. ASSUME NEW c, c[1] # v PROVE At(frame, c) = At(s.m.frame, c) /\ At(after, c) = At(memory, c)
    <3>1. c # <<v, 1>>
      BY <2>3
    <3> QED BY <3>1 DEF At, With
  <2>4. ASSUME NEW p \in Parts PROVE At(frame, <<v, p>>) = At(after, <<v, p>>)
    <3>1. CASE p = 1
      BY <3>1 DEF At, With
    <3>2. CASE p # 1
      <4>1. <<v, p>> # <<v, 1>>
        BY <3>2
      <4>2. At(s.m.frame, <<v, p>>) = At(memory, <<v, p>>)
        BY <1>9, <2>1 DEF Body, SameVariables
      <4>3. At(frame, <<v, p>>) = At(s.m.frame, <<v, p>>) /\ At(after, <<v, p>>) = At(memory, <<v, p>>)
        BY <4>1 DEF At, With
      <4> QED BY <4>2, <4>3
    <3> QED BY <3>1, <3>2
  <2> HIDE DEF frame, after
  <2>5. Body([s.m EXCEPT !.frame = frame], ID, Without(dead), after)
    BY <1>5, <1>9, <2>1, <2>3, <2>4, WrittenBody DEF InBody
  <2> QED BY <1>1, <1>8, <2>2, <2>5 DEF AfterInstruction
<1> QED BY <1>10, <1>11

LEMMA AggregateAddressable ==
  ASSUME InBody, NEW candidates, candidates \subseteq DOMAIN values, NEW v \in Aggregates(candidates)
  PROVE  /\ Addressable(mf, v) /\ v # NextID
         /\ \/ v \in DOMAIN locals /\ GetIDFromValue(mf, v) = v /\ v \in mf.slots
               /\ v \notin DOMAIN values
            \/ v \in DOMAIN values /\ Usable(v) /\ GetIDFromValue(mf, v) \notin mf.slots
<1>1. \/ v \in DOMAIN locals
      \/ v \in DOMAIN values /\ values[v].kind = "pointer"
  BY DEF Aggregates, Structs, Variables
<1>2. NextID \notin DOMAIN locals /\ NextID \notin DOMAIN values
  BY NextIDProperties DEF InBody
<1>3. CASE v \in DOMAIN locals
  BY <1>2, <1>3, LocalAddressable DEF GetIDFromValue
<1>4. CASE v \in DOMAIN values /\ values[v].kind = "pointer"
  BY <1>2, <1>4, PointerAddressable DEF GetIDFromValue
<1> QED BY <1>1, <1>3, <1>4

LEMMA GEPBody ==
  ASSUME InBody, NEW v, NEW x, NEW extra \in Nat, Usable(x),
         NEW candidates, candidates \subseteq DOMAIN values, v \in Aggregates(candidates),
         LowerGEP(v, x, extra)
  PROVE  AfterInstruction
<1> DEFINE onStack == IsStackSlot(mf, GetIDFromValue(mf, v))
           d == Result(mf, NextID)
           i == Source(d.m, x)
           t == Temporaries(i.m, extra)
           b == IF onStack THEN [m |-> t, reg |-> Literal] ELSE Source(t, v)
<1>1. /\ LooksUp /\ Gives("pointer", ValueOf(NextID), {v, x}) /\ memory' = memory
      /\ mf' = SetReg(b.m, d.reg, ValueOf(NextID))
      /\ reads' = {Read(i.m, x, i), IF onStack THEN AddressRead(mf, v) ELSE Read(b.m, v, b)}
  BY DEF LowerGEP
<1>2. Asked(mf, NextID, d) /\ Ready(d.m) /\ AllCarried(d.m, values)
  BY <1>1, ResultStarted DEF Result
<1> HIDE DEF d
<1>3. Keeps(d.m, i.m) /\ Holds(i.m, x, i)
  BY <1>2, SourceHolds DEF InBody
<1> HIDE DEF i
<1>4. Ready(i.m)
  BY <1>3 DEF Keeps, Goes
<1>5. Keeps(i.m, t)
  BY <1>4, TemporariesKeep DEF InBody
<1> HIDE DEF t
<1>6. Keeps(d.m, t)
  BY <1>3, <1>5, KeepsAgain
<1>7. Ready(t) /\ AllCarried(t, values)
  BY <1>2, <1>6, KeepsCarries DEF Keeps, Goes
<1>8. Keeps(t, b.m) /\ Right({IF onStack THEN AddressRead(mf, v) ELSE Read(b.m, v, b)})
  <2>1. CASE onStack
    <3>1. Addressable(mf, v)
      BY AggregateAddressable
    <3>2. Right({AddressRead(mf, v)})
      BY <3>1, AddressIsRead DEF InBody, Body
    <3> QED BY <1>7, <2>1, <3>2, KeepsNothing
  <2>2. CASE ~onStack
    <3>1. Usable(v)
      BY <2>2, AggregateAddressable DEF IsStackSlot
    <3>2. b = Source(t, v)
      BY <2>2
    <3> HIDE DEF b
    <3>3. Keeps(t, b.m) /\ Holds(b.m, v, b)
      BY <1>7, <3>1, <3>2, SourceHolds DEF InBody
    <3> QED BY <2>2, <3>3, HeldIsRead
  <2> QED BY <2>1, <2>2
<1> HIDE DEF b, onStack
<1>9. Right(reads')
  BY <1>1, <1>3, <1>8, HeldIsRead, BothRight
<1>10. Keeps(d.m, b.m)
  BY <1>6, <1>8, KeepsAgain
<1>11. Body(SetReg(b.m, d.reg, ValueOf(NextID)), ID', values', memory)
  BY <1>1, <1>2, <1>10, ResultBody, NotSlotWhenLookedUp DEF InBody
<1> QED BY <1>1, <1>9, <1>11 DEF AfterInstruction

LEMMA GEPGlobalBody ==
  ASSUME InBody, NEW g, NEW x, NEW extra \in Nat, NEW zero, Usable(x),
         LowerGEPGlobal(g, x, extra, zero)
  PROVE  AfterInstruction
<1> DEFINE d == Result(mf, NextID)
           i == Source(d.m, x)
           t == Temporaries(i.m, extra)
<1>1. /\ LooksUp /\ Gives("pointer", ValueOf(NextID), {x}) /\ memory' = memory
      /\ mf' = SetReg(t, d.reg, ValueOf(NextID)) /\ reads' = {Read(i.m, x, i)}
  BY DEF LowerGEPGlobal, InBody
<1>2. Asked(mf, NextID, d) /\ Ready(d.m) /\ AllCarried(d.m, values)
  BY <1>1, ResultStarted DEF Result
<1> HIDE DEF d
<1>3. Keeps(d.m, i.m) /\ Holds(i.m, x, i)
  BY <1>2, SourceHolds DEF InBody
<1> HIDE DEF i
<1>4. Ready(i.m)
  BY <1>3 DEF Keeps, Goes
<1>5. Keeps(i.m, t)
  BY <1>4, TemporariesKeep DEF InBody
<1> HIDE DEF t
<1>6. Keeps(d.m, t)
  BY <1>3, <1>5, KeepsAgain
<1>7. Right(reads')
  BY <1>1, <1>3, HeldIsRead
<1>8. Body(SetReg(t, d.reg, ValueOf(NextID)), ID', values', memory)
  BY <1>1, <1>2, <1>6, ResultBody, NotSlotWhenLookedUp DEF InBody
<1> QED BY <1>1, <1>7, <1>8 DEF AfterInstruction


\* The two parts of a struct are loaded from the slot of the variable.
LEMMA LoadStructBody ==
  ASSUME InBody, NEW v \in Structs, LowerLoadStruct(v)
  PROVE  AfterInstruction
<1> DEFINE d == GetMachineOperandFromValue(mf, NextID, TRUE)
           a == GetIDFromValue(mf, v)
           first == Define(d.m, At(d.m.frame, <<a, 1>>))
           second == Define(first, At(d.m.frame, <<a, 2>>))
           registers == <<New(d.m), New(first)>>
           token == [p \in Parts |-> At(memory, <<v, p>>)]
           n == NextID
           w == [kind |-> "struct", token |-> token]
           to == [second EXCEPT !.loaded = With(@, n, registers)]
<1>1. /\ Gives("struct", token, {}) /\ memory' = memory
      /\ mf' = to /\ reads' = {AddressRead(d.m, v)}
  BY DEF LowerLoadStruct
<1>2. Asked(mf, n, d) /\ Ready(d.m) /\ AllCarried(d.m, values)
  BY ResultStarted
<1>3. v \in DOMAIN locals /\ a = v
  BY LocalAddressable DEF Structs, Variables, GetIDFromValue
<1>4. /\ n \in Nat /\ n <= New(mf) /\ n \notin DOMAIN values /\ n \notin DOMAIN mf.map
      /\ n \notin DOMAIN locals /\ n \notin DOMAIN mf.loaded
  BY NextIDProperties DEF InBody
<1> HIDE DEF d, a
<1>5. Right(reads')
  <2>1. Addressable(mf, v) /\ v # NextID
    BY <1>3, <1>4, LocalAddressable
  <2>2. d.m.slots = mf.slots /\ DOMAIN d.m.map \subseteq DOMAIN mf.map \cup {NextID}
    BY <1>2 DEF Asked, With
  <2>3. Addressable(d.m, v)
    BY <2>1, <2>2, AddressableOn
  <2> QED BY <1>1, <1>2, <2>3, AddressIsRead
<1>6. /\ Keeps(d.m, first) /\ New(d.m) \in DOMAIN first.regs
      /\ first.regs[New(d.m)] = At(d.m.frame, <<a, 1>>)
  BY <1>2, DefineKeeps DEF InBody
<1> HIDE DEF first
<1>7. /\ Keeps(first, second) /\ New(first) \in DOMAIN second.regs
      /\ second.regs[New(first)] = At(d.m.frame, <<a, 2>>)
  BY <1>6, DefineKeeps DEF InBody, Keeps, Goes
<1> HIDE DEF second
<1>8. Keeps(d.m, second)
  BY <1>6, <1>7, KeepsAgain
<1>9. DOMAIN second = Fields
  BY <1>8 DEF Keeps, Goes, Ready, Consistent
<1>10. /\ to.regs = second.regs /\ to.next = second.next /\ to.map = second.map
       /\ to.slots = second.slots /\ to.frame = second.frame
       /\ to.loaded = With(second.loaded, n, registers)
  BY <1>9 DEF Fields
<1>11. Goes(second, to)
  BY <1>8, LoadedGoes DEF Keeps, Goes
<1>12. n < New(to) /\ New(to) \in Nat
  <2>1. New(to) \in Nat /\ to.next <= New(to) /\ New(mf) \in Nat
    BY <1>11, NumbersBelowNew DEF Goes, InBody
  <2>2. d.m.next \in Nat /\ d.m.next <= second.next /\ second.next \in Nat
    BY <1>8 DEF Keeps
  <2>3. New(mf) <= d.reg /\ d.reg < d.m.next /\ d.reg \in Nat
    BY <1>2 DEF Asked
  <2> HIDE DEF to, n
  <2> QED BY <1>4, <1>10, <2>1, <2>2, <2>3
<1> HIDE DEF to, n, registers
<1>13. /\ to.map = With(mf.map, n, d.reg) /\ to.slots = mf.slots
       /\ to.loaded = With(mf.loaded, n, registers) /\ to.frame = mf.frame
  BY <1>2, <1>8, <1>10 DEF Asked, Keeps
<1>14. Extends(mf.regs, to.regs)
  BY <1>2, <1>8, <1>10 DEF Asked, Keeps, Extends
<1>15. AllCarried(to, values)
  <2>1. Saves(mf, to) /\ AllCarried(mf, values)
    BY <1>4, <1>13, <1>14 DEF Saves, Extends, With, InBody, Body
  <2> QED BY <1>13, <2>1, AllCarriedOn
<1>16. Carried(to, n, w)
  <2>1. n \in DOMAIN to.loaded /\ to.loaded[n] = registers
    BY <1>13 DEF With
  <2>2. registers[1] \in DOMAIN to.regs /\ to.regs[registers[1]] = token[1]
    <3>1. At(mf.frame, <<v, 1>>) = At(memory, <<v, 1>>)
      BY <1>3 DEF InBody, Body, SameVariables, Parts
    <3>2. New(d.m) \in DOMAIN second.regs /\ second.regs[New(d.m)] = At(d.m.frame, <<a, 1>>)
      BY <1>6, <1>7 DEF Keeps, Extends
    <3> QED BY <1>2, <1>3, <1>10, <3>1, <3>2 DEF Asked, Parts, registers
  <2>3. registers[2] \in DOMAIN to.regs /\ to.regs[registers[2]] = token[2]
    <3>1. At(mf.frame, <<v, 2>>) = At(memory, <<v, 2>>)
      BY <1>3 DEF InBody, Body, SameVariables, Parts
    <3> QED BY <1>2, <1>3, <1>7, <1>10, <3>1 DEF Asked, Parts, registers
  <2>4. w.kind = "struct" /\ w.token = token
    OBVIOUS
  <2> HIDE DEF w, token
  <2>5. \A p \in Parts : p = 1 \/ p = 2
    BY DEF Parts
  <2> QED BY <2>1, <2>2, <2>3, <2>4, <2>5 DEF Carried
<1>17. /\ AllCarried(to, values') /\ DOMAIN values' \subseteq DOMAIN values \cup {n}
       /\ ID' = n + 1 /\ n < EndID
  BY <1>1, <1>15, <1>16, GivenValues DEF n, w
<1>18. /\ DOMAIN to.map \subseteq DOMAIN mf.map \cup {n}
       /\ DOMAIN to.loaded \subseteq DOMAIN mf.loaded \cup {n}
  BY <1>13 DEF With
<1>19. /\ ID' \in Nat /\ ID' <= EndID /\ ID' <= New(to)
       /\ DOMAIN values' \cup DOMAIN to.map \cup DOMAIN to.loaded
            \subseteq (0..(ID' - 1)) \ DOMAIN locals
  BY <1>12, <1>17, <1>18, NumbersMoveOn DEF n, InBody
<1>20. /\ SameVariables(to, memory)
       /\ DOMAIN locals \subseteq to.slots /\ DOMAIN locals \subseteq 0..(EndID - 1)
  BY <1>13 DEF InBody, Body, SameVariables
<1>21. Body(to, ID', values', memory)
  BY <1>17, <1>19, <1>20 DEF Body
<1> QED BY <1>1, <1>5, <1>21 DEF AfterInstruction

\* A struct is copied part by part, from the slot of a variable.
LEMMA MemoryCopyBody ==
  ASSUME InBody, NEW v \in Aggregates(Latest), NEW from \in Structs, LowerMemoryCopy(v, from)
  PROVE  AfterInstruction
<1> DEFINE a == GetIDFromValue(mf, v)
           b == GetIDFromValue(mf, from)
           m == Temporaries(mf, Cardinality(Parts))
           copied == [c \in {<<a, p>> : p \in Parts} |-> At(mf.frame, <<b, c[2]>>)]
           ir == [c \in {<<v, p>> : p \in Parts} |-> At(memory, <<from, c[2]>>)]
           less == Without({v})
<1>1. /\ NextID < EndID /\ ID' = NextID + 1
      /\ mf' = IF IsStackSlot(mf, a) THEN [m EXCEPT !.frame = Over(copied, @)] ELSE m
      /\ memory' = IF v \in DOMAIN values THEN memory ELSE Over(ir, memory)
      /\ reads' = {AddressRead(m, v), AddressRead(m, from)} /\ values' = less
  BY DEF LowerMemoryCopy
<1>2. Cardinality(Parts) \in Nat /\ Cardinality(Parts) > 0
  <2>1. Parts = {1} \cup {2}
    BY DEF Parts
  <2>2. IsFiniteSet(Parts)
    BY <2>1, FS_Singleton, FS_AddElement
  <2>3. Cardinality(Parts) # 0
    BY <2>1, <2>2, FS_EmptySet
  <2>4. Cardinality(Parts) \in Nat
    BY <2>2, FS_CardinalityType
  <2> QED BY <2>3, <2>4
<1>3. Keeps(mf, m) /\ New(mf) \in DOMAIN m.regs
  BY <1>2, TemporariesKeep DEF InBody
<1>4. /\ Addressable(mf, v)
      /\ \/ v \in DOMAIN locals /\ a = v /\ v \in mf.slots /\ v \notin DOMAIN values
         \/ v \in DOMAIN values /\ a \notin mf.slots
  BY CandidatesAreValues, AggregateAddressable
<1>5. from \in DOMAIN locals /\ Addressable(mf, from) /\ b = from
  BY LocalAddressable DEF Structs, Variables, GetIDFromValue
<1> HIDE DEF m, a, b
<1>6. Ready(m) /\ AllCarried(m, values) /\ m.slots = mf.slots /\ m.map = mf.map /\ m.frame = mf.frame
  BY <1>3, KeepsCarries DEF Keeps, Goes, InBody, Body
<1>7. Right(reads')
  <2>1. Addressable(m, v) /\ Addressable(m, from)
    BY <1>4, <1>5, <1>6 DEF Addressable
  <2> QED BY <1>1, <1>6, <2>1, AddressIsRead, BothRight
<1>8. Body(m, ID, less, memory)
  BY <1>3, WithoutExtends, NoResultBody
<1>9. Body(m, ID', less, memory)
  <2>1. NextID < New(m) /\ New(m) \in Nat
    <3>1. New(m) \in Nat /\ \A k \in Numbers(m) : k < New(m)
      BY <1>6, NumbersBelowNew DEF InBody
    <3>2. New(mf) \in Numbers(m) /\ New(mf) \in Nat
      BY <1>3, <1>6, NumbersBelowNew DEF Ready, Consistent, InBody
    <3>3. NextID \in Nat /\ NextID <= New(mf)
      BY NextIDProperties DEF InBody
    <3>4. New(mf) < New(m)
      BY <3>1, <3>2
    <3> QED BY <3>1, <3>2, <3>3, <3>4
  <2>2. DOMAIN less \subseteq DOMAIN values
    BY WithoutExtends DEF Extends
  <2>3. m.map = mf.map /\ m.loaded = mf.loaded
    BY <1>3 DEF Keeps
  <2> HIDE DEF less
  <2>4. /\ ID' \in Nat /\ ID' <= EndID /\ ID' <= New(m)
        /\ DOMAIN less \cup DOMAIN m.map \cup DOMAIN m.loaded \subseteq (0..(ID' - 1)) \ DOMAIN locals
    BY <1>1, <2>1, <2>2, <2>3, NumbersMoveOn DEF InBody
  <2> QED BY <1>8, <2>4 DEF Body
<1> HIDE DEF less
<1>10. CASE v \in DOMAIN values
  <2>1. a \notin mf.slots
    BY <1>4, <1>10, LocalAddressable
  <2>2. mf' = m /\ memory' = memory
    BY <1>1, <1>10, <2>1 DEF IsStackSlot
  <2> QED BY <1>1, <1>7, <1>9, <2>2 DEF AfterInstruction
<1>11. CASE v \notin DOMAIN values
  <2>1. v \in DOMAIN locals /\ a = v /\ v \in mf.slots
    BY <1>4, <1>11
  <2> DEFINE frame == Over(copied, m.frame)
             after == Over(ir, memory)
  <2>2. mf' = [m EXCEPT !.frame = frame] /\ memory' = after
    BY <1>1, <1>11, <2>1 DEF IsStackSlot
  <2>3. DOMAIN copied = {<<v, p>> : p \in Parts} /\ DOMAIN ir = {<<v, p>> : p \in Parts}
    BY <2>1
  <2>4. ASSUME NEW c, c[1] # v PROVE At(frame, c) = At(m.frame, c) /\ At(after, c) = At(memory, c)
    <3>1. c \notin {<<v, p>> : p \in Parts}
      BY <2>4
    <3> HIDE DEF copied, ir
    <3> QED BY <2>3, <3>1 DEF At, Over
  <2>5. ASSUME NEW p \in Parts PROVE At(frame, <<v, p>>) = At(after, <<v, p>>)
    <3>1. <<v, p>> \in DOMAIN copied /\ <<v, p>> \in DOMAIN ir
      BY <2>3
    <3>2. copied[<<v, p>>] = At(mf.frame, <<from, p>>) /\ ir[<<v, p>>] = At(memory, <<from, p>>)
      BY <1>5, <2>1
    <3>3. At(mf.frame, <<from, p>>) = At(memory, <<from, p>>)
      BY <1>5 DEF InBody, Body, SameVariables
    <3> HIDE DEF copied, ir
    <3> QED BY <3>1, <3>2, <3>3 DEF At, Over
  <2> HIDE DEF frame, after
  <2>6. Body([m EXCEPT !.frame = frame], ID', less, after)
    BY <1>6, <1>9, <2>1, <2>4, <2>5, WrittenBody DEF InBody
  <2> QED BY <1>1, <1>7, <2>2, <2>6 DEF AfterInstruction
<1> QED BY <1>10, <1>11


LEMMA ArgumentsPassable ==
  ASSUME InBody, NEW args \in ArgumentLists
  PROVE  Len(args) \in Nat /\ \A i \in 1..Len(args) : Passable(mf, args[i])
<1> DEFINE Argument(candidates) == candidates \cup {Literal} \cup Variables
<1>1. ASSUME NEW candidates, candidates \subseteq DOMAIN values, NEW v \in Argument(candidates)
      PROVE  Passable(mf, v)
  BY <1>1, LocalAddressable DEF Passable, Variables
<1>2. Latest \subseteq DOMAIN values /\ \A v : LastBut(v) \subseteq DOMAIN values
  BY CandidatesAreValues
<1>3. CASE args = <<>>
  BY <1>3
<1>4. ASSUME NEW v \in Argument(Latest), args = <<v>>
      PROVE  Len(args) \in Nat /\ \A i \in 1..Len(args) : Passable(mf, args[i])
  <2>1. Passable(mf, v)
    BY <1>1, <1>2, <1>4
  <2> QED BY <1>4, <2>1
<1>5. ASSUME NEW v \in Argument(Latest), NEW w \in Argument(LastBut(v)), args = <<w, v>>
      PROVE  Len(args) \in Nat /\ \A i \in 1..Len(args) : Passable(mf, args[i])
  <2>1. Passable(mf, v)
    BY <1>1, <1>2, <1>5
  <2>2. Passable(mf, w)
    BY <1>1, <1>2, <1>5
  <2>3. Len(args) = 2 /\ args[1] = w /\ args[2] = v /\ \A i \in 1..2 : i = 1 \/ i = 2
    BY <1>5
  <2> QED BY <2>1, <2>2, <2>3
<1>6. \/ args = <<>>
      \/ \E v \in Argument(Latest) : args = <<v>>
      \/ \E v \in Argument(Latest) : \E w \in Argument(LastBut(v)) : args = <<w, v>>
  BY DEF ArgumentLists
<1> QED BY <1>3, <1>4, <1>5, <1>6

LEMMA VoidCallBody ==
  ASSUME InBody, NEW args \in ArgumentLists, LowerVoidCall(args)
  PROVE  AfterInstruction
<1> DEFINE passed == PassedAll(mf, args)
           dead == {args[i] : i \in DOMAIN args}
<1>1. /\ mf' = passed.m /\ reads' = passed.reads /\ values' = Without(dead)
      /\ ID' = ID /\ memory' = memory
  BY DEF LowerVoidCall
<1>2. Keeps(mf, passed.m) /\ Right(passed.reads)
  BY ArgumentsPassable, PassedAllHold DEF InBody, Body
<1> HIDE DEF passed, dead
<1>3. Body(passed.m, ID, Without(dead), memory)
  BY <1>2, WithoutExtends, NoResultBody
<1> QED BY <1>1, <1>2, <1>3 DEF AfterInstruction

\* The result gets a slot, whose number is that of no value and of no register.
LEMMA CallBody ==
  ASSUME InBody, NEW args \in ArgumentLists, LowerCall(args)
  PROVE  AfterInstruction
<1> DEFINE passed == PassedAll(mf, args)
           dead == {args[i] : i \in DOMAIN args}
           p == passed.m
           n == NextID
           slot == New(p)
           token == ValueOf(n)
           w == [kind |-> "scalar", token |-> token]
           frame == With(p.frame, <<slot, 1>>, token)
           to == [InsertStackSlot(p, slot) EXCEPT !.map = With(@, n, slot), !.frame = frame]
<1>1. Keeps(mf, p) /\ Right(passed.reads)
  BY ArgumentsPassable, PassedAllHold DEF InBody, Body
<1>2. DOMAIN p = Fields /\ Ready(p)
  BY <1>1 DEF Keeps, Goes, Ready, Consistent
<1>3. /\ Gives("scalar", token, dead) /\ memory' = memory /\ reads' = passed.reads
      /\ mf' = [InsertStackSlot(p, slot) EXCEPT
                  !.map = With(@, n, slot), !.frame = With(@, <<slot, 1>>, token)]
  BY DEF LowerCall
<1> HIDE DEF passed, dead, p, n, token
<1>4. mf' = to
  BY <1>2, <1>3 DEF InsertStackSlot, Fields
<1>5. /\ slot \in Nat /\ p.next \in Nat /\ p.next <= slot
      /\ slot \notin DOMAIN p.regs /\ slot \notin p.slots
  BY <1>2, NumbersBelowNew DEF InBody, Ready, Consistent
<1>6. Goes(p, to)
  BY <1>2, NewSlotGoes DEF InBody
<1> HIDE DEF slot
<1>7. /\ to.next = slot + 1 /\ to.slots = p.slots \cup {slot} /\ to.regs = p.regs
      /\ to.map = With(p.map, n, slot) /\ to.frame = frame /\ to.loaded = p.loaded
  BY <1>2, <1>5 DEF InsertStackSlot, Fields
<1>8. /\ n \in Nat /\ n <= New(mf) /\ n \notin DOMAIN values /\ n \notin DOMAIN mf.map
      /\ n \notin DOMAIN locals
  BY NextIDProperties DEF InBody, n
<1>9. New(mf) <= slot /\ New(mf) \in Nat
  <2>1. Goes(mf, p) /\ mf.next <= p.next
    BY <1>1 DEF Keeps
  <2> QED BY <2>1, NewGrows, NumbersBelowNew DEF InBody, slot
<1>10. n < New(to) /\ New(to) \in Nat
  <2>1. New(to) \in Nat /\ to.next <= New(to)
    BY <1>6, NumbersBelowNew DEF Goes, InBody
  <2> HIDE DEF to
  <2> QED BY <1>5, <1>7, <1>8, <1>9, <2>1
<1> HIDE DEF to
<1>11. /\ p.slots = mf.slots /\ p.map = mf.map /\ p.loaded = mf.loaded /\ p.frame = mf.frame
       /\ Extends(mf.regs, p.regs)
  BY <1>1 DEF Keeps
<1>12. \A k \in mf.slots, q \in Parts : At(frame, <<k, q>>) = At(mf.frame, <<k, q>>)
  <2> SUFFICES ASSUME NEW k \in mf.slots, NEW q \in Parts
               PROVE  At(frame, <<k, q>>) = At(mf.frame, <<k, q>>)
    OBVIOUS
  <2>1. <<k, q>> # <<slot, 1>>
    BY <1>5, <1>11
  <2> QED BY <1>11, <2>1 DEF At, With
<1>13. At(frame, <<slot, 1>>) = token
  BY DEF At, With
<1> HIDE DEF frame
<1>14. AllCarried(to, values)
  <2>1. Saves(mf, to)
    BY <1>7, <1>8, <1>11, <1>12 DEF Saves, Extends, With, Parts
  <2>2. slot \notin DOMAIN mf.regs
    BY <1>5, <1>11 DEF Extends
  <2>3. slot \notin DOMAIN values
    <3>1. DOMAIN values \subseteq 0..(ID - 1) /\ ID \in Nat /\ ID <= New(mf)
      BY DEF InBody, Body
    <3>2. slot \notin 0..(ID - 1)
      BY <1>5, <1>9, <3>1
    <3> QED BY <3>1, <3>2
  <2>4. to.slots \ mf.slots = {slot} \/ to.slots \ mf.slots = {}
    BY <1>7, <1>11
  <2>5. AllCarried(mf, values)
    BY DEF InBody, Body
  <2> QED BY <2>1, <2>2, <2>3, <2>4, <2>5, AllCarriedOn
<1>15. Carried(to, n, w)
  <2>1. n \in DOMAIN to.map /\ to.map[n] = slot /\ slot \in to.slots
    BY <1>7 DEF With
  <2>2. slot \notin DOMAIN locals
    BY <1>5, <1>11 DEF InBody, Body
  <2>3. w.kind = "scalar" /\ w.token = token
    OBVIOUS
  <2> HIDE DEF w
  <2> QED BY <1>7, <1>13, <2>1, <2>2, <2>3 DEF Carried
<1>16. /\ AllCarried(to, values') /\ DOMAIN values' \subseteq DOMAIN values \cup {n}
       /\ ID' = n + 1 /\ n < EndID
  BY <1>3, <1>14, <1>15, GivenValues DEF n, w
<1>17. /\ DOMAIN to.map \subseteq DOMAIN mf.map \cup {n}
       /\ DOMAIN to.loaded \subseteq DOMAIN mf.loaded \cup {n}
  BY <1>7, <1>11 DEF With
<1>18. /\ ID' \in Nat /\ ID' <= EndID /\ ID' <= New(to)
       /\ DOMAIN values' \cup DOMAIN to.map \cup DOMAIN to.loaded
            \subseteq (0..(ID' - 1)) \ DOMAIN locals
  BY <1>10, <1>16, <1>17, NumbersMoveOn DEF n, InBody
<1>19. SameVariables(to, memory)
  BY <1>7, <1>12 DEF InBody, Body, SameVariables
<1>20. DOMAIN locals \subseteq to.slots /\ DOMAIN locals \subseteq 0..(EndID - 1)
  BY <1>7, <1>11 DEF InBody, Body
<1>21. Body(to, ID', values', memory)
  BY <1>16, <1>18, <1>19, <1>20 DEF Body
<1> QED BY <1>1, <1>3, <1>4, <1>21 DEF AfterInstruction

\* A branch and a return read one value.
LEMMA JumpBody ==
  ASSUME InBody, NEW x, Usable(x), LowerBranch(x) \/ LowerReturn(x)
  PROVE  AfterInstruction
<1> DEFINE s == Source(mf, x)
<1>1. /\ mf' = s.m /\ reads' = {Read(s.m, x, s)} /\ ID' = ID /\ memory' = memory
      /\ values' = Nothing \/ values' = values
  BY DEF LowerBranch, LowerReturn
<1>2. Keeps(mf, s.m) /\ Holds(s.m, x, s)
  BY SourceHolds DEF InBody, Body
<1> HIDE DEF s
<1>3. Right(reads')
  BY <1>1, <1>2, HeldIsRead
<1>4. Extends(values', values)
  BY <1>1 DEF Extends, Nothing
<1>5. Body(s.m, ID, values', memory)
  BY <1>2, <1>4, NoResultBody
<1> QED BY <1>1, <1>3, <1>5 DEF AfterInstruction

LEMMA InstructionBody ==
  ASSUME InBody, LowerInstruction
  PROVE  AfterInstruction
<1>1. ASSUME NEW r \in Operands(Latest, Scalars) PROVE Usable(r)
  BY <1>1, OperandUsable, CandidatesAreValues DEF InBody, Scalars
<1>2. ASSUME NEW v, NEW l \in Operands(LastBut(v), Simple) PROVE Usable(l)
  BY <1>2, OperandUsable, CandidatesAreValues DEF InBody, Simple
<1>3. ASSUME NEW v, NEW l \in Operands(LastBut(v), Scalars) PROVE Usable(l)
  BY <1>3, OperandUsable, CandidatesAreValues DEF InBody, Scalars
<1>4. ASSUME NEW r \in Operands(Latest, Scalars), NEW l \in Operands(LastBut(r), Scalars), NEW dead,
             LowerBinary(l, r, dead)
      PROVE  AfterInstruction
  BY <1>1, <1>3, <1>4, BinaryBody
<1>5. ASSUME NEW x \in Operands(Latest, Scalars),
             LowerUnary(x) \/ LowerStoreGlobal(x) \/ LowerBranch(x) \/ LowerReturn(x)
      PROVE  AfterInstruction
  BY <1>1, <1>5, UnaryBody, StoreGlobalBody, JumpBody
<1>6. ASSUME NEW v \in Locations, NEW dead, LowerLoad(v, dead)
      PROVE  AfterInstruction
  BY <1>6, LoadBody
<1>7. ASSUME NEW v \in Locations, NEW x \in Operands(LastBut(v), Simple), NEW dead,
             LowerStore(v, x, dead)
      PROVE  AfterInstruction
  BY <1>2, <1>7, StoreBody
<1>8. ASSUME NEW x \in Operands(Latest, Scalars), NEW v \in Aggregates(LastBut(x)),
             NEW extra \in 0..3, LowerGEP(v, x, extra)
      PROVE  AfterInstruction
  <2>1. extra \in Nat /\ Usable(x) /\ LastBut(x) \subseteq DOMAIN values
    BY <1>1, CandidatesAreValues
  <2> QED BY <1>8, <2>1, GEPBody
<1>9. ASSUME NEW x \in Operands(Latest, Scalars), NEW g, NEW extra \in 0..3, NEW zero,
             LowerGEPGlobal(g, x, extra, zero)
      PROVE  AfterInstruction
  <2>1. extra \in Nat /\ Usable(x)
    BY <1>1
  <2> QED BY <1>9, <2>1, GEPGlobalBody
<1>10. ASSUME NEW v \in Structs, LowerLoadStruct(v) PROVE AfterInstruction
  BY <1>10, LoadStructBody
<1>11. ASSUME NEW v \in Aggregates(Latest), NEW from \in Structs, LowerMemoryCopy(v, from)
       PROVE  AfterInstruction
  BY <1>11, MemoryCopyBody
<1>12. ASSUME NEW args \in ArgumentLists, LowerVoidCall(args) \/ LowerCall(args)
       PROVE  AfterInstruction
  BY <1>12, VoidCallBody, CallBody
<1> QED BY Zenon, <1>4, <1>5, <1>6, <1>7, <1>8, <1>9, <1>10, <1>11, <1>12, LoadGlobalBody
    DEF LowerInstruction


-----------------------------------------------------------------------------
(* Before the body: the parameters are in registers, the variables have the   *)
(* slots of their numbers.                                                    *)

LEMMA InitBefore ==
  ASSUME Init, IsSignature
  PROVE  Before /\ OperandsHoldTheirValues
<1>1. Len(signature) \in Nat /\ MaxIDs \in Nat /\ DOMAIN signature = 1..Len(signature)
  BY LoweringAssumption DEF IsSignature
<1> DEFINE p == ParameterLocals(signature)
<1>2. PICK l \in OtherLocals(signature) :
        locals = [n \in DOMAIN p \cup DOMAIN l |-> IF n \in DOMAIN p THEN p[n] ELSE l[n]]
  BY DEF Init, Allocations
<1>3. DOMAIN p = {LocalOf(i) : i \in DOMAIN signature}
  BY DEF ParameterLocals
<1>4. ASSUME NEW i \in DOMAIN signature
      PROVE  LocalOf(i) \in 0..(EndID - 1) /\ p[LocalOf(i)] = signature[i]
  <2>1. i \in 1..Len(signature) /\ i \in Nat
    BY <1>1
  <2>2. LocalOf(i) = 2 * (i - 1) /\ EndID = 2 * Len(signature) + MaxIDs
    BY DEF LocalOf, EndID
  <2>3. (2 * (i - 1)) \div 2 = i - 1
    BY <2>1
  <2>4. LocalOf(i) \in 0..(EndID - 1) /\ (LocalOf(i) \div 2) + 1 = i
    BY <1>1, <2>1, <2>2, <2>3
  <2>5. p[LocalOf(i)] = signature[(LocalOf(i) \div 2) + 1]
    BY DEF ParameterLocals
  <2> QED BY <2>4, <2>5
<1>5. DOMAIN l \subseteq 0..(EndID - 1)
  <2>1. DOMAIN l \subseteq 2 * Len(signature)..2 * Len(signature) + MaxIDs - 1
    BY <1>2 DEF OtherLocals
  <2> QED BY <1>1, <2>1 DEF EndID
<1> HIDE DEF p
<1>6. DOMAIN locals \subseteq 0..(EndID - 1) /\ \A i \in DOMAIN signature : locals[LocalOf(i)] = signature[i]
  BY <1>2, <1>3, <1>4, <1>5
<1>7. /\ ID = 2 * Len(signature) /\ values = Nothing /\ memory = Nothing /\ reads = {}
      /\ mf = EmptyFunction /\ param = 1
  BY DEF Init
<1>8. \A i \in 1..(param - 1) : HasParameter(mf, i)
  BY <1>7
<1>9. mf.map = Nothing /\ mf.loaded = Nothing /\ mf.frame = memory /\ DOMAIN mf.regs = {}
  BY <1>7 DEF EmptyFunction, Nothing
<1> QED BY <1>6, <1>7, <1>8, <1>9 DEF Before, OperandsHoldTheirValues

LEMMA HasParameterOn ==
  ASSUME NEW m, NEW to, NEW i, HasParameter(m, i), Extends(m.regs, to.regs),
         i \in DOMAIN m.structs => i \in DOMAIN to.structs /\ to.structs[i] = m.structs[i]
  PROVE  HasParameter(to, i)
BY DEF HasParameter, InRegister, Extends

LEMMA NewParameterFields ==
  ASSUME NEW m, NEW t, Consistent(m), Distinct(m),
         \A j \in DOMAIN m.parameters : m.parameters[j] < m.next
  PROVE  LET to == InsertNewParameter(m, t) IN
         /\ New(m) = m.next
         /\ to.regs = With(m.regs, m.next, t) /\ to.structs = m.structs
         /\ to.map = m.map /\ to.loaded = m.loaded /\ to.frame = m.frame
<1>1. DOMAIN m = Fields /\ New(m) = m.next
  BY TakeProperties DEF Consistent
<1> QED BY <1>1 DEF InsertNewParameter, InsertParameter, Fields

LEMMA ParameterBefore ==
  ASSUME IInv, Before, HandleFunctionParam
  PROVE  Before'
<1> DEFINE p == ParameterOf(param)
           first == InsertNewParameter(mf, Parameter(param, 1))
           second == InsertNewParameter(first, Parameter(param, 2))
<1>1. /\ Len(signature) \in Nat /\ param \in 1..Len(signature) /\ param \in Nat /\ param' = param + 1
      /\ Consistent(mf) /\ Distinct(mf) /\ ParametersSoFar /\ DOMAIN mf = Fields
      /\ mf.next \in Nat /\ mf.parameters \in Seq(Nat) /\ DOMAIN mf.regs \subseteq Nat
  <2>1. IsSignature /\ Consistent(mf) /\ pc = "parameters" /\ DOMAIN mf.regs \subseteq Numbers(mf)
    BY DEF IInv, HandleFunctionParam, Consistent
  <2>2. Numbers(mf) \subseteq Nat
    BY <2>1 DEF Numbers, ParameterOf, IsSignature, Consistent
  <2> QED BY <2>1, <2>2 DEF IInv, HandleFunctionParam, IsSignature, Consistent
<1>2. UNCHANGED <<pc, signature, locals, ID, values, memory>> /\ pc = "parameters"
  BY DEF HandleFunctionParam
<1>3. \A n \in DOMAIN mf.regs : n \in Nat /\ n < 2 * (param - 1)
  BY <1>1, <1>2 DEF Before
<1>4. ASSUME NEW i \in 1..param PROVE i = param \/ i \in 1..(param - 1)
  BY <1>1
<1>5. SUFFICES /\ mf'.map = mf.map /\ mf'.loaded = mf.loaded /\ mf'.frame = mf.frame
               /\ \A i \in 1..param : HasParameter(mf', i)
               /\ \A n \in DOMAIN mf'.regs : n < 2 * param
  <2>1. param' - 1 = param
    BY <1>1
  <2> QED BY <1>2, <1>5, <2>1 DEF Before, EndID, HasParameter
<1>6. CASE signature[param] # "struct"
  <2>1. mf' = InsertParameter(mf, p, Parameter(param, 1))
    BY <1>6 DEF HandleFunctionParam
  <2>2. p = 2 * (param - 1) + 1
    BY DEF ParameterOf
  <2>3. p \in Nat /\ p < 2 * param /\ ~(p < 2 * (param - 1))
    BY <1>1, <2>2
  <2> HIDE DEF p
  <2>4. /\ mf'.regs = With(mf.regs, p, Parameter(param, 1)) /\ mf'.structs = mf.structs
        /\ mf'.map = mf.map /\ mf'.loaded = mf.loaded /\ mf'.frame = mf.frame
    BY <1>1, <2>1 DEF InsertParameter, Fields
  <2>5. p \notin DOMAIN mf.regs
    BY <1>3, <2>3
  <2>6. Extends(mf.regs, mf'.regs) /\ InRegister(mf', p, Parameter(param, 1))
    BY <2>4, <2>5 DEF Extends, With, InRegister
  <2>7. HasParameter(mf', param)
    BY <1>6, <2>6 DEF HasParameter, p
  <2>8. \A i \in 1..(param - 1) : HasParameter(mf', i)
    BY <2>4, <2>6, HasParameterOn DEF Before
  <2>9. ASSUME NEW n \in DOMAIN mf'.regs PROVE n < 2 * param
    <3>1. n = p \/ n \in DOMAIN mf.regs
      BY <2>4 DEF With
    <3> QED BY <1>1, <1>3, <2>3, <3>1
  <2> QED BY <1>4, <2>4, <2>7, <2>8, <2>9
<1>7. CASE signature[param] = "struct"
  <2> DEFINE numbers == <<New(mf), New(first)>>
  <2>1. mf' = [second EXCEPT !.structs = With(@, param, numbers)]
    BY <1>7 DEF HandleFunctionParam
  <2>2. \A i \in 1..(param - 1) : signature[i] = "struct"
    BY <1>1, <1>7 DEF IInv, StructsFirst, IsSignature
  <2>3. mf.next = 2 * (param - 1)
    BY <1>1, <2>2 DEF ParametersSoFar
  <2>4. \A j \in DOMAIN mf.parameters : mf.parameters[j] < mf.next
    BY <1>1, <2>3 DEF ParametersSoFar
  <2>5. /\ Consistent(first) /\ Distinct(first) /\ first.next = mf.next + 1
        /\ \A j \in DOMAIN first.parameters : first.parameters[j] < first.next
    BY <1>1, <2>4, NewParameterProperties
  <2>6. /\ New(mf) = mf.next /\ first.regs = With(mf.regs, mf.next, Parameter(param, 1))
        /\ first.structs = mf.structs
        /\ first.map = mf.map /\ first.loaded = mf.loaded /\ first.frame = mf.frame
    BY <1>1, <2>4, NewParameterFields
  <2> HIDE DEF first
  <2>7. Consistent(second)
    BY <2>5, NewParameterProperties
  <2>8. /\ New(first) = first.next /\ second.regs = With(first.regs, first.next, Parameter(param, 2))
        /\ second.structs = first.structs
        /\ second.map = first.map /\ second.loaded = first.loaded /\ second.frame = first.frame
    BY <2>5, NewParameterFields
  <2> HIDE DEF second, numbers
  <2>9. /\ mf'.structs = With(second.structs, param, numbers) /\ mf'.regs = second.regs
        /\ mf'.map = second.map /\ mf'.loaded = second.loaded /\ mf'.frame = second.frame
    BY <2>1, <2>7 DEF Consistent, Fields
  <2> DEFINE a == mf.next
             b == mf.next + 1
  <2>10. a \in Nat /\ b \in Nat /\ a # b /\ a < 2 * param /\ b < 2 * param
    BY <1>1, <2>3
  <2>11. a \notin DOMAIN mf.regs /\ b \notin DOMAIN mf.regs
    BY <1>1, <1>3, <2>3
  <2>12. mf'.regs = With(With(mf.regs, a, Parameter(param, 1)), b, Parameter(param, 2))
    BY <2>5, <2>6, <2>8, <2>9
  <2>13. numbers[1] = a /\ numbers[2] = b
    BY <2>5, <2>6, <2>8 DEF numbers
  <2> HIDE DEF a, b
  <2>14. /\ Extends(mf.regs, mf'.regs) /\ InRegister(mf', a, Parameter(param, 1))
         /\ InRegister(mf', b, Parameter(param, 2))
    BY <2>10, <2>11, <2>12 DEF Extends, With, InRegister
  <2>15. HasParameter(mf', param)
    <3>1. param \in DOMAIN mf'.structs /\ mf'.structs[param] = numbers
      BY <2>9 DEF With
    <3>2. \A q \in Parts : q = 1 \/ q = 2
      BY DEF Parts
    <3> QED BY <1>7, <2>13, <2>14, <3>1, <3>2 DEF HasParameter
  <2>16. ASSUME NEW i \in 1..(param - 1) PROVE HasParameter(mf', i)
    <3>1. i # param /\ HasParameter(mf, i)
      BY <1>1 DEF Before
    <3>2. i \in DOMAIN mf.structs => i \in DOMAIN mf'.structs /\ mf'.structs[i] = mf.structs[i]
      BY <2>6, <2>8, <2>9, <3>1 DEF With
    <3> QED BY <2>14, <3>1, <3>2, HasParameterOn
  <2>17. ASSUME NEW n \in DOMAIN mf'.regs PROVE n < 2 * param
    <3>1. n = a \/ n = b \/ n \in DOMAIN mf.regs
      BY <2>12 DEF With
    <3> QED BY <1>1, <1>3, <2>10, <3>1
  <2> QED BY <1>4, <2>6, <2>8, <2>9, <2>15, <2>16, <2>17
<1> QED BY <1>6, <1>7

LEMMA AllocationBefore ==
  ASSUME IInv, Before, HandleStackAllocation
  PROVE  Before'
<1>1. UNCHANGED <<pc, signature, param, locals, ID, values>> /\ pc = "allocations"
  BY DEF HandleStackAllocation
<1>2. PICK n \in DOMAIN locals \ mf.slots :
        /\ mf' = [InsertStackSlot(mf, n) EXCEPT !.frame = Over(InitialCells(n), @)]
        /\ memory' = Over(InitialCells(n), memory)
  BY DEF HandleStackAllocation
<1>3. DOMAIN mf = Fields
  BY DEF IInv, Consistent
<1> DEFINE cells == InitialCells(n)
<1> HIDE DEF cells
<1>4. mf' = [InsertStackSlot(mf, n) EXCEPT !.frame = Over(cells, @)] /\ memory' = Over(cells, memory)
  BY <1>2 DEF cells
<1>5. /\ mf'.map = mf.map /\ mf'.loaded = mf.loaded /\ mf'.regs = mf.regs /\ mf'.structs = mf.structs
      /\ mf'.frame = Over(cells, mf.frame)
  BY <1>3, <1>4 DEF InsertStackSlot, Fields
<1>6. mf'.frame = memory'
  BY <1>4, <1>5 DEF Before
<1>7. ASSUME NEW i \in 1..(param - 1) PROVE HasParameter(mf', i)
  BY <1>5 DEF Before, HasParameter, InRegister
<1> QED BY <1>1, <1>5, <1>6, <1>7 DEF Before, EndID, HasParameter

\* The parameters are stored to their variables: in the frame what the IR stores.
LEMMA StoreParametersBody ==
  ASSUME IInv, IInv', Before, StoreParameters
  PROVE  Body(mf', ID', values', memory') /\ Right(reads')
<1> DEFINE cells == UNION {Cells(LocalOf(i)) : i \in DOMAIN signature}
           parameter(c) == (c[1] \div 2) + 1
           ir == [c \in cells |-> Parameter(parameter(c), c[2])]
           machine == [c \in cells |-> At(mf.regs, RegisterOf(parameter(c), c[2]))]
<1>1. /\ mf' = [mf EXCEPT !.frame = Over(machine, @)] /\ memory' = Over(ir, memory)
      /\ reads' = {<<ir[c], machine[c]>> : c \in cells}
      /\ UNCHANGED <<signature, param, locals, ID, values>>
      /\ pc = "allocations" /\ pc' = "body" /\ DOMAIN locals \subseteq mf.slots
  BY DEF StoreParameters
<1>2. /\ IsSignature /\ Len(signature) \in Nat /\ DOMAIN signature = 1..Len(signature)
      /\ param = Len(signature) + 1 /\ DOMAIN mf = Fields
  BY <1>1 DEF IInv, IsSignature, Consistent
<1>3. ASSUME NEW c \in cells
      PROVE  At(mf.regs, RegisterOf(parameter(c), c[2])) = Parameter(parameter(c), c[2])
  <2>1. PICK i \in DOMAIN signature : c \in Cells(LocalOf(i))
    OBVIOUS
  <2>2. PICK q \in PartsOf(signature[i]) : c = <<LocalOf(i), q>>
    BY <2>1 DEF Cells, Before
  <2>3. i \in 1..Len(signature) /\ i \in Nat /\ LocalOf(i) = 2 * (i - 1)
    BY <1>2 DEF LocalOf
  <2>4. (2 * (i - 1)) \div 2 = i - 1
    BY <2>3
  <2>5. c[1] = 2 * (i - 1) /\ c[2] = q
    BY <2>2, <2>3
  <2>6. parameter(c) = i
    BY <2>3, <2>4, <2>5
  <2>7. HasParameter(mf, i)
    BY <1>2, <2>3 DEF Before
  <2>8. At(mf.regs, RegisterOf(i, q)) = Parameter(i, q)
    <3>1. CASE signature[i] = "struct"
      <4>1. q \in Parts
        BY <2>2, <3>1 DEF PartsOf
      <4> QED BY <2>7, <3>1, <4>1 DEF HasParameter, InRegister, RegisterOf, At
    <3>2. CASE signature[i] # "struct"
      <4>1. q = 1
        BY <2>2, <3>2 DEF PartsOf
      <4> QED BY <2>7, <3>2, <4>1 DEF HasParameter, InRegister, RegisterOf, At
    <3> QED BY <3>1, <3>2
  <2> HIDE DEF parameter
  <2> QED BY <2>5, <2>6, <2>8
<1>4. ir = machine
  BY <1>3
<1> HIDE DEF ir, machine, cells
<1>5. Right(reads')
  BY <1>1, <1>4 DEF Right
<1>6. /\ mf'.frame = memory' /\ mf'.regs = mf.regs /\ mf'.slots = mf.slots /\ mf'.map = Nothing
      /\ mf'.loaded = Nothing
  BY <1>1, <1>2, <1>4 DEF Before, Fields
<1>7. ID' = 2 * Len(signature) /\ values' = Nothing /\ DOMAIN locals \subseteq 0..(EndID - 1)
  BY <1>1 DEF Before
<1>8. ID' \in Nat /\ ID' <= EndID
  BY <1>2, <1>7, LoweringAssumption DEF EndID
<1>9. Ready(mf')
  BY <1>1 DEF IInv, Ready, Consistent, Covered, Numbers, ParameterOf
<1>10. ID' <= New(mf')
  <2>1. New(mf') \in Nat /\ \A n \in Numbers(mf') : n < New(mf')
    BY <1>2, <1>9, NumbersBelowNew
  <2>2. CASE Len(signature) = 0
    BY <1>7, <2>1, <2>2
  <2>3. CASE Len(signature) # 0
    <3>1. Len(signature) \in DOMAIN signature
      BY <1>2, <2>3
    <3>2. ParameterOf(Len(signature)) < New(mf')
      BY <2>1, <3>1 DEF Numbers
    <3>3. ParameterOf(Len(signature)) = 2 * (Len(signature) - 1) + 1
      BY DEF ParameterOf
    <3> QED BY <1>2, <1>7, <2>1, <3>2, <3>3
  <2> QED BY <2>2, <2>3
<1>11. DOMAIN values' = {} /\ DOMAIN mf'.map = {} /\ DOMAIN mf'.loaded = {}
  BY <1>6, <1>7 DEF Nothing
<1>12. AllCarried(mf', values') /\ SameVariables(mf', memory')
  BY <1>6, <1>11 DEF AllCarried, SameVariables
<1> QED BY <1>1, <1>5, <1>6, <1>7, <1>8, <1>10, <1>11, <1>12 DEF Body

-----------------------------------------------------------------------------
(* The invariant *)

LEMMA BodyPrimed ==
  ASSUME UNCHANGED <<signature, locals>>, Body(mf', ID', values', memory')
  PROVE  Body(mf, ID, values, memory)'
BY DEF Body, EndID, AllCarried, Carried, SameVariables

LEMMA RightReads ==
  ASSUME Right(reads')
  PROVE  OperandsHoldTheirValues'
BY DEF Right, OperandsHoldTheirValues

LEMMA InitVInv ==
  ASSUME \A sig \in Signatures : StructsFirst(sig), Init
  PROVE  VInv
<1>1. IInv
  BY InitIInv
<1>2. Before /\ OperandsHoldTheirValues
  BY <1>1, InitBefore DEF IInv
<1>3. pc = "parameters"
  BY DEF Init
<1> QED BY <1>1, <1>2, <1>3 DEF VInv

LEMMA NextVInv ==
  ASSUME VInv, [Next]_vars, Admitted = {}
  PROVE  VInv'
<1>1. IInv'
  BY NextIInv DEF VInv
<1>2. CASE HandleFunctionParam
  <2>1. pc = "parameters" /\ pc' = pc /\ reads' = reads
    BY <1>2 DEF HandleFunctionParam
  <2>2. Before'
    BY <1>2, <2>1, ParameterBefore DEF VInv
  <2> QED BY <1>1, <2>1, <2>2 DEF VInv, OperandsHoldTheirValues
<1>3. CASE ParametersHandled
  <2>1. /\ pc = "parameters" /\ pc' = "allocations"
        /\ UNCHANGED <<signature, param, locals, ID, values, memory, mf, reads>>
    BY <1>3 DEF ParametersHandled
  <2>2. Before'
    BY <2>1 DEF VInv, Before, EndID, HasParameter
  <2> QED BY <1>1, <2>1, <2>2 DEF VInv, OperandsHoldTheirValues
<1>4. CASE HandleStackAllocation
  <2>1. pc = "allocations" /\ pc' = pc /\ reads' = reads
    BY <1>4 DEF HandleStackAllocation
  <2>2. Before'
    BY <1>4, <2>1, AllocationBefore DEF VInv
  <2> QED BY <1>1, <2>1, <2>2 DEF VInv, OperandsHoldTheirValues
<1>5. CASE StoreParameters
  <2>1. pc = "allocations" /\ pc' = "body" /\ UNCHANGED <<signature, locals>>
    BY <1>5 DEF StoreParameters
  <2>2. Body(mf', ID', values', memory') /\ Right(reads')
    BY <1>1, <1>5, <2>1, StoreParametersBody DEF VInv
  <2> QED BY <1>1, <2>1, <2>2, BodyPrimed, RightReads DEF VInv
<1>6. CASE LowerInstruction
  <2>1. pc = "body"
    BY <1>6
        DEF LowerInstruction, LowerBinary, LowerUnary, LowerStoreGlobal, LowerBranch, LowerReturn,
           LowerLoad, LowerStore, LowerLoadGlobal, LowerGEP, LowerGEPGlobal, LowerLoadStruct,
           LowerMemoryCopy, LowerVoidCall, LowerCall
  <2>2. IsSignature /\ Ready(mf) /\ Body(mf, ID, values, memory)
    BY <2>1 DEF VInv, IInv
  <2>3. pc' \in {"body", "done"} /\ UNCHANGED <<signature, locals>>
    BY <1>6, <2>2, InstructionGoes
  <2>4. Body(mf', ID', values', memory') /\ Right(reads')
    BY <1>6, <2>2, InstructionBody DEF InBody, AfterInstruction
  <2> QED BY <1>1, <2>3, <2>4, BodyPrimed, RightReads DEF VInv
<1>7. CASE EndStatement
  <2>1. /\ pc = "body" /\ pc' = pc /\ values' = Nothing /\ reads' = {}
        /\ UNCHANGED <<signature, locals, ID, memory, mf>>
    BY <1>7 DEF EndStatement, Unchanged
  <2>2. Extends(values', values) /\ Body(mf, ID, values, memory)
    BY <2>1 DEF Extends, Nothing, VInv
  <2>3. Body(mf', ID', values', memory')
    BY <2>1, <2>2, FewerBody
  <2>4. Right(reads')
    BY <2>1 DEF Right
  <2> QED BY <1>1, <2>1, <2>3, <2>4, BodyPrimed, RightReads DEF VInv
<1>8. CASE UNCHANGED vars
  <2>1. UNCHANGED <<pc, signature, param, locals, ID, values, memory, mf, reads>>
    BY <1>8 DEF vars
  <2>2. Before => Before'
    BY <2>1 DEF Before, EndID, HasParameter
  <2>3. Body(mf, ID, values, memory) => Body(mf, ID, values, memory)'
    BY <2>1, BodyPrimed
  <2> QED BY <1>1, <2>1, <2>2, <2>3 DEF VInv, OperandsHoldTheirValues
<1> QED BY <1>2, <1>3, <1>4, <1>5, <1>6, <1>7, <1>8 DEF Next

\* In every function whose struct parameters come first, and in which no value has the
\* number of the slot of a result, no global that of a slot, and no address of a
\* variable is an operand, each emitted instruction reads in its registers and slots
\* what the instruction of the IR reads (IRtoLLIR::GetMachineOperandFromValue,
\* IRtoLLIR::GetIDFromValue): for all parameters, variables and instructions.
THEOREM OperandsCorrect ==
  ASSUME \A sig \in Signatures : StructsFirst(sig), Admitted = {}
  PROVE  Spec => []OperandsHoldTheirValues
<1>1. Init => VInv
  BY InitVInv
<1>2. VInv /\ [Next]_vars => VInv'
  BY NextVInv
<1>3. VInv => OperandsHoldTheirValues
  BY DEF VInv
<1> QED BY <1>1, <1>2, <1>3, PTL DEF Spec

=============================================================================
