-------------------------- MODULE UserToolsProofs ---------------------------
(***************************************************************************)
(* Proofs about the table of user tools and its copy in flash, for every    *)
(* set of tools, every size of the table and any number of restarts and     *)
(* failed writes: the type invariant, that between calls a restart brings   *)
(* back the table in RAM, that creating a tool loses no other, and that the *)
(* table is a ToolTable.                                                    *)
(*                                                                          *)
(* Flash may have holes when a restart or a failure cuts a save short; what *)
(* matters is OneHole, that there is at most one below a tool, since a save *)
(* of one tool more looks one slot further than the table is long.          *)
(***************************************************************************)
EXTENDS UserTools, SequenceTheorems, NaturalsInduction, WellFoundedInduction, TLAPS

\* TypeOK in parts, for the provers.
TableOK == /\ s_tools \in Seq(Tools) /\ Len(s_tools) <= MaxTools
           /\ previous \in Seq(Tools) /\ Len(previous) <= MaxTools
FlashOK == ut_count \in 0..MaxTools /\ ut \in [Slots -> Tools \cup {NoTool}]
CallOK == /\ request \in {Idle} \cup [call : {"create", "delete"}, tool : Tools]
          /\ at \in 0..(MaxTools + 1) /\ told \subseteq Tools /\ restarts \in 0..MaxRestarts
Booleans == unsaved \in BOOLEAN /\ torn \in BOOLEAN

\* A save changes the length of the table by one.
ByOne == /\ request.call = "create" => /\ Len(s_tools) = Len(previous) + 1
                                       /\ \A i \in DOMAIN previous : s_tools[i] = previous[i]
         /\ request.call = "delete" => Len(s_tools) = Len(previous) - 1
         /\ request = Idle => at = 0

\* What a save has written so far.
Written == request # Idle /\ at > 0 =>
               /\ ut_count = Len(s_tools)
               /\ \A i \in Slots : i < at =>
                      ut[i] = IF i <= Len(s_tools) THEN s_tools[i] ELSE NoTool

\* Below a tool that a load could reach there is at most one empty slot.
OneHole == \A i, j, k \in Slots :
              i < j /\ j < k /\ (k <= ut_count \/ k <= Len(Base) + 1)
                => ut[i] # NoTool \/ ut[j] # NoTool \/ ut[k] = NoTool

\* Before its first write a save leaves flash with the table of before.
Unwritten == at = 0 /\ ~unsaved => Loaded = Base

\* While a tool is created, those not yet written are in slots not yet overwritten.
Ahead == request.call = "create" /\ ~unsaved =>
            \A j \in DOMAIN previous : at <= j =>
               \E p \in Slots : /\ j <= p /\ p <= Len(previous) + 1
                                /\ ut[p] = previous[j]

IInv == /\ TableOK /\ FlashOK /\ CallOK /\ Booleans
        /\ ByOne /\ Written /\ OneHole /\ Unwritten /\ Ahead

-----------------------------------------------------------------------------
(* What a load finds, by induction over the slots *)

\* A set of natural numbers has a smallest member. What holds up to every slot is
\* shown with it below: the set of counterexamples has none.
LEMMA Smallest ==
    ASSUME NEW T, T \subseteq Nat, T # {} PROVE \E n \in T : \A m \in T : n <= m
<1>1. IsWellFoundedOn(OpToRel(<, Nat), Nat) BY NatLessThanWellFounded, Zenon
<1>2. PICK n \in T : \A m \in T : ~ (<<m, n>> \in OpToRel(<, Nat)) BY <1>1, WFMin, Zenon
<1>3. \A m \in T : ~(m < n) BY <1>2 DEF OpToRel
<1> QED BY <1>3

\* A set that holds 0 and the successors of its members holds every number up to N.
LEMMA UpTo ==
    ASSUME NEW N \in Nat, NEW G, 0 \in G, \A n \in 1..N : n - 1 \in G => n \in G
    PROVE  0..N \subseteq G
<1> SUFFICES ASSUME (0..N) \ G # {} PROVE FALSE OBVIOUS
<1>0. (0..N) \ G \subseteq Nat OBVIOUS
<1>1. PICK n \in (0..N) \ G : \A m \in (0..N) \ G : n <= m BY <1>0, Smallest
<1>2. n \in 1..N /\ n - 1 \in 0..N /\ ~(n <= n - 1) BY <1>1
<1>3. n - 1 \in G BY <1>1, <1>2
<1> QED BY <1>1, <1>2, <1>3

\* f holds what is loaded from the first n slots, for each n up to N.
Loads(u, f, N) == /\ f \in [0..N -> Seq(Tools)] /\ f[0] = <<>>
                  /\ \A n \in 1..N : f[n] = IF u[n] = NoTool THEN f[n - 1]
                                            ELSE Append(f[n - 1], u[n])

\* There is such a function up to every slot.
LEMMA LoadsExist ==
    ASSUME NEW u \in [Slots -> Tools \cup {NoTool}]
    PROVE  \A N \in 0..MaxTools : \E f : Loads(u, f, N)
<1> DEFINE G == {N \in 0..MaxTools : \E f : Loads(u, f, N)}
<1> USE UserToolsAssumption
<1>1. 0 \in G
  <2> DEFINE f == [n \in 0..0 |-> <<>>]
  <2>1. f \in [0..0 -> Seq(Tools)] BY EmptySeq
  <2>2. Loads(u, f, 0) BY <2>1 DEF Loads
  <2> QED BY <2>2
<1>2. ASSUME NEW N \in 1..MaxTools, N - 1 \in G PROVE N \in G
  <2>1. PICK f : Loads(u, f, N - 1) BY <1>2
  <2> DEFINE next == IF u[N] = NoTool THEN f[N - 1] ELSE Append(f[N - 1], u[N])
             h == [n \in 0..N |-> IF n = N THEN next ELSE f[n]]
  <2>2. u[N] \in Tools \cup {NoTool} /\ f[N - 1] \in Seq(Tools) /\ N - 1 \in 0..(N - 1)
    BY <2>1 DEF Slots, Loads
  <2>3. next \in Seq(Tools) BY <2>2
  <2>4. h \in [0..N -> Seq(Tools)] BY <2>1, <2>3 DEF Loads
  <2>5. h[0] = <<>> BY <2>1 DEF Loads
  <2>6. ASSUME NEW n \in 1..N PROVE h[n] = IF u[n] = NoTool THEN h[n - 1] ELSE Append(h[n - 1], u[n])
    <3>1. n - 1 \in 0..(N - 1) /\ h[n - 1] = f[n - 1] OBVIOUS
    <3>2. CASE n = N BY <3>1, <3>2
    <3>3. CASE n # N
      <4>1. n \in 1..(N - 1) /\ h[n] = f[n] BY <3>3
      <4> HIDE DEF h
      <4> QED BY <2>1, <3>1, <4>1 DEF Loads
    <3> QED BY <3>2, <3>3
  <2> HIDE DEF h
  <2>7. Loads(u, h, N) BY <2>4, <2>5, <2>6 DEF Loads
  <2> QED BY <2>7
<1> HIDE DEF G
<1>3. 0..MaxTools \subseteq G BY <1>1, <1>2, UpTo
<1> QED BY <1>3 DEF G

\* The recursive function is well defined, and is what is loaded.
LEMMA ToolsInDef ==
    ASSUME NEW u \in [Slots -> Tools \cup {NoTool}]
    PROVE  Loads(u, ToolsIn(u), MaxTools)
<1> USE UserToolsAssumption
<1> DEFINE Step(f) == [n \in 0..MaxTools |->
                         IF n = 0 THEN <<>>
                         ELSE IF u[n] = NoTool THEN f[n - 1] ELSE Append(f[n - 1], u[n])]
           L == ToolsIn(u)
           G == {n \in 0..MaxTools : L[n] \in Seq(Tools)}
<1>1. PICK g : Loads(u, g, MaxTools) BY LoadsExist
<1>2. g = Step(g)
  <2>1. g \in [0..MaxTools -> Seq(Tools)] BY <1>1 DEF Loads
  <2>2. g[0] = Step(g)[0] BY <1>1 DEF Loads
  <2>3. \A n \in 1..MaxTools : n # 0 /\ g[n] = Step(g)[n] BY <1>1 DEF Loads
  <2>4. Step(g) = [n \in 0..MaxTools |-> Step(g)[n]] OBVIOUS
  <2> HIDE DEF Step
  <2>5. \A n \in 0..MaxTools : g[n] = Step(g)[n] BY <2>2, <2>3
  <2> QED BY <2>1, <2>4, <2>5
<1>3. L = CHOOSE f : f = Step(f) BY DEF ToolsIn
<1>4. L = Step(L)
  <2> HIDE DEF Step, L
  <2> QED BY <1>2, <1>3
<1> HIDE DEF L
<1>5. L[0] = <<>> BY <1>4
<1>6. \A n \in 1..MaxTools : L[n] = IF u[n] = NoTool THEN L[n - 1] ELSE Append(L[n - 1], u[n])
  <2> TAKE n \in 1..MaxTools
  <2>1. n \in 0..MaxTools /\ n # 0 OBVIOUS
  <2>2. Step(L)[n] = IF n = 0 THEN <<>>
                     ELSE IF u[n] = NoTool THEN L[n - 1] ELSE Append(L[n - 1], u[n])
    BY <2>1
  <2> HIDE DEF Step
  <2> QED BY <1>4, <2>1, <2>2
<1>7. 0..MaxTools \subseteq G
  <2>1. 0 \in G
    <3>1. <<>> \in Seq(Tools) /\ 0 \in 0..MaxTools OBVIOUS
    <3> QED BY <1>5, <3>1, Zenon
  <2>2. ASSUME NEW n \in 1..MaxTools, n - 1 \in G PROVE n \in G
    <3>1. u[n] \in Tools \cup {NoTool} /\ L[n - 1] \in Seq(Tools) BY <2>2 DEF Slots
    <3>2. u[n] # NoTool => Append(L[n - 1], u[n]) \in Seq(Tools) BY <3>1
    <3>3. L[n] \in Seq(Tools) /\ n \in 0..MaxTools
      <4>1. n \in 0..MaxTools OBVIOUS
      <4>2. L[n] = IF u[n] = NoTool THEN L[n - 1] ELSE Append(L[n - 1], u[n]) BY <1>6
      <4> QED BY <3>1, <3>2, <4>1, <4>2, Zenon
    <3> QED BY <3>3
  <2> HIDE DEF G
  <2> QED BY <2>1, <2>2, UpTo
<1>8. L \in [0..MaxTools -> Seq(Tools)]
  <2>1. L = [n \in 0..MaxTools |-> L[n]] BY <1>4
  <2> QED BY <1>7, <2>1
<1> QED BY <1>5, <1>6, <1>8 DEF Loads, L

\* What is loaded with one slot more: the same, or one tool more.
LEMMA OneSlotMore ==
    ASSUME NEW u \in [Slots -> Tools \cup {NoTool}], NEW n \in 1..MaxTools
    PROVE  LET L == ToolsIn(u)
           IN  /\ n \in Nat /\ n - 1 \in 0..MaxTools
               /\ L[n] \in Seq(Tools) /\ L[n - 1] \in Seq(Tools)
               /\ u[n] = NoTool => L[n] = L[n - 1]
               /\ u[n] # NoTool =>
                    /\ u[n] \in Tools
                    /\ Len(L[n]) = Len(L[n - 1]) + 1 /\ L[n][Len(L[n - 1]) + 1] = u[n]
                    /\ \A j \in 1..Len(L[n - 1]) : L[n][j] = L[n - 1][j]
<1> DEFINE L == ToolsIn(u)
<1>1. Loads(u, L, MaxTools) BY ToolsInDef
<1>2. /\ n \in Nat /\ n \in 0..MaxTools /\ n - 1 \in 0..MaxTools
      /\ u[n] \in Tools \cup {NoTool}
  BY UserToolsAssumption DEF Slots
<1> HIDE DEF L
<1>3. L[n] \in Seq(Tools) /\ L[n - 1] \in Seq(Tools) BY <1>1, <1>2 DEF Loads
<1>4. L[n] = IF u[n] = NoTool THEN L[n - 1] ELSE Append(L[n - 1], u[n]) BY <1>1 DEF Loads
<1>5. ASSUME u[n] # NoTool
      PROVE  /\ u[n] \in Tools
             /\ Len(L[n]) = Len(L[n - 1]) + 1 /\ L[n][Len(L[n - 1]) + 1] = u[n]
             /\ \A j \in 1..Len(L[n - 1]) : L[n][j] = L[n - 1][j]
  <2>1. u[n] \in Tools /\ L[n] = Append(L[n - 1], u[n]) BY <1>2, <1>4, <1>5
  <2> QED BY <1>3, <2>1, AppendProperties
<1>6. u[n] = NoTool => L[n] = L[n - 1] BY <1>4
<1> QED BY <1>2, <1>3, <1>5, <1>6 DEF L

\* What is loaded from the first n slots is a sequence of tools.
LEMMA LoadedTools ==
    ASSUME NEW u \in [Slots -> Tools \cup {NoTool}]
    PROVE  /\ ToolsIn(u)[0] = <<>>
           /\ \A n \in 0..MaxTools : /\ ToolsIn(u)[n] \in Seq(Tools)
                                     /\ Len(ToolsIn(u)[n]) \in Nat
<1>1. Loads(u, ToolsIn(u), MaxTools) BY ToolsInDef
<1>2. \A n \in 0..MaxTools : ToolsIn(u)[n] \in Seq(Tools) BY <1>1 DEF Loads
<1>3. ToolsIn(u)[0] = <<>> BY <1>1 DEF Loads
<1>4. \A n \in 0..MaxTools : Len(ToolsIn(u)[n]) \in Nat BY <1>2, LenProperties
<1> QED BY <1>2, <1>3, <1>4

\* Each tool that is loaded is in a slot no lower than its place.
LEMMA LoadedAreInSlots ==
    ASSUME NEW u \in [Slots -> Tools \cup {NoTool}], NEW n \in 0..MaxTools
    PROVE  /\ Len(ToolsIn(u)[n]) <= n
           /\ \A j \in 1..Len(ToolsIn(u)[n]) : \E p \in j..n : u[p] = ToolsIn(u)[n][j]
<1> DEFINE L == ToolsIn(u)
           G == {m \in 0..MaxTools :
                   /\ Len(L[m]) <= m
                   /\ \A j \in 1..Len(L[m]) : \E p \in j..m : u[p] = L[m][j]}
<1>1. 0 \in G
  <2>1. L[0] = <<>> /\ Len(<<>>) = 0 /\ 0 \in 0..MaxTools
    BY LoadedTools, UserToolsAssumption
  <2> HIDE DEF L
  <2> QED BY <2>1
<1>2. ASSUME NEW m \in 1..MaxTools, m - 1 \in G PROVE m \in G
  <2>1. /\ m \in Nat /\ L[m] \in Seq(Tools) /\ L[m - 1] \in Seq(Tools)
        /\ u[m] = NoTool => L[m] = L[m - 1]
        /\ u[m] # NoTool =>
             /\ Len(L[m]) = Len(L[m - 1]) + 1 /\ L[m][Len(L[m - 1]) + 1] = u[m]
             /\ \A j \in 1..Len(L[m - 1]) : L[m][j] = L[m - 1][j]
    BY OneSlotMore
  <2>2. /\ Len(L[m - 1]) <= m - 1
        /\ \A j \in 1..Len(L[m - 1]) : \E p \in j..(m - 1) : u[p] = L[m - 1][j]
    BY <1>2
  <2> HIDE DEF L
  <2>3. Len(L[m]) \in Nat /\ Len(L[m - 1]) \in Nat BY <2>1, LenProperties
  <2>4. Len(L[m]) <= m BY <2>1, <2>2, <2>3
  <2>5. ASSUME NEW j \in 1..Len(L[m]) PROVE \E p \in j..m : u[p] = L[m][j]
    <3>1. CASE j \in 1..Len(L[m - 1])
      <4>1. L[m][j] = L[m - 1][j] BY <2>1, <3>1
      <4>2. PICK p \in j..(m - 1) : u[p] = L[m - 1][j] BY <2>2, <3>1
      <4>3. p \in j..m BY <2>1, <4>2
      <4> QED BY <4>1, <4>2, <4>3
    <3>2. CASE j \notin 1..Len(L[m - 1])
      <4>1. u[m] # NoTool BY <2>1, <3>2
      <4>2. j = Len(L[m - 1]) + 1 /\ j \in Nat BY <2>1, <2>3, <3>2, <4>1
      <4>3. m \in j..m /\ u[m] = L[m][j] BY <2>1, <2>2, <2>3, <4>1, <4>2
      <4> QED BY <4>3
    <3> QED BY <3>1, <3>2
  <2> QED BY <2>4, <2>5
<1> HIDE DEF G
<1>3. 0..MaxTools \subseteq G BY <1>1, <1>2, UpTo, UserToolsAssumption
<1> QED BY <1>3 DEF G

\* Each tool in the first n slots is loaded.
LEMMA SlotsAreLoaded ==
    ASSUME NEW u \in [Slots -> Tools \cup {NoTool}], NEW n \in 0..MaxTools
    PROVE  \A p \in 1..n : u[p] # NoTool =>
              \E j \in 1..Len(ToolsIn(u)[n]) : ToolsIn(u)[n][j] = u[p]
<1> DEFINE L == ToolsIn(u)
           G == {m \in 0..MaxTools :
                   \A p \in 1..m : u[p] # NoTool => \E j \in 1..Len(L[m]) : L[m][j] = u[p]}
<1>1. 0 \in G BY UserToolsAssumption
<1>2. ASSUME NEW m \in 1..MaxTools, m - 1 \in G PROVE m \in G
  <2>1. /\ m \in Nat /\ L[m] \in Seq(Tools) /\ L[m - 1] \in Seq(Tools)
        /\ u[m] = NoTool => L[m] = L[m - 1]
        /\ u[m] # NoTool =>
             /\ Len(L[m]) = Len(L[m - 1]) + 1 /\ L[m][Len(L[m - 1]) + 1] = u[m]
             /\ \A j \in 1..Len(L[m - 1]) : L[m][j] = L[m - 1][j]
    BY OneSlotMore
  <2>2. \A p \in 1..(m - 1) : u[p] # NoTool => \E j \in 1..Len(L[m - 1]) : L[m - 1][j] = u[p]
    BY <1>2
  <2> HIDE DEF L
  <2>3. Len(L[m]) \in Nat /\ Len(L[m - 1]) \in Nat BY <2>1, LenProperties
  <2>4. ASSUME NEW p \in 1..m, u[p] # NoTool PROVE \E j \in 1..Len(L[m]) : L[m][j] = u[p]
    <3>1. CASE p = m
      <4>1. Len(L[m - 1]) + 1 \in 1..Len(L[m]) BY <2>1, <2>3, <2>4, <3>1
      <4> QED BY <2>1, <2>4, <3>1, <4>1
    <3>2. CASE p # m
      <4>1. p \in 1..(m - 1) BY <2>1, <3>2
      <4>2. PICK j \in 1..Len(L[m - 1]) : L[m - 1][j] = u[p] BY <2>2, <2>4, <4>1
      <4>3. j \in 1..Len(L[m]) /\ L[m][j] = u[p] BY <2>1, <2>3, <4>2
      <4> QED BY <4>3
    <3> QED BY <3>1, <3>2
  <2> QED BY <2>4
<1> HIDE DEF G
<1>3. 0..MaxTools \subseteq G BY <1>1, <1>2, UpTo, UserToolsAssumption
<1> QED BY <1>3 DEF G

\* Slots without a hole are loaded as they are.
LEMMA FullSlots ==
    ASSUME NEW u \in [Slots -> Tools \cup {NoTool}], NEW n \in 0..MaxTools,
           \A i \in 1..n : u[i] # NoTool
    PROVE  Len(ToolsIn(u)[n]) = n /\ \A i \in 1..n : ToolsIn(u)[n][i] = u[i]
<1> DEFINE L == ToolsIn(u)
           G == {m \in 0..MaxTools :
                   (\A i \in 1..m : u[i] # NoTool)
                     => Len(L[m]) = m /\ \A i \in 1..m : L[m][i] = u[i]}
<1>1. 0 \in G
  <2>1. L[0] = <<>> /\ Len(<<>>) = 0 /\ 0 \in 0..MaxTools
    BY LoadedTools, UserToolsAssumption
  <2> HIDE DEF L
  <2> QED BY <2>1
<1>2. ASSUME NEW m \in 1..MaxTools, m - 1 \in G PROVE m \in G
  <2>1. /\ m \in Nat /\ L[m] \in Seq(Tools) /\ L[m - 1] \in Seq(Tools)
        /\ u[m] # NoTool =>
             /\ Len(L[m]) = Len(L[m - 1]) + 1 /\ L[m][Len(L[m - 1]) + 1] = u[m]
             /\ \A j \in 1..Len(L[m - 1]) : L[m][j] = L[m - 1][j]
    BY OneSlotMore
  <2>2. (\A i \in 1..(m - 1) : u[i] # NoTool)
          => Len(L[m - 1]) = m - 1 /\ \A i \in 1..(m - 1) : L[m - 1][i] = u[i]
    BY <1>2
  <2> HIDE DEF L
  <2>3. ASSUME \A i \in 1..m : u[i] # NoTool
        PROVE  Len(L[m]) = m /\ \A i \in 1..m : L[m][i] = u[i]
    <3>1. u[m] # NoTool /\ \A i \in 1..(m - 1) : u[i] # NoTool BY <2>1, <2>3
    <3>2. Len(L[m - 1]) = m - 1 /\ \A i \in 1..(m - 1) : L[m - 1][i] = u[i] BY <2>2, <3>1
    <3>3. Len(L[m]) = m /\ L[m][m] = u[m] BY <2>1, <3>1, <3>2
    <3>4. \A i \in 1..(m - 1) : L[m][i] = u[i] BY <2>1, <3>1, <3>2
    <3> QED BY <2>1, <3>3, <3>4
  <2> QED BY <2>3
<1> HIDE DEF G
<1>3. 0..MaxTools \subseteq G BY <1>1, <1>2, UpTo, UserToolsAssumption
<1> QED BY <1>3 DEF G

\* Of n slots at least n - 1 are loaded, if at most one is empty; and so a tool with
\* at most one hole below it is in a slot no further than one behind those loaded.
LEMMA OneHoleLoaded ==
    ASSUME NEW u \in [Slots -> Tools \cup {NoTool}], NEW n \in 0..MaxTools
    PROVE  /\ (\A i, j \in 1..n : i < j => u[i] # NoTool \/ u[j] # NoTool)
                => n - 1 <= Len(ToolsIn(u)[n])
           /\ \A p \in 1..n :
                /\ u[p] # NoTool
                /\ \A i, j \in 1..(p - 1) : i < j => u[i] # NoTool \/ u[j] # NoTool
                => p <= Len(ToolsIn(u)[n]) + 1
<1> DEFINE L == ToolsIn(u)
           One(m) == \A i, j \in 1..m : i < j => u[i] # NoTool \/ u[j] # NoTool
           G == {m \in 0..MaxTools :
                   /\ One(m) => m - 1 <= Len(L[m])
                   /\ \A p \in 1..m : u[p] # NoTool /\ One(p - 1) => p <= Len(L[m]) + 1}
<1>1. 0 \in G
  <2>1. L[0] = <<>> /\ Len(<<>>) = 0 /\ 0 \in 0..MaxTools
    BY LoadedTools, UserToolsAssumption
  <2> HIDE DEF L, One
  <2> QED BY <2>1
<1>2. ASSUME NEW m \in 1..MaxTools, m - 1 \in G PROVE m \in G
  <2>1. /\ m \in Nat /\ L[m] \in Seq(Tools) /\ L[m - 1] \in Seq(Tools)
        /\ u[m] = NoTool => L[m] = L[m - 1]
        /\ u[m] # NoTool => Len(L[m]) = Len(L[m - 1]) + 1
    BY OneSlotMore
  <2>2. Len(L[m]) \in Nat /\ Len(L[m - 1]) \in Nat BY <2>1, LenProperties
  <2>3. (\A i \in 1..(m - 1) : u[i] # NoTool) => Len(L[m - 1]) = m - 1
    <3>1. m - 1 \in 0..MaxTools BY UserToolsAssumption
    <3> QED BY <3>1, FullSlots
  <2>4. /\ One(m - 1) => m - 2 <= Len(L[m - 1])
        /\ \A p \in 1..(m - 1) : u[p] # NoTool /\ One(p - 1) => p <= Len(L[m - 1]) + 1
    BY <1>2, <2>1, <2>2
  <2>5. One(m) => One(m - 1) BY <2>1
  <2>6. One(m) /\ u[m] = NoTool => \A i \in 1..(m - 1) : u[i] # NoTool BY <2>1
  <2> HIDE DEF L, One
  <2>7. One(m) => m - 1 <= Len(L[m])
    <3>1. CASE u[m] = NoTool BY <2>1, <2>2, <2>3, <2>6, <3>1
    <3>2. CASE u[m] # NoTool BY <2>1, <2>2, <2>4, <2>5, <3>2
    <3> QED BY <3>1, <3>2
  <2>8. ASSUME NEW p \in 1..m, u[p] # NoTool, One(p - 1) PROVE p <= Len(L[m]) + 1
    <3>1. CASE p = m BY <2>1, <2>2, <2>4, <2>8, <3>1
    <3>2. CASE p # m
      <4>1. p \in 1..(m - 1) BY <2>1, <3>2
      <4>2. p <= Len(L[m - 1]) + 1 BY <2>4, <2>8, <4>1
      <4> QED BY <2>1, <2>2, <4>1, <4>2
    <3> QED BY <3>1, <3>2
  <2> QED BY <2>7, <2>8
<1> HIDE DEF G
<1>3. 0..MaxTools \subseteq G BY <1>1, <1>2, UpTo, UserToolsAssumption
<1> QED BY <1>3 DEF G

\* A hole is not loaded.
LEMMA HoleNotLoaded ==
    ASSUME NEW u \in [Slots -> Tools \cup {NoTool}], NEW n \in 0..MaxTools,
           NEW i \in 1..n, u[i] = NoTool
    PROVE  Len(ToolsIn(u)[n]) < n
<1> DEFINE L == ToolsIn(u)
           G == {m \in 0..MaxTools : i <= m => Len(L[m]) < m}
<1>1. 0 \in G BY UserToolsAssumption
<1>2. ASSUME NEW m \in 1..MaxTools, m - 1 \in G PROVE m \in G
  <2>1. /\ m \in Nat /\ m - 1 \in 0..MaxTools /\ L[m] \in Seq(Tools) /\ L[m - 1] \in Seq(Tools)
        /\ u[m] = NoTool => L[m] = L[m - 1]
        /\ u[m] # NoTool => Len(L[m]) = Len(L[m - 1]) + 1
    BY OneSlotMore
  <2>2. Len(L[m - 1]) <= m - 1 BY <2>1, LoadedAreInSlots
  <2>3. i <= m - 1 => Len(L[m - 1]) < m - 1 BY <1>2
  <2>4. Len(L[m]) \in Nat /\ Len(L[m - 1]) \in Nat BY <2>1, LenProperties
  <2> HIDE DEF L
  <2>5. i <= m => Len(L[m]) < m
    <3>1. CASE u[m] = NoTool BY <2>1, <2>2, <2>4, <3>1
    <3>2. CASE u[m] # NoTool
      <4>1. i # m BY <3>2
      <4> QED BY <2>1, <2>3, <2>4, <3>2, <4>1
    <3> QED BY <3>1, <3>2
  <2> QED BY <2>5
<1> HIDE DEF G
<1>3. 0..MaxTools \subseteq G BY <1>1, <1>2, UpTo, UserToolsAssumption
<1> QED BY <1>3 DEF G

-----------------------------------------------------------------------------
(* The invariant *)

\* The initial state satisfies the invariant.
LEMMA InitIInv == Init => IInv
<1> SUFFICES ASSUME Init PROVE IInv OBVIOUS
<1> USE UserToolsAssumption DEF Init, Idle
<1>1. TableOK /\ FlashOK /\ CallOK BY DEF TableOK, FlashOK, CallOK
<1>2. Booleans BY DEF Booleans
<1>3. ByOne /\ Written /\ Ahead BY DEF ByOne, Written, Ahead
<1>4. OneHole BY DEF OneHole
<1>5. Unwritten
  <2>1. ToolsIn(ut)[0] = <<>> BY LoadedTools
  <2> QED BY <2>1 DEF Unwritten, Base, Loaded
<1> QED BY <1>1, <1>2, <1>3, <1>4, <1>5 DEF IInv

\* A call is none, a creation or a deletion.
LEMMA Calls ==
    ASSUME CallOK
    PROVE  /\ request = Idle <=> request.call = "none"
           /\ request # Idle => request.call \in {"create", "delete"} /\ request.tool \in Tools
BY DEF CallOK, Idle

\* What is loaded fits the table.
LEMMA LoadedFits ==
    ASSUME IInv
    PROVE  /\ Loaded \in Seq(Tools) /\ Len(Loaded) \in Nat /\ Len(Loaded) <= ut_count
           /\ Len(Loaded) <= MaxTools /\ Range(Loaded) \subseteq Tools
<1>1. ut \in [Slots -> Tools \cup {NoTool}] /\ ut_count \in 0..MaxTools
  BY DEF IInv, FlashOK
<1>2. Loaded \in Seq(Tools) /\ Len(Loaded) \in Nat BY <1>1, LoadedTools DEF Loaded
<1>3. Len(Loaded) <= ut_count BY <1>1, LoadedAreInSlots DEF Loaded
<1>4. Range(Loaded) \subseteq Tools BY <1>2 DEF Range
<1> QED BY <1>1, <1>2, <1>3, <1>4, UserToolsAssumption

\* Between calls each tool of the table is in a slot no lower than its place and at most
\* one further than the table is long, unless the last save failed.
LEMMA ToolsAhead ==
    ASSUME IInv, request = Idle, ~unsaved
    PROVE  \A j \in DOMAIN s_tools :
              \E p \in Slots : j <= p /\ p <= Len(s_tools) + 1 /\ ut[p] = s_tools[j]
<1>1. ut \in [Slots -> Tools \cup {NoTool}] /\ ut_count \in 0..MaxTools /\ MaxTools \in Nat
  BY UserToolsAssumption DEF IInv, FlashOK
<1>2. Loaded = s_tools BY DEF IInv, ByOne, Unwritten, Base, Calls
<1>3. TAKE j \in DOMAIN s_tools
<1>4. j \in 1..Len(Loaded) /\ s_tools[j] \in Tools /\ j \in Nat
  BY <1>2 DEF IInv, TableOK
<1>5. PICK p \in j..ut_count : ut[p] = Loaded[j] BY <1>1, <1>4, LoadedAreInSlots DEF Loaded
<1>6. p \in Slots /\ p \in 1..ut_count /\ ut[p] = s_tools[j] /\ ut[p] # NoTool
  BY <1>1, <1>2, <1>4, <1>5, UserToolsAssumption DEF Slots
<1>7. \A a, b \in 1..(p - 1) : a < b => ut[a] # NoTool \/ ut[b] # NoTool
  BY <1>1, <1>6 DEF IInv, OneHole, Slots
<1>8. p <= Len(Loaded) + 1 BY <1>1, <1>6, <1>7, OneHoleLoaded DEF Loaded
<1> QED BY <1>2, <1>5, <1>6, <1>8

\* A call begins: the table changes in RAM, flash does not.
LEMMA CreateKeeps == ASSUME IInv, NEW t \in Tools, user_tools_create(t) PROVE IInv'
<1> USE UserToolsAssumption DEF user_tools_create, flash
<1>1. /\ s_tools \in Seq(Tools) /\ Len(s_tools) < MaxTools /\ s_tools' = Append(s_tools, t)
      /\ Len(s_tools') = Len(s_tools) + 1
      /\ \A i \in DOMAIN s_tools : s_tools'[i] = s_tools[i]
  BY DEF IInv, TableOK
<1>2. request'.call = "create" /\ request' # Idle /\ at' = 0 /\ previous' = s_tools
      /\ Base' = Base /\ Base = s_tools
  BY DEF Idle, Base
<1>3. TableOK' BY <1>1, <1>2 DEF TableOK, IInv
<1>4. FlashOK' /\ CallOK' BY DEF IInv, FlashOK, CallOK
<1>5. Booleans' BY DEF IInv, Booleans
<1>6. ByOne' /\ Written' BY <1>1, <1>2 DEF ByOne, Written
<1>7. OneHole' BY <1>2 DEF IInv, OneHole
<1>8. Unwritten' BY <1>2 DEF IInv, Unwritten, Loaded, ByOne
<1>9. Ahead' BY <1>2, ToolsAhead DEF Ahead
<1> QED BY <1>3, <1>4, <1>5, <1>6, <1>7, <1>8, <1>9 DEF IInv

\* The same for a deletion.
LEMMA DeleteKeeps == ASSUME IInv, NEW t \in Tools, user_tools_delete(t) PROVE IInv'
<1> USE UserToolsAssumption DEF user_tools_delete, flash
<1>1. PICK i \in DOMAIN s_tools : s_tools' = RemoveAt(s_tools, i) OBVIOUS
<1>2. s_tools' \in Seq(Tools) /\ Len(s_tools') = Len(s_tools) - 1
  <2> DEFINE before == SubSeq(s_tools, 1, i - 1)
             behind == SubSeq(s_tools, i + 1, Len(s_tools))
  <2>1. s_tools \in Seq(Tools) /\ i \in 1..Len(s_tools) BY DEF IInv, TableOK
  <2>2. /\ before \in Seq(Tools) /\ Len(before) = i - 1
        /\ behind \in Seq(Tools) /\ Len(behind) = Len(s_tools) - i
    BY <2>1
  <2>3. s_tools' = before \o behind BY <1>1 DEF RemoveAt
  <2>4. Len(s_tools) \in Nat BY <2>1, LenProperties
  <2> HIDE DEF user_tools_delete, before, behind
  <2>5. before \o behind \in Seq(Tools) /\ Len(before \o behind) = Len(before) + Len(behind)
    BY <2>2, ConcatProperties
  <2> QED BY <2>1, <2>2, <2>3, <2>4, <2>5
<1>3. request'.call = "delete" /\ request' # Idle /\ at' = 0 /\ previous' = s_tools
      /\ Base' = Base /\ Base = s_tools
  BY DEF Idle, Base
<1>4. TableOK' BY <1>2, <1>3 DEF TableOK, IInv
<1>5. FlashOK' /\ CallOK' BY DEF IInv, FlashOK, CallOK
<1>6. Booleans' BY DEF IInv, Booleans
<1>7. ByOne' /\ Written' /\ Ahead' BY <1>2, <1>3 DEF ByOne, Written, Ahead
<1>8. OneHole' BY <1>3 DEF IInv, OneHole
<1>9. Unwritten' BY <1>3 DEF IInv, Unwritten, Loaded, ByOne
<1> QED BY <1>4, <1>5, <1>6, <1>7, <1>8, <1>9 DEF IInv

\* What holds during a save: the table in RAM has tools only, and the lengths fit.
LEMMA InSave ==
    ASSUME IInv, request # Idle
    PROVE  /\ \A i \in DOMAIN s_tools : s_tools[i] \in Tools /\ s_tools[i] # NoTool
           /\ DOMAIN s_tools = 1..Len(s_tools) /\ DOMAIN previous = 1..Len(previous)
           /\ Len(s_tools) \in Nat /\ Len(previous) \in Nat /\ Base = previous
           /\ Len(s_tools) <= Len(previous) + 1 /\ Len(previous) <= Len(s_tools) + 1
BY UserToolsAssumption, Calls DEF IInv, TableOK, ByOne, Base

\* The count is written first.
LEMMA SaveCountKeeps == ASSUME IInv, SaveCount PROVE IInv'
<1> USE UserToolsAssumption DEF SaveCount, Saving
<1>1. request # Idle /\ at = 0 /\ at' = 1 /\ Base' = Base BY DEF Base
<1>2. ut_count' = Len(s_tools) /\ Len(s_tools) \in 0..MaxTools BY DEF IInv, TableOK
<1>3. TableOK' /\ FlashOK' /\ CallOK' BY <1>2 DEF IInv, TableOK, FlashOK, CallOK
<1>4. Booleans' BY DEF IInv, Booleans
<1>5. ByOne' BY <1>1 DEF IInv, ByOne
<1>6. Written' BY <1>2 DEF Written, Slots
<1>7. OneHole' BY <1>1, <1>2, InSave DEF IInv, OneHole, Slots
<1>8. Unwritten' BY DEF Unwritten
<1>9. Ahead'
  <2>1. \A j \in DOMAIN previous : at <= j BY <1>1, InSave
  <2> QED BY <2>1 DEF IInv, Ahead
<1> QED BY <1>3, <1>4, <1>5, <1>6, <1>7, <1>8, <1>9 DEF IInv

\* Then slot after slot with the table, from the first.
LEMMA SaveSlotKeeps == ASSUME IInv, SaveSlot PROVE IInv'
<1> USE UserToolsAssumption DEF SaveSlot, Saving
<1>1. /\ request # Idle /\ at \in 1..Len(s_tools) /\ at' = at + 1 /\ Base' = Base
      /\ at \in Slots /\ at \in Nat /\ s_tools[at] \in Tools /\ s_tools[at] # NoTool
  BY InSave DEF Base, Slots, IInv, TableOK
<1>2. /\ ut \in [Slots -> Tools \cup {NoTool}] /\ ut' = [ut EXCEPT ![at] = s_tools[at]]
      /\ ut' \in [Slots -> Tools \cup {NoTool}]
      /\ ut'[at] = s_tools[at] /\ \A i \in Slots : i # at => ut'[i] = ut[i]
  BY <1>1 DEF IInv, FlashOK
<1>3. TableOK' /\ FlashOK' BY <1>2 DEF IInv, TableOK, FlashOK
<1>4. CallOK' BY <1>1 DEF IInv, CallOK, TableOK
<1>5. Booleans' BY DEF IInv, Booleans
<1>6. ByOne' BY <1>1 DEF IInv, ByOne
<1>7. Written' BY <1>1, <1>2 DEF IInv, Written, Slots
<1>8. OneHole'
  <2> SUFFICES ASSUME NEW i \in Slots, NEW j \in Slots, NEW k \in Slots, i < j, j < k,
                      k <= ut_count \/ k <= Len(Base) + 1,
                      ut'[i] = NoTool, ut'[j] = NoTool, ut'[k] # NoTool
               PROVE  FALSE
    BY <1>1 DEF OneHole
  <2>1. i # at /\ j # at /\ ut[i] = NoTool /\ ut[j] = NoTool BY <1>1, <1>2
  <2>2. CASE k = at
    <3>1. ut[i] = s_tools[i] /\ i \in DOMAIN s_tools
      BY <1>1, <2>2, InSave DEF IInv, Written, Slots
    <3> QED BY <1>1, <2>1, <3>1, InSave
  <2>3. CASE k # at BY <1>2, <2>1, <2>3 DEF IInv, OneHole
  <2> QED BY <2>2, <2>3
<1>9. Unwritten' BY <1>1 DEF Unwritten
<1>10. Ahead'
  <2> SUFFICES ASSUME request.call = "create", ~unsaved,
                      NEW j \in DOMAIN previous, at + 1 <= j
               PROVE  \E p \in Slots : j <= p /\ p <= Len(previous) + 1 /\ ut'[p] = previous[j]
    BY <1>1 DEF Ahead
  <2>1. j \in Nat /\ at <= j BY <1>1, InSave
  <2>2. PICK p \in Slots : j <= p /\ p <= Len(previous) + 1 /\ ut[p] = previous[j]
    BY <2>1 DEF IInv, Ahead
  <2>3. p # at BY <1>1, <2>1, <2>2 DEF Slots
  <2> QED BY <1>2, <2>2, <2>3
<1> QED BY <1>3, <1>4, <1>5, <1>6, <1>7, <1>8, <1>9, <1>10 DEF IInv

\* Then the slots behind the table are erased.
LEMMA EraseSlotKeeps == ASSUME IInv, EraseSlot PROVE IInv'
<1> USE UserToolsAssumption DEF EraseSlot, Saving
<1>1. request # Idle /\ Len(s_tools) \in Nat /\ Base' = Base BY InSave DEF Base
<1>2. at \in Nat /\ at > Len(s_tools) /\ at \in Slots /\ at' = at + 1 /\ at' \in 0..(MaxTools + 1)
  BY <1>1 DEF Slots
<1>3. /\ ut \in [Slots -> Tools \cup {NoTool}] /\ ut' = [ut EXCEPT ![at] = NoTool]
      /\ ut' \in [Slots -> Tools \cup {NoTool}]
      /\ ut'[at] = NoTool /\ \A i \in Slots : i # at => ut'[i] = ut[i]
  BY <1>2 DEF IInv, FlashOK
<1>4. TableOK' /\ FlashOK' BY <1>3 DEF IInv, TableOK, FlashOK
<1>5. CallOK' BY <1>2 DEF IInv, CallOK
<1>6. Booleans' BY DEF IInv, Booleans
<1>7. ByOne' BY <1>1 DEF IInv, ByOne
<1>8. Written' BY <1>1, <1>2, <1>3 DEF IInv, Written, Slots
<1>9. OneHole'
  <2> SUFFICES ASSUME NEW i \in Slots, NEW j \in Slots, NEW k \in Slots, i < j, j < k,
                      k <= ut_count \/ k <= Len(Base) + 1,
                      ut'[i] = NoTool
               PROVE  FALSE
    BY <1>1 DEF OneHole
  <2>1. ut_count = Len(s_tools) BY <1>1, <1>2 DEF IInv, Written
  <2>2. i \in Nat /\ i <= Len(s_tools) /\ i # at BY <1>1, <1>2, <2>1, InSave DEF Slots
  <2>3. ut'[i] = s_tools[i] BY <1>1, <1>2, <1>3, <2>2 DEF IInv, Written
  <2>4. i \in DOMAIN s_tools BY <1>1, <2>2, InSave DEF Slots
  <2> QED BY <1>1, <2>3, <2>4, InSave
<1>10. Unwritten' BY <1>2 DEF Unwritten
<1>11. Ahead'
  <2>1. request.call = "create" => \A j \in DOMAIN previous : j <= Len(previous) /\ j \in Nat
    BY <1>1, InSave
  <2>2. request.call = "create" => at > Len(previous) + 1 BY <1>2, <1>1, InSave DEF IInv, ByOne
  <2>3. Len(previous) \in Nat BY <1>1, InSave
  <2>4. request.call = "create" => \A j \in DOMAIN previous : ~(at + 1 <= j)
    BY <1>2, <2>1, <2>2, <2>3
  <2> QED BY <1>2, <2>4 DEF Ahead
<1> QED BY <1>4, <1>5, <1>6, <1>7, <1>8, <1>9, <1>10, <1>11 DEF IInv

\* When all is written, flash holds the table.
LEMMA SavedIsLoaded ==
    ASSUME IInv, request # Idle, at = MaxTools + 1
    PROVE  Loaded = s_tools
<1>1. /\ ut \in [Slots -> Tools \cup {NoTool}] /\ ut_count \in 0..MaxTools /\ MaxTools \in Nat
      /\ s_tools \in Seq(Tools)
  BY UserToolsAssumption DEF IInv, FlashOK, TableOK
<1>2. ut_count = Len(s_tools) BY UserToolsAssumption DEF IInv, Written
<1>3. \A i \in 1..ut_count : ut[i] = s_tools[i] /\ ut[i] # NoTool
  <2> TAKE i \in 1..ut_count
  <2>1. i \in Slots /\ i < at /\ i <= Len(s_tools) /\ i \in DOMAIN s_tools
    BY <1>1, <1>2, InSave DEF Slots
  <2>2. ut[i] = s_tools[i] BY <2>1, UserToolsAssumption DEF IInv, Written
  <2> QED BY <2>1, <2>2, InSave
<1>4. Len(Loaded) = ut_count /\ \A i \in 1..ut_count : Loaded[i] = ut[i]
  BY <1>1, <1>3, FullSlots DEF Loaded
<1>5. Loaded \in Seq(Tools) BY LoadedFits
<1> QED BY <1>1, <1>2, <1>3, <1>4, <1>5, SeqEqual

\* The end of a save that succeeded.
LEMMA SaveDoneKeeps == ASSUME IInv, SaveDone PROVE IInv'
<1> USE UserToolsAssumption DEF SaveDone, Return, flash
<1>1. request' = Idle /\ request'.call = "none" /\ at' = 0 /\ Base' = s_tools
  BY DEF Idle, Base
<1>2. TableOK' /\ FlashOK' BY DEF IInv, TableOK, FlashOK
<1>3. CallOK' BY Calls DEF IInv, CallOK
<1>4. Booleans' BY DEF Booleans
<1>5. ByOne' /\ Written' /\ Ahead' BY <1>1 DEF ByOne, Written, Ahead
<1>6. OneHole'
  <2> SUFFICES ASSUME NEW i \in Slots, NEW j \in Slots, NEW k \in Slots, i < j, j < k,
                      k <= ut_count \/ k <= Len(s_tools) + 1, ut[i] = NoTool
               PROVE  FALSE
    BY <1>1 DEF OneHole
  <2>1. ut_count = Len(s_tools) BY DEF IInv, Written
  <2>2. i <= Len(s_tools) /\ i < at BY <2>1, InSave DEF Slots
  <2>3. ut[i] = s_tools[i] BY <2>2 DEF IInv, Written
  <2>4. i \in DOMAIN s_tools BY <2>2, InSave DEF Slots
  <2> QED BY <2>3, <2>4, InSave
<1>7. Unwritten' BY <1>1, SavedIsLoaded DEF Unwritten, Loaded
<1> QED BY <1>2, <1>3, <1>4, <1>5, <1>6, <1>7 DEF IInv

\* A save that fails puts the table back.
LEMMA SaveFailsKeeps == ASSUME IInv, SaveFails PROVE IInv'
<1> USE UserToolsAssumption DEF SaveFails, Return, flash
<1>1. request' = Idle /\ request'.call = "none" /\ at' = 0 /\ Base' = Base
  BY DEF Idle, Base
<1>2. TableOK' /\ FlashOK' BY DEF IInv, TableOK, FlashOK
<1>3. CallOK' BY Calls DEF IInv, CallOK
<1>4. Booleans' BY DEF Booleans
<1>5. ByOne' /\ Written' /\ Ahead' BY <1>1 DEF ByOne, Written, Ahead
<1>6. OneHole' BY <1>1 DEF IInv, OneHole
<1>7. Unwritten' BY DEF Unwritten
<1> QED BY <1>2, <1>3, <1>4, <1>5, <1>6, <1>7 DEF IInv

\* A restart loads what is in flash, wherever a save was cut short.
LEMMA RestartKeeps == ASSUME IInv, Restart PROVE IInv'
<1> USE UserToolsAssumption DEF Restart, Return, flash
<1>1. /\ request' = Idle /\ request'.call = "none" /\ at' = 0 /\ Base' = Loaded
      /\ Loaded' = Loaded
  BY DEF Idle, Base, Loaded
<1>2. TableOK' /\ FlashOK' BY LoadedFits DEF IInv, TableOK, FlashOK
<1>3. CallOK' BY LoadedFits DEF IInv, CallOK
<1>4. Booleans' BY DEF Booleans
<1>5. ByOne' /\ Written' /\ Ahead' BY <1>1 DEF ByOne, Written, Ahead
<1>6. OneHole'
  <2> SUFFICES ASSUME NEW i \in Slots, NEW j \in Slots, NEW k \in Slots, i < j, j < k,
                      k <= ut_count \/ k <= Len(Loaded) + 1,
                      ut[i] = NoTool, ut[j] = NoTool, ut[k] # NoTool
               PROVE  FALSE
    BY <1>1 DEF OneHole
  <2>1. /\ ut \in [Slots -> Tools \cup {NoTool}] /\ ut_count \in 0..MaxTools
        /\ i \in Nat /\ j \in Nat /\ k \in Nat /\ 1 <= i /\ MaxTools \in Nat
    BY DEF IInv, FlashOK, Slots
  <2>2. CASE k <= ut_count BY <2>2 DEF IInv, OneHole
  <2>3. CASE ~(k <= ut_count)
    <3>1. Len(Loaded) = ut_count /\ i \in 1..ut_count BY <2>1, <2>3, LoadedFits
    <3>2. Len(Loaded) < ut_count BY <2>1, <3>1, HoleNotLoaded DEF Loaded
    <3> QED BY <2>1, <3>1, <3>2
  <2> QED BY <2>2, <2>3
<1>7. Unwritten' BY <1>1 DEF Unwritten
<1> QED BY <1>2, <1>3, <1>4, <1>5, <1>6, <1>7 DEF IInv

\* Every step keeps the invariant.
LEMMA NextIInv == IInv /\ [Next]_vars => IInv'
<1> SUFFICES ASSUME IInv, [Next]_vars PROVE IInv' OBVIOUS
<1>1. CASE UNCHANGED vars
  BY <1>1 DEF vars, flash, IInv, TableOK, FlashOK, CallOK, Booleans, ByOne, Written, OneHole,
              Unwritten, Ahead, Base, Loaded
<1> QED BY <1>1, CreateKeeps, DeleteKeeps, SaveCountKeeps, SaveSlotKeeps, EraseSlotKeeps,
           SaveDoneKeeps, SaveFailsKeeps, RestartKeeps DEF Next, Save

\* The invariant holds in every reachable state.
THEOREM Inductive == Spec => []IInv
BY InitIInv, NextIInv, PTL DEF Spec

-----------------------------------------------------------------------------
\* Every variable stays in its range: neither the table nor its copy outgrows its slots.
THEOREM TypeCorrect == Spec => []TypeOK
<1>1. IInv => TypeOK BY DEF IInv, TableOK, FlashOK, CallOK, Booleans, TypeOK
<1> QED BY <1>1, Inductive, PTL

\* Between calls flash holds the very table in RAM, unless the last save failed:
\* whatever saves were cut short by restarts before.
THEOREM TableKept == Spec => []RestartKeepsTable
<1>1. IInv => RestartKeepsTable
  BY Calls DEF IInv, ByOne, Unwritten, Base, RestartKeepsTable
<1> QED BY <1>1, Inductive, PTL

\* The tools not yet written are ahead, the others have been written.
LEMMA CreateKeepsTools == IInv => CreateLosesNothing
<1> SUFFICES ASSUME IInv, request.call = "create", ~unsaved, NEW j \in DOMAIN previous
             PROVE  previous[j] \in Range(Loaded)
  BY DEF CreateLosesNothing, Range
<1>1. /\ ut \in [Slots -> Tools \cup {NoTool}] /\ ut_count \in 0..MaxTools
      /\ request # Idle /\ previous[j] \in Tools /\ at \in Nat
      /\ j \in 1..Len(previous) /\ Len(previous) \in Nat
  BY UserToolsAssumption, InSave, Calls DEF IInv, FlashOK, TableOK, Idle, CallOK
<1>2. CASE at = 0
  <2>1. Loaded = previous BY <1>1, <1>2, InSave DEF IInv, Unwritten
  <2> QED BY <2>1 DEF Range
<1>3. CASE at # 0
  <2>1. ut_count = Len(previous) + 1 BY <1>1, <1>3 DEF IInv, Written, ByOne
  <2>2. PICK p \in Slots : p <= Len(previous) + 1 /\ ut[p] = previous[j]
    <3>1. CASE at <= j BY <3>1 DEF IInv, Ahead
    <3>2. CASE ~(at <= j)
      <4>1. j \in Slots /\ j < at /\ j <= Len(s_tools)
        BY <1>1, <2>1, <3>2, UserToolsAssumption DEF IInv, ByOne, Slots
      <4>2. ut[j] = s_tools[j] BY <1>1, <1>3, <4>1 DEF IInv, Written
      <4>3. s_tools[j] = previous[j] BY DEF IInv, ByOne
      <4> QED BY <1>1, <4>1, <4>2, <4>3
    <3> QED BY <3>1, <3>2
  <2>3. p \in 1..ut_count /\ ut[p] # NoTool
    BY <1>1, <2>1, <2>2, UserToolsAssumption DEF Slots
  <2>4. PICK i \in 1..Len(Loaded) : Loaded[i] = ut[p]
    BY <1>1, <2>3, SlotsAreLoaded DEF Loaded
  <2>5. DOMAIN Loaded = 1..Len(Loaded) BY LoadedFits
  <2> QED BY <2>2, <2>4, <2>5 DEF Range
<1> QED BY <1>2, <1>3

\* Creating a tool never takes another from flash, between any two of its writes.
THEOREM NothingLost == Spec => []CreateLosesNothing
BY CreateKeepsTools, Inductive, PTL

-----------------------------------------------------------------------------
(* The table is a ToolTable *)

\* What is in a slot when flash holds a table and nothing else.
Holds(slot, table) == ut[slot] = IF slot <= Len(table) THEN table[slot] ELSE NoTool

\* As long as no save failed and no delete was cut short, the slots not yet written
\* hold the table of before; a creation cut short may have counted one too many.
Whole == ~torn =>
            /\ ~unsaved
            /\ \A i \in Slots : at <= i => Holds(i, Base)
            /\ at = 0 => ut_count \in {Len(Base), Len(Base) + 1}

\* The table in RAM is the result of the call.
Outcome == request # Idle => s_tools \in ToolTable!Results

WInv == Whole /\ Outcome

\* What the invariant says of Base, and of the slots already written.
LEMMA BaseFacts ==
    ASSUME IInv
    PROVE  /\ Base \in Seq(Tools) /\ Len(Base) \in Nat /\ Len(Base) <= MaxTools
           /\ ut \in [Slots -> Tools \cup {NoTool}] /\ ut_count \in 0..MaxTools
           /\ request = Idle => at = 0 /\ Base = s_tools
           /\ request # Idle => Base = previous
           /\ at \in 0..(MaxTools + 1)
BY DEF IInv, TableOK, FlashOK, CallOK, ByOne, Base

\* At first flash holds the empty table.
LEMMA InitWhole == Init => WInv
BY UserToolsAssumption DEF Init, WInv, Whole, Outcome, Holds, Base, Slots

\* A call begins with the table of before.
LEMMA BeginWhole ==
    ASSUME IInv, WInv, NEW t \in Tools, user_tools_create(t) \/ user_tools_delete(t)
    PROVE  /\ WInv' /\ Base' = Base
           /\ \E name \in {"create", "delete"} : ToolTable!Begin(name, t)
<1>1. /\ request = Idle /\ request' # Idle /\ previous' = s_tools /\ at' = 0
      /\ UNCHANGED <<ut, ut_count, unsaved, torn>>
  BY DEF user_tools_create, user_tools_delete, flash, Idle
<1>2. Base' = Base /\ Base = s_tools /\ at = 0 BY <1>1, BaseFacts DEF Base
<1>3. Whole' BY <1>1, <1>2 DEF WInv, Whole, Holds
<1>4. CASE user_tools_create(t)
  <2>1. /\ s_tools' = Append(s_tools, t) /\ t \notin Range(s_tools)
        /\ request' = [call |-> "create", tool |-> t]
    BY <1>4 DEF user_tools_create
  <2>2. ToolTable!Results' = {Append(s_tools, t)} BY <1>2, <2>1 DEF ToolTable!Results
  <2>3. Outcome' BY <2>1, <2>2 DEF Outcome
  <2>4. ToolTable!Begin("create", t) BY <1>1, <1>2, <2>1 DEF ToolTable!Begin, ToolTable!Range, Range
  <2> QED BY <1>2, <1>3, <2>3, <2>4 DEF WInv
<1>5. CASE user_tools_delete(t)
  <2>1. PICK i \in DOMAIN s_tools : /\ s_tools[i] = t /\ \A j \in 1..(i - 1) : s_tools[j] # t
                                    /\ s_tools' = RemoveAt(s_tools, i)
    BY <1>5 DEF user_tools_delete
  <2>2. request' = [call |-> "delete", tool |-> t] /\ t \in Range(s_tools)
    BY <1>5, <2>1 DEF user_tools_delete, Range
  <2>3. i \in ToolTable!Firsts(t)' BY <1>2, <2>1 DEF ToolTable!Firsts
  <2>4. ToolTable!Results' = {RemoveAt(s_tools, j) : j \in ToolTable!Firsts(t)'}
    BY <1>2, <2>2 DEF ToolTable!Results, ToolTable!RemoveAt, RemoveAt
  <2>5. Outcome' BY <2>1, <2>3, <2>4 DEF Outcome
  <2>6. ToolTable!Begin("delete", t) BY <1>1, <1>2, <2>2 DEF ToolTable!Begin, ToolTable!Range, Range
  <2> QED BY <1>2, <1>3, <2>5, <2>6 DEF WInv
<1> QED BY <1>4, <1>5

\* A write does not disturb the slots behind it.
LEMMA WriteWhole ==
    ASSUME IInv, WInv, SaveCount \/ SaveSlot \/ EraseSlot
    PROVE  WInv' /\ Base' = Base
<1>1. /\ request # Idle /\ request' = request /\ at' = at + 1 /\ at \in Nat
      /\ UNCHANGED <<s_tools, previous, unsaved, torn>>
  BY BaseFacts DEF SaveCount, SaveSlot, EraseSlot, Saving
<1>2. Base' = Base BY <1>1 DEF Base
<1>3. \A i \in Slots : at + 1 <= i => ut'[i] = ut[i]
  <2>1. ut' = ut \/ \E tool : ut' = [ut EXCEPT ![at] = tool]
    BY DEF SaveCount, SaveSlot, EraseSlot
  <2>2. \A i \in Slots : at + 1 <= i => i # at BY <1>1, UserToolsAssumption DEF Slots
  <2>3. CASE ut' = ut BY <2>3
  <2>4. ASSUME NEW tool, ut' = [ut EXCEPT ![at] = tool]
        PROVE  \A i \in Slots : at + 1 <= i => ut'[i] = ut[i]
    <3>1. ut \in [Slots -> Tools \cup {NoTool}] BY BaseFacts
    <3> QED BY <2>2, <2>4, <3>1
  <2> QED BY <2>1, <2>3, <2>4
<1>4. Outcome' BY <1>1, <1>2 DEF WInv, Outcome, ToolTable!Results, ToolTable!Firsts
<1>5. Whole'
  <2>1. \A i \in Slots : at + 1 <= i => at <= i BY <1>1 DEF Slots
  <2> QED BY <1>1, <1>2, <1>3, <2>1 DEF WInv, Whole, Holds
<1> QED BY <1>2, <1>4, <1>5 DEF WInv

\* With the last write flash holds the table in RAM, whatever was there before.
LEMMA DoneWhole == ASSUME IInv, WInv, SaveDone PROVE WInv' /\ ToolTable!Done
<1>1. /\ request # Idle /\ request' = Idle /\ at = MaxTools + 1 /\ at' = 0 /\ torn' = FALSE
      /\ unsaved' = FALSE /\ UNCHANGED <<s_tools, ut, ut_count>>
  BY DEF SaveDone, Return, flash
<1>2. Base' = s_tools BY <1>1 DEF Base
<1>3. /\ ut_count = Len(s_tools)
      /\ \A i \in Slots : ut[i] = IF i <= Len(s_tools) THEN s_tools[i] ELSE NoTool
  BY <1>1, UserToolsAssumption DEF IInv, Written, Slots
<1>4. WInv' BY <1>1, <1>2, <1>3 DEF WInv, Whole, Outcome, Holds
<1>5. ToolTable!Done BY <1>1, <1>2 DEF ToolTable!Done, ToolTable!Ends, WInv, Outcome
<1> QED BY <1>4, <1>5

\* After a failure nothing is said of flash.
LEMMA FailWhole == ASSUME IInv, WInv, SaveFails PROVE WInv' /\ ToolTable!Fail
BY DEF SaveFails, Return, WInv, Whole, Outcome, Base, ToolTable!Fail, ToolTable!Ends

\* A restart while a tool is created finds a whole table without it or with it.
LEMMA CutCreateLoads ==
    ASSUME IInv, WInv, ~torn, request.call = "create"
    PROVE  /\ Loaded \in {previous, s_tools}
           /\ \A i \in Slots : Holds(i, Loaded)
           /\ ut_count \in {Len(Loaded), Len(Loaded) + 1}
<1>1. /\ request # Idle /\ Base = previous /\ Len(previous) \in Nat /\ ~unsaved
      /\ Len(s_tools) = Len(previous) + 1 /\ Len(s_tools) <= MaxTools
      /\ \A i \in 1..Len(previous) : s_tools[i] = previous[i] /\ previous[i] # NoTool
      /\ s_tools[Len(s_tools)] # NoTool
      /\ s_tools \in Seq(Tools) /\ previous \in Seq(Tools) /\ MaxTools \in Nat
      /\ ut \in [Slots -> Tools \cup {NoTool}] /\ at \in 0..(MaxTools + 1)
  BY BaseFacts, InSave, Calls, UserToolsAssumption
     DEF IInv, TableOK, CallOK, ByOne, WInv, Whole
<1>2. CASE at = 0
  <2>1. Loaded = previous BY <1>1, <1>2 DEF IInv, Unwritten
  <2>2. \A i \in Slots : at <= i BY <1>2 DEF Slots
  <2> QED BY <1>1, <1>2, <2>1, <2>2 DEF WInv, Whole, Holds
<1>3. CASE at # 0
  <2> DEFINE n == Len(previous)
  <2>1. /\ ut_count = n + 1 /\ n \in 0..MaxTools /\ n + 1 \in 1..MaxTools
        /\ \A i \in 1..n : i \in Slots
        /\ n + 1 \in Slots
    BY <1>1, <1>3 DEF IInv, Written, Slots
  <2>2. \A i \in Slots : /\ i < at => ut[i] = IF i <= n + 1 THEN s_tools[i] ELSE NoTool
                         /\ at <= i => ut[i] = IF i <= n THEN previous[i] ELSE NoTool
    BY <1>1, <1>3 DEF IInv, Written, WInv, Whole, Holds
  <2>3. \A i \in Slots : i < at \/ at <= i BY <1>1 DEF Slots
  <2>4. \A i \in 1..n : ut[i] = previous[i] /\ ut[i] = s_tools[i] /\ ut[i] # NoTool
    BY <1>1, <2>1, <2>2, <2>3
  <2>5. \A i \in Slots : i > n + 1 => ut[i] = NoTool
    BY <1>1, <2>1, <2>2, <2>3 DEF Slots
  <2>6. CASE ut[n + 1] = NoTool
    <3>1. Loaded = ToolsIn(ut)[n]
      <4>1. ToolsIn(ut)[n + 1] = ToolsIn(ut)[(n + 1) - 1] BY <1>1, <2>1, <2>6, OneSlotMore
      <4>2. (n + 1) - 1 = n BY <2>1
      <4> QED BY <2>1, <4>1, <4>2 DEF Loaded
    <3>2. Len(Loaded) = n /\ \A i \in 1..n : Loaded[i] = ut[i]
      BY <1>1, <2>1, <2>4, <3>1, FullSlots
    <3>3. Loaded \in Seq(Tools) BY LoadedFits
    <3>4. Loaded = previous BY <1>1, <2>4, <3>2, <3>3, SeqEqual
    <3>5. \A i \in Slots : Holds(i, previous)
      <4> SUFFICES ASSUME NEW i \in Slots
                   PROVE  ut[i] = IF i <= n THEN previous[i] ELSE NoTool
        BY DEF Holds
      <4>1. i \in 1..n \/ i = n + 1 \/ i > n + 1 BY <2>1 DEF Slots
      <4>2. i \in Nat /\ n \in Nat BY <1>1 DEF Slots
      <4> QED BY <2>4, <2>5, <2>6, <4>1, <4>2
    <3> QED BY <2>1, <3>4, <3>5
  <2>7. CASE ut[n + 1] # NoTool
    <3>1. ut[n + 1] = s_tools[n + 1] BY <1>1, <2>1, <2>2, <2>3, <2>7
    <3>2. \A i \in 1..(n + 1) : i \in 1..n \/ i = n + 1 BY <2>1
    <3>3. \A i \in 1..(n + 1) : ut[i] = s_tools[i] /\ ut[i] # NoTool
      BY <2>4, <2>7, <3>1, <3>2
    <3>4. Len(Loaded) = n + 1 /\ \A i \in 1..(n + 1) : Loaded[i] = ut[i]
      BY <1>1, <2>1, <3>3, FullSlots DEF Loaded
    <3>5. Loaded \in Seq(Tools) BY LoadedFits
    <3>6. Loaded = s_tools BY <1>1, <3>3, <3>4, <3>5, SeqEqual
    <3>7. \A i \in Slots : Holds(i, s_tools)
      <4> SUFFICES ASSUME NEW i \in Slots
                   PROVE  ut[i] = IF i <= n + 1 THEN s_tools[i] ELSE NoTool
        BY <1>1 DEF Holds
      <4>1. i \in 1..(n + 1) \/ i > n + 1 BY <2>1 DEF Slots
      <4>2. i \in Nat /\ n \in Nat BY <1>1 DEF Slots
      <4> QED BY <2>5, <3>3, <4>1, <4>2
    <3> QED BY <1>1, <2>1, <3>6, <3>7
  <2> QED BY <2>6, <2>7
<1> QED BY <1>2, <1>3

\* A restart while a tool is deleted finds the first slots of the table after it and
\* the others of the table before it, but for the last.
LEMMA CutDeleteLoads ==
    ASSUME IInv, WInv, ~torn, request.call = "delete"
    PROVE  \/ Loaded = previous
           \/ \E n \in 0..Len(previous) :
                 Loaded = [i \in 1..(Len(previous) - 1) |->
                              IF i <= n THEN s_tools[i] ELSE previous[i]]
<1>1. /\ request # Idle /\ Base = previous /\ Len(previous) \in Nat /\ ~unsaved
      /\ Len(s_tools) = Len(previous) - 1 /\ Len(s_tools) \in Nat
      /\ Len(previous) <= MaxTools
      /\ \A i \in 1..Len(s_tools) : s_tools[i] # NoTool
      /\ \A i \in 1..Len(previous) : previous[i] # NoTool
      /\ MaxTools \in Nat
      /\ ut \in [Slots -> Tools \cup {NoTool}] /\ at \in 0..(MaxTools + 1)
  BY BaseFacts, InSave, Calls, UserToolsAssumption
     DEF IInv, TableOK, CallOK, ByOne, WInv, Whole
<1>2. CASE at = 0 BY <1>1, <1>2 DEF IInv, Unwritten
<1>3. CASE at # 0
  <2> DEFINE n == Len(previous) - 1
             k == IF at - 1 <= n THEN at - 1 ELSE n
  <2>1. ut_count = n /\ n \in 0..MaxTools /\ k \in 0..Len(previous)
    BY <1>1, <1>3 DEF IInv, Written
  <2>2. ASSUME NEW i \in 1..n
        PROVE  ut[i] = (IF i <= k THEN s_tools[i] ELSE previous[i]) /\ ut[i] # NoTool
    <3>1. i \in Slots /\ i <= Len(s_tools) /\ i <= Len(previous) /\ i \in 1..Len(previous)
      BY <1>1 DEF Slots
    <3>2. CASE i < at
      <4>1. i <= k BY <1>1, <3>2
      <4>2. ut[i] = s_tools[i] BY <1>1, <1>3, <3>1, <3>2 DEF IInv, Written
      <4> QED BY <1>1, <4>1, <4>2
    <3>3. CASE at <= i
      <4>1. ~(i <= k) BY <1>1, <3>3
      <4>2. ut[i] = previous[i] BY <1>1, <3>1, <3>3 DEF WInv, Whole, Holds
      <4> QED BY <1>1, <3>1, <4>1, <4>2
    <3> QED BY <1>1, <3>2, <3>3
  <2>3. Len(Loaded) = n /\ \A i \in 1..n : Loaded[i] = ut[i]
    BY <1>1, <2>1, <2>2, FullSlots DEF Loaded
  <2>4. Loaded \in Seq(Tools) BY LoadedFits
  <2> HIDE DEF k
  <2>5. Loaded = [i \in 1..n |-> IF i <= k THEN s_tools[i] ELSE previous[i]]
    <3>1. Loaded = [i \in 1..n |-> Loaded[i]] BY <2>3, <2>4
    <3> QED BY <2>2, <2>3, <3>1
  <2> QED BY <2>1, <2>5
<1> QED BY <1>2, <1>3

\* A restart is what ToolTable says of one, or is not seen.
LEMMA RestartWhole ==
    ASSUME IInv, WInv, Restart
    PROVE  /\ WInv'
           /\ \/ ToolTable!CutCreate \/ ToolTable!CutDelete \/ ToolTable!Lost
              \/ UNCHANGED <<Base, request, torn, unsaved>>
<1>1. /\ request' = Idle /\ at' = 0 /\ s_tools' = Loaded /\ unsaved' = FALSE
      /\ torn' = (torn \/ request.call = "delete") /\ UNCHANGED <<ut, ut_count>>
  BY DEF Restart, Return, flash
<1>2. Base' = Loaded BY <1>1 DEF Base
<1>3. Outcome' BY <1>1 DEF Outcome
<1>4. torn \in BOOLEAN /\ unsaved \in BOOLEAN /\ (unsaved => torn)
  BY DEF IInv, Booleans, WInv, Whole
<1>5. Idle.call = "none" /\ (request = Idle => request.call = "none")
      /\ (request # Idle => request.call \in {"create", "delete"})
  BY Calls DEF IInv, Idle
<1>6. CASE request = Idle /\ ~unsaved
  <2>1. at = 0 /\ Loaded = Base BY <1>6, BaseFacts DEF IInv, Unwritten
  <2>2. torn' = torn BY <1>1, <1>4, <1>5, <1>6
  <2>3. Whole' BY <1>1, <1>2, <2>1, <2>2 DEF WInv, Whole, Holds
  <2> QED BY <1>1, <1>2, <1>3, <1>4, <1>6, <2>1, <2>2, <2>3 DEF WInv
<1>7. CASE unsaved
  <2>1. torn' = TRUE BY <1>1, <1>4, <1>7
  <2>2. ToolTable!Lost BY <1>1, <1>7, <2>1 DEF ToolTable!Lost
  <2> QED BY <1>3, <2>1, <2>2 DEF WInv, Whole
<1>8. CASE request.call = "create" /\ ~unsaved
  <2>1. request # Idle /\ Base = previous /\ torn' = torn /\ unsaved' = unsaved
    BY <1>1, <1>4, <1>5, <1>8, BaseFacts
  <2>2. CASE torn
    <3>1. Range(previous) \subseteq Range(Loaded) BY <1>8, CreateKeepsTools DEF CreateLosesNothing
    <3>2. ToolTable!CutCreate
      BY <1>1, <1>2, <1>8, <2>1, <2>2, <3>1
         DEF ToolTable!CutCreate, ToolTable!Ends, ToolTable!Range, Range
    <3> QED BY <1>3, <2>1, <2>2, <3>2 DEF WInv, Whole
  <2>3. CASE ~torn
    <3>1. /\ Loaded \in {previous, s_tools}
          /\ \A i \in Slots : Holds(i, Loaded)
          /\ ut_count \in {Len(Loaded), Len(Loaded) + 1}
      BY <1>8, <2>3, CutCreateLoads
    <3>2. Whole' BY <1>1, <1>2, <3>1 DEF Whole, Holds
    <3>3. s_tools \in ToolTable!Results BY <2>1 DEF WInv, Outcome
    <3>4. ToolTable!CutCreate
      BY <1>1, <1>2, <1>8, <2>1, <2>3, <3>1, <3>3 DEF ToolTable!CutCreate, ToolTable!Ends
    <3> QED BY <1>3, <3>2, <3>4 DEF WInv
  <2> QED BY <2>2, <2>3
<1>9. CASE request.call = "delete" /\ ~unsaved
  <2>1. request # Idle /\ Base = previous /\ torn' = TRUE /\ unsaved' = unsaved
    BY <1>1, <1>4, <1>5, <1>9, BaseFacts
  <2>2. CASE torn
    <3>1. ToolTable!Lost BY <1>1, <1>9, <2>1, <2>2 DEF ToolTable!Lost
    <3> QED BY <1>3, <2>1, <3>1 DEF WInv, Whole
  <2>3. CASE ~torn
    <3>1. s_tools \in ToolTable!Results BY <2>1 DEF WInv, Outcome
    <3>2. \/ Loaded = previous
          \/ \E n \in 0..Len(previous) :
                Loaded = [i \in 1..(Len(previous) - 1) |->
                             IF i <= n THEN s_tools[i] ELSE previous[i]]
      BY <1>9, <2>3, CutDeleteLoads
    <3>3. \/ Base' = Base
          \/ \E new \in ToolTable!Results, n \in 0..Len(Base) :
                Base' = [i \in 1..(Len(Base) - 1) |-> IF i <= n THEN new[i] ELSE Base[i]]
      <4>1. CASE Loaded = previous BY <1>2, <2>1, <4>1
      <4>2. ASSUME NEW n \in 0..Len(previous),
                   Loaded = [i \in 1..(Len(previous) - 1) |->
                                IF i <= n THEN s_tools[i] ELSE previous[i]]
            PROVE  \E new \in ToolTable!Results, m \in 0..Len(Base) :
                      Base' = [i \in 1..(Len(Base) - 1) |-> IF i <= m THEN new[i] ELSE Base[i]]
        <5>1. Base' = [i \in 1..(Len(Base) - 1) |-> IF i <= n THEN s_tools[i] ELSE Base[i]]
          BY <1>2, <2>1, <4>2
        <5> QED BY <2>1, <3>1, <5>1
      <4> QED BY <3>2, <4>1, <4>2
    <3>4. ToolTable!CutDelete
      BY <1>1, <1>9, <2>1, <2>3, <3>3, Zenon DEF ToolTable!CutDelete, ToolTable!Ends
    <3> QED BY <1>3, <2>1, <3>4 DEF WInv, Whole
  <2> QED BY <2>2, <2>3
<1> QED BY <1>4, <1>5, <1>6, <1>7, <1>8, <1>9

\* Every step keeps the invariant, and is one of ToolTable or none.
LEMMA StepWhole ==
    ASSUME IInv, WInv, [Next]_vars
    PROVE  WInv' /\ [ToolTable!Next]_<<Base, request, torn, unsaved>>
<1>1. CASE UNCHANGED vars
  <2>1. UNCHANGED <<Base, request, torn, unsaved>> BY <1>1 DEF vars, Base
  <2>2. WInv'
    BY <1>1, <2>1 DEF vars, flash, WInv, Whole, Outcome, Holds, ToolTable!Results,
                      ToolTable!Firsts
  <2> QED BY <2>1, <2>2
<1>2. ASSUME NEW t \in Tools, user_tools_create(t) \/ user_tools_delete(t)
      PROVE  WInv' /\ ToolTable!Next
  BY <1>2, BeginWhole DEF ToolTable!Next
<1>3. CASE SaveCount \/ SaveSlot \/ EraseSlot
  <2>1. UNCHANGED <<request, torn, unsaved>> BY <1>3 DEF SaveCount, SaveSlot, EraseSlot, Saving
  <2> QED BY <1>3, <2>1, WriteWhole
<1>4. CASE SaveDone BY <1>4, DoneWhole DEF ToolTable!Next
<1>5. CASE SaveFails BY <1>5, FailWhole DEF ToolTable!Next
<1>6. CASE Restart BY <1>6, RestartWhole DEF ToolTable!Next
<1> QED BY <1>1, <1>2, <1>3, <1>4, <1>5, <1>6 DEF Next, Save

\* The table is a ToolTable: a creation happens in one step or not at all, a restart
\* between calls changes nothing, and what a delete that is cut short leaves is known.
THEOREM Refinement == Spec => ImplementsToolTable
<1>1. Init => ToolTable!Init BY DEF Init, Base, ToolTable!Init
<1>2. IInv /\ WInv /\ [Next]_vars => WInv' /\ [ToolTable!Next]_<<Base, request, torn, unsaved>>
  BY StepWhole
<1> QED BY <1>1, <1>2, InitWhole, Inductive, PTL DEF Spec, ImplementsToolTable, ToolTable!Spec

=============================================================================
