------------------------- MODULE GpioMappingProofs --------------------------
(***************************************************************************)
(* Proofs about the mappings of names to pins, for every set of names and   *)
(* pins, every size of the list, every policy and any number of restarts    *)
(* and failed writes: the type invariant, that mappings saved with success  *)
(* stay, on pins of their own, that deleted ones are gone, and that saved   *)
(* mappings are those of Mappings.                                          *)
(*                                                                          *)
(* All but the first hold for plain names, of one word, that do not have    *)
(* the key of the list: OneWordNames. Other names the code takes as well,   *)
(* and then they do not hold.                                               *)
(***************************************************************************)
EXTENDS GpioMapping, SequenceTheorems, NaturalsInduction, WellFoundedInduction, TLAPS

\* TypeOK in parts, for the provers.
FlashOK == nvs \in [Keys -> Seq(Words)] /\ Len(nvs[List]) <= MaxWords
PinsOK == allowed \in Policies /\ driven \subseteq allowed
CallOK == request \in {Idle} \cup [call : {"save", "delete"}, name : Names]
FatesOK == saved \subseteq Names /\ gone \subseteq Names /\ restarts \in 0..MaxRestarts

TInv == FlashOK /\ PinsOK /\ CallOK /\ FatesOK

\* Names of one word, other than the list's own.
OneWordNames == \A d \in Names : Len(d) = 1 /\ d # List

\* A save between its writes: the key holds a pin that no saved mapping has, and
\* the name is not among the deleted. A deletion: the key is gone.
SaveBegun == request.call = "save" =>
                LET name == request.name
                IN  /\ nvs[name] # <<>> /\ nvs[name][1] \in Pins
                    /\ name \notin gone
                    /\ \A d \in saved : d # name => nvs[d][1] # nvs[name][1]
DeleteBegun == request.call = "delete" =>
                  ~Exists(request.name) /\ request.name \notin saved

\* SavedPinsDiffer, for keys that hold pins.
PinsDiffer == \A d, e \in saved : d # e => nvs[d][1] # nvs[e][1]

IInv == /\ TInv /\ SaveBegun /\ DeleteBegun
        /\ SavedIsKept /\ PinsDiffer /\ DeletedIsGone

-----------------------------------------------------------------------------
(* What list_remove_device copies, by induction over the words of the list *)

\* A set of natural numbers has a smallest member. What holds of every prefix of the
\* list is shown with it below: the set of counterexamples has none.
LEMMA Smallest ==
    ASSUME NEW T, T \subseteq Nat, T # {} PROVE \E n \in T : \A m \in T : n <= m
<1>1. IsWellFoundedOn(OpToRel(<, Nat), Nat) BY NatLessThanWellFounded, Zenon
<1>2. PICK n \in T : \A m \in T : ~ (<<m, n>> \in OpToRel(<, Nat)) BY <1>1, WFMin, Zenon
<1>3. \A m \in T : ~(m < n) BY <1>2 DEF OpToRel
<1> QED BY <1>3

\* A set that holds 0 and the successors of its members holds every number up to N.
LEMMA UpTo ==
    ASSUME NEW N \in Nat, NEW G, 0 \in G, \A n \in 1..N : n - 1 \in G => n \in G
    PROVE  0..N \subseteq G
<1> SUFFICES ASSUME (0..N) \ G # {} PROVE FALSE OBVIOUS
<1>0. (0..N) \ G \subseteq Nat OBVIOUS
<1>1. PICK n \in (0..N) \ G : \A m \in (0..N) \ G : n <= m BY <1>0, Smallest
<1>2. n \in 1..N /\ n - 1 \in 0..N /\ ~(n <= n - 1) BY <1>1
<1>3. n - 1 \in G BY <1>1, <1>2
<1> QED BY <1>1, <1>2, <1>3

\* f holds what is copied of the first n words, for each n up to N.
Copies(words, name, f, N) ==
    /\ f \in [0..N -> Seq(Words)] /\ f[0] = <<>>
    /\ \A n \in 1..N : f[n] = IF <<words[n]>> = name THEN f[n - 1]
                              ELSE Append(f[n - 1], words[n])

\* There is such a function up to every word.
LEMMA CopiesExist ==
    ASSUME NEW words \in Seq(Words), NEW name
    PROVE  \E f : Copies(words, name, f, Len(words))
<1> DEFINE G == {N \in 0..Len(words) : \E f : Copies(words, name, f, N)}
<1>0. Len(words) \in Nat OBVIOUS
<1>1. 0 \in G
  <2> DEFINE f == [n \in 0..0 |-> <<>>]
  <2>1. f \in [0..0 -> Seq(Words)] BY EmptySeq
  <2>2. Copies(words, name, f, 0) BY <2>1 DEF Copies
  <2> QED BY <1>0, <2>2
<1>2. ASSUME NEW N \in 1..Len(words), N - 1 \in G PROVE N \in G
  <2>1. PICK f : Copies(words, name, f, N - 1) BY <1>2
  <2> DEFINE next == IF <<words[N]>> = name THEN f[N - 1] ELSE Append(f[N - 1], words[N])
             h == [n \in 0..N |-> IF n = N THEN next ELSE f[n]]
  <2>2. words[N] \in Words /\ f[N - 1] \in Seq(Words) /\ N - 1 \in 0..(N - 1)
    BY <1>0, <2>1 DEF Copies
  <2>3. next \in Seq(Words)
    <3>1. Append(f[N - 1], words[N]) \in Seq(Words) BY <2>2, AppendProperties
    <3> QED BY <2>2, <3>1, Zenon
  <2>4. h \in [0..N -> Seq(Words)] BY <2>1, <2>3 DEF Copies
  <2>5. h[0] = <<>> BY <2>1 DEF Copies
  <2>6. ASSUME NEW n \in 1..N
        PROVE  h[n] = IF <<words[n]>> = name THEN h[n - 1] ELSE Append(h[n - 1], words[n])
    <3>1. n - 1 \in 0..(N - 1) /\ h[n - 1] = f[n - 1] OBVIOUS
    <3>2. CASE n = N BY <3>1, <3>2
    <3>3. CASE n # N
      <4>1. n \in 1..(N - 1) /\ h[n] = f[n] BY <3>3
      <4> HIDE DEF h
      <4> QED BY <2>1, <3>1, <4>1 DEF Copies
    <3> QED BY <3>2, <3>3
  <2> HIDE DEF h
  <2>7. Copies(words, name, h, N) BY <2>4, <2>5, <2>6 DEF Copies
  <2> QED BY <2>7
<1> HIDE DEF G
<1>3. 0..Len(words) \subseteq G BY <1>0, <1>1, <1>2, UpTo
<1>4. Len(words) \in G BY <1>0, <1>3
<1> QED BY <1>4 DEF G

\* The recursive function is well defined, and is what is copied.
LEMMA CopiedDef ==
    ASSUME NEW words \in Seq(Words), NEW name
    PROVE  LET f == Copied(words, name)
           IN  /\ f[0] = <<>>
               /\ \A n \in 1..Len(words) :
                     f[n] = IF <<words[n]>> = name THEN f[n - 1]
                            ELSE Append(f[n - 1], words[n])
<1> DEFINE Step(f) == [n \in 0..Len(words) |->
                         IF n = 0 THEN <<>>
                         ELSE IF <<words[n]>> = name THEN f[n - 1]
                         ELSE Append(f[n - 1], words[n])]
           L == Copied(words, name)
<1>0. Len(words) \in Nat OBVIOUS
<1>1. PICK g : Copies(words, name, g, Len(words)) BY CopiesExist
<1>2. g = Step(g)
  <2>1. g \in [0..Len(words) -> Seq(Words)] BY <1>1 DEF Copies
  <2>2. g[0] = Step(g)[0] BY <1>0, <1>1 DEF Copies
  <2>3. \A n \in 1..Len(words) : n # 0 /\ g[n] = Step(g)[n] BY <1>0, <1>1 DEF Copies
  <2>4. Step(g) = [n \in 0..Len(words) |-> Step(g)[n]] OBVIOUS
  <2> HIDE DEF Step
  <2>5. \A n \in 0..Len(words) : g[n] = Step(g)[n] BY <1>0, <2>2, <2>3
  <2> QED BY <2>1, <2>4, <2>5
<1>3. L = CHOOSE f : f = Step(f) BY DEF Copied
<1>4. L = Step(L)
  <2> HIDE DEF Step, L
  <2> QED BY <1>2, <1>3
<1> HIDE DEF L
<1>5. L[0] = <<>> BY <1>0, <1>4
<1>6. \A n \in 1..Len(words) : L[n] = IF <<words[n]>> = name THEN L[n - 1]
                                      ELSE Append(L[n - 1], words[n])
  <2> TAKE n \in 1..Len(words)
  <2>1. n \in 0..Len(words) /\ n # 0 OBVIOUS
  <2>2. Step(L)[n] = IF n = 0 THEN <<>>
                     ELSE IF <<words[n]>> = name THEN L[n - 1] ELSE Append(L[n - 1], words[n])
    BY <2>1
  <2> HIDE DEF Step
  <2> QED BY <1>4, <2>1, <2>2
<1> QED BY <1>5, <1>6 DEF L

\* What is copied has the words of the list, but for the name, and no others.
LEMMA CopiedWords ==
    ASSUME NEW words \in Seq(Words), NEW name
    PROVE  LET copy == Copied(words, name)[Len(words)]
           IN  /\ copy \in Seq(Words) /\ Len(copy) <= Len(words)
               /\ \A i \in DOMAIN copy : /\ <<copy[i]>> # name
                                         /\ \E j \in DOMAIN words : words[j] = copy[i]
               /\ \A j \in DOMAIN words : <<words[j]>> # name =>
                                             \E i \in DOMAIN copy : copy[i] = words[j]
<1> DEFINE f == Copied(words, name)
           P(n) == /\ f[n] \in Seq(Words) /\ Len(f[n]) <= n
                   /\ \A i \in 1..Len(f[n]) : /\ <<f[n][i]>> # name
                                              /\ \E j \in 1..n : words[j] = f[n][i]
                   /\ \A j \in 1..n : <<words[j]>> # name =>
                                         \E i \in 1..Len(f[n]) : f[n][i] = words[j]
           G == {n \in 0..Len(words) : P(n)}
<1>0. Len(words) \in Nat /\ DOMAIN words = 1..Len(words) OBVIOUS
<1>1. /\ f[0] = <<>>
      /\ \A n \in 1..Len(words) : f[n] = IF <<words[n]>> = name THEN f[n - 1]
                                         ELSE Append(f[n - 1], words[n])
  BY CopiedDef
<1> HIDE DEF f
<1>2. 0 \in G
  <2>1. <<>> \in Seq(Words) /\ Len(<<>>) = 0 /\ 0 \in 0..Len(words) BY <1>0
  <2>2. P(0) BY <1>1, <2>1
  <2> QED BY <2>1, <2>2
<1>3. ASSUME NEW n \in 1..Len(words), n - 1 \in G PROVE n \in G
  <2>1. P(n - 1) /\ n \in 0..Len(words) /\ n \in Nat /\ words[n] \in Words
    BY <1>0, <1>3
  <2>2. Len(f[n - 1]) \in Nat BY <2>1, LenProperties
  <2>3. CASE <<words[n]>> = name
    <3>1. f[n] = f[n - 1] BY <1>1, <2>3
    <3>2. Len(f[n]) <= n BY <2>1, <2>2, <3>1
    <3>3. \A i \in 1..Len(f[n]) : /\ <<f[n][i]>> # name
                                  /\ \E j \in 1..n : words[j] = f[n][i]
      BY <2>1, <3>1
    <3>4. \A j \in 1..n : <<words[j]>> # name => \E i \in 1..Len(f[n]) : f[n][i] = words[j]
      <4> SUFFICES ASSUME NEW j \in 1..n, <<words[j]>> # name
                   PROVE  \E i \in 1..Len(f[n]) : f[n][i] = words[j] OBVIOUS
      <4>1. j # n BY <2>3
      <4>2. j \in 1..(n - 1) BY <2>1, <4>1
      <4> QED BY <2>1, <3>1, <4>2
    <3>5. P(n) BY <2>1, <3>1, <3>2, <3>3, <3>4
    <3> QED BY <2>1, <3>5
  <2>4. CASE <<words[n]>> # name
    <3>1. f[n] = Append(f[n - 1], words[n]) BY <1>1, <2>4
    <3>2. /\ f[n] \in Seq(Words) /\ Len(f[n]) = Len(f[n - 1]) + 1
          /\ f[n][Len(f[n - 1]) + 1] = words[n]
          /\ \A i \in 1..Len(f[n - 1]) : f[n][i] = f[n - 1][i]
      BY <2>1, <3>1, AppendProperties
    <3>3. ASSUME NEW i \in 1..Len(f[n])
          PROVE  <<f[n][i]>> # name /\ \E j \in 1..n : words[j] = f[n][i]
      <4>1. CASE i = Len(f[n - 1]) + 1 BY <2>1, <2>4, <3>2, <4>1
      <4>2. CASE i # Len(f[n - 1]) + 1
        <5>1. i \in 1..Len(f[n - 1]) /\ f[n][i] = f[n - 1][i] BY <2>2, <3>2, <4>2
        <5>2. PICK j \in 1..(n - 1) : words[j] = f[n - 1][i] BY <2>1, <5>1
        <5>3. j \in 1..n BY <2>1
        <5> QED BY <2>1, <5>1, <5>2, <5>3
      <4> QED BY <4>1, <4>2
    <3>4. ASSUME NEW j \in 1..n, <<words[j]>> # name
          PROVE  \E i \in 1..Len(f[n]) : f[n][i] = words[j]
      <4>1. CASE j = n
        <5>1. Len(f[n - 1]) + 1 \in 1..Len(f[n]) BY <2>2, <3>2
        <5> QED BY <3>2, <4>1, <5>1
      <4>2. CASE j # n
        <5>1. j \in 1..(n - 1) BY <2>1, <4>2
        <5>2. PICK i \in 1..Len(f[n - 1]) : f[n - 1][i] = words[j] BY <2>1, <3>4, <5>1
        <5>3. i \in 1..Len(f[n]) /\ f[n][i] = words[j] BY <2>2, <3>2, <5>2
        <5> QED BY <5>3
      <4> QED BY <4>1, <4>2
    <3>5. P(n) BY <2>1, <2>2, <3>2, <3>3, <3>4
    <3> QED BY <2>1, <3>5
  <2> QED BY <2>3, <2>4
<1> HIDE DEF G
<1>4. Len(words) \in G
  <2>1. 0..Len(words) \subseteq G BY <1>0, <1>2, <1>3, UpTo
  <2> QED BY <1>0, <2>1
<1>5. P(Len(words)) BY <1>4 DEF G
<1>6. DOMAIN f[Len(words)] = 1..Len(f[Len(words)]) BY <1>5, LenProperties
<1> QED BY <1>0, <1>5, <1>6 DEF f

-----------------------------------------------------------------------------
(* The type invariant *)

\* A device's key, the list's and the key that a word of the list names are keys.
LEMMA KeyFacts ==
    /\ Names \subseteq Keys /\ List \in Keys
    /\ \A d \in Names \cup Texts : d \in Seq(Words) /\ Len(d) \in 1..MaxWords
    /\ \A p \in Pins : p \in Words /\ <<p>> \in Seq(Words) /\ Len(<<p>>) = 1
                                  /\ <<p>>[1] = p /\ <<p>> # <<>>
    /\ MaxWords \in Nat \ {0} /\ <<>> \in Seq(Words) /\ Len(<<>>) = 0
    /\ \A p \in Policies : p \subseteq Pins
<1>1. \A p \in Pins : p \in Words BY DEF Words
<1>2. "list" \in Words BY DEF Words
<1> HIDE DEF Words
<1> QED BY <1>1, <1>2, GpioMappingAssumption DEF Keys, List

\* No call that begins or ends is mistaken for another.
LEMMA Calls ==
    /\ Idle.call = "none"
    /\ \A d : /\ [call |-> "save", name |-> d].call = "save"
              /\ [call |-> "save", name |-> d].name = d
              /\ [call |-> "delete", name |-> d].call = "delete"
              /\ [call |-> "delete", name |-> d].name = d
              /\ [call |-> "save", name |-> d] # Idle
              /\ [call |-> "delete", name |-> d] # Idle
BY DEF Idle

\* A call in progress is one for a name.
LEMMA InCall ==
    ASSUME CallOK
    PROVE  request.call \in {"save", "delete"} =>
              request # Idle /\ request.name \in Names
BY Calls DEF CallOK

\* A write, whether it succeeds or fails, changes no key but its own.
LEMMA Writes ==
    ASSUME FlashOK, NEW key \in Keys, NEW text \in Seq(Words), Len(text) <= MaxWords,
           Written(key, text) \/ NotWritten(key, text)
    PROVE  /\ FlashOK'
           /\ \A k \in Keys : k # key => nvs'[k] = nvs[k]
           /\ nvs'[key] \in {nvs[key], text} /\ (Written(key, text) => nvs'[key] = text)
<1>1. nvs \in [Keys -> Seq(Words)] BY DEF FlashOK
<1>2. CASE nvs' = nvs BY <1>2 DEF FlashOK, Written, NotWritten
<1>3. CASE nvs' = [nvs EXCEPT ![key] = text]
  <2>1. nvs' \in [Keys -> Seq(Words)] BY <1>1, <1>3
  <2>2. nvs'[key] = text /\ \A k \in Keys : k # key => nvs'[k] = nvs[k] BY <1>1, <1>3
  <2>3. Len(nvs'[List]) <= MaxWords BY <2>2, KeyFacts DEF FlashOK
  <2> QED BY <2>1, <2>2, <2>3 DEF FlashOK
<1> QED BY <1>2, <1>3 DEF Written, NotWritten

\* What list_add_device stores, when it stores anything, fits into the list.
LEMMA NewListFits ==
    ASSUME FlashOK, NEW d \in Names, Listed(d) \/ HasRoom(d)
    PROVE  NewList(d) \in Seq(Words) /\ Len(NewList(d)) <= MaxWords
<1>1. /\ nvs[List] \in Seq(Words) /\ Len(nvs[List]) <= MaxWords
      /\ d \in Seq(Words) BY KeyFacts DEF FlashOK
<1>2. CASE Listed(d) BY <1>1, <1>2 DEF NewList
<1>3. CASE ~Listed(d)
  <2>1. /\ nvs[List] \o d \in Seq(Words)
        /\ Len(nvs[List] \o d) = Len(nvs[List]) + Len(d) BY <1>1, ConcatProperties
  <2> QED BY <1>3, <2>1 DEF NewList, HasRoom
<1> QED BY <1>2, <1>3

\* So does what list_remove_device stores; it has all other words, and no new ones.
LEMMA WithoutFits ==
    ASSUME FlashOK, NEW d
    PROVE  /\ Without(d) \in Seq(Words) /\ Len(Without(d)) <= MaxWords
           /\ \A i \in DOMAIN Without(d) :
                 /\ <<Without(d)[i]>> # d
                 /\ \E j \in DOMAIN nvs[List] : nvs[List][j] = Without(d)[i]
           /\ \A j \in DOMAIN nvs[List] :
                 <<nvs[List][j]>> # d => \E i \in DOMAIN Without(d) : Without(d)[i] = nvs[List][j]
<1>1. nvs[List] \in Seq(Words) /\ Len(nvs[List]) <= MaxWords BY KeyFacts DEF FlashOK
<1>2. Without(d) \in Seq(Words) /\ Len(Without(d)) <= Len(nvs[List])
  BY <1>1, CopiedWords DEF Without
<1>3. Len(Without(d)) \in Nat /\ Len(nvs[List]) \in Nat BY <1>1, <1>2, LenProperties
<1>4. Len(Without(d)) <= MaxWords BY <1>1, <1>2, <1>3, KeyFacts
<1> QED BY <1>1, <1>2, <1>4, CopiedWords DEF Without

LEMMA InitTInv == Init => TInv
<1> SUFFICES ASSUME Init PROVE TInv OBVIOUS
<1>1. FlashOK BY KeyFacts DEF Init, FlashOK
<1>2. PinsOK /\ CallOK /\ FatesOK
  BY GpioMappingAssumption DEF Init, PinsOK, CallOK, FatesOK
<1> QED BY <1>1, <1>2 DEF TInv

LEMMA NextTInv == TInv /\ [Next]_vars => TInv'
<1> SUFFICES ASSUME TInv, [Next]_vars PROVE TInv' OBVIOUS
<1> USE DEF TInv
<1>1. CASE UNCHANGED vars
  BY <1>1 DEF vars, fates, FlashOK, PinsOK, CallOK, FatesOK
<1>2. ASSUME NEW d \in Names, NEW p \in Pins, Save(d, p) PROVE TInv'
  <2>1. Written(d, <<p>>) \/ NotWritten(d, <<p>>)
    BY <1>2 DEF Save, SaveKey, SaveKeyFails
  <2>2. FlashOK'
    <3>1. d \in Keys /\ <<p>> \in Seq(Words) /\ Len(<<p>>) <= MaxWords BY KeyFacts
    <3> QED BY <2>1, <3>1, Writes
  <2>3. CallOK' BY <1>2 DEF Save, SaveKey, SaveKeyFails, CallOK
  <2> QED BY <1>2, <2>2, <2>3 DEF Save, SaveKey, SaveKeyFails, Saving, PinsOK, FatesOK
<1>3. ASSUME NEW d \in Names, Delete(d) PROVE TInv'
  <2>1. Written(d, <<>>) \/ NotWritten(d, <<>>)
    BY <1>3 DEF Delete, DeleteKey, DeleteKeyFails
  <2>2. FlashOK'
    <3>1. d \in Keys /\ <<>> \in Seq(Words) /\ Len(<<>>) <= MaxWords BY KeyFacts
    <3> QED BY <2>1, <3>1, Writes
  <2>3. CallOK' BY <1>3 DEF Delete, DeleteKey, DeleteKeyFails, CallOK
  <2> QED BY <1>3, <2>2, <2>3
       DEF Delete, DeleteKey, DeleteKeyFails, Deleting, PinsOK, FatesOK
<1>4. CASE SaveList \/ SaveListFails
  <2>1. request.name \in Names
    BY <1>4, InCall DEF SaveList, SaveListFails, Returns
  <2>2. FlashOK'
    <3>1. CASE UNCHANGED nvs BY <3>1 DEF FlashOK
    <3>2. CASE nvs' # nvs
      BY <1>4, <2>1, <3>2, NewListFits, Writes, KeyFacts DEF SaveList, SaveListFails
    <3> QED BY <3>1, <3>2
  <2>3. CallOK' BY <1>4 DEF SaveList, SaveListFails, Returns, CallOK
  <2>4. PinsOK' BY <1>4 DEF SaveList, SaveListFails, Returns, PinsOK
  <2>5. FatesOK' BY <1>4, <2>1 DEF SaveList, SaveListFails, Returns, FatesOK, fates
  <2> QED BY <2>2, <2>3, <2>4, <2>5
<1>5. CASE DeleteFromList \/ DeleteFromListFails
  <2>1. request.name \in Names
    BY <1>5, InCall DEF DeleteFromList, DeleteFromListFails, Returns
  <2>2. FlashOK'
    BY <1>5, WithoutFits, Writes, KeyFacts DEF DeleteFromList, DeleteFromListFails
  <2>3. CallOK' BY <1>5 DEF DeleteFromList, DeleteFromListFails, Returns, CallOK
  <2>4. PinsOK' BY <1>5 DEF DeleteFromList, DeleteFromListFails, Returns, PinsOK
  <2>5. FatesOK' BY <1>5, <2>1 DEF DeleteFromList, DeleteFromListFails, Returns, FatesOK, fates
  <2> QED BY <2>2, <2>3, <2>4, <2>5
<1>6. CASE Memory
  <2>1. PICK key \in Names \cup {List} :
           MemoryDelete(key) \/ \E text \in Texts : MemorySet(key, text)
    BY <1>6 DEF Memory
  <2>2. MemoryTool(key) BY <2>1 DEF MemoryDelete, MemorySet
  <2>3. FlashOK'
    <3>1. CASE MemoryDelete(key)
      <4>1. key \in Keys /\ <<>> \in Seq(Words) /\ Len(<<>>) <= MaxWords BY KeyFacts
      <4> QED BY <3>1, <4>1, Writes DEF MemoryDelete
    <3>2. CASE \E text \in Texts : MemorySet(key, text)
      <4>1. PICK text \in Texts : MemorySet(key, text) BY <3>2
      <4>2. text \in Seq(Words) /\ Len(text) <= MaxWords BY KeyFacts
      <4> QED BY <4>1, <4>2, Writes, KeyFacts DEF MemorySet
    <3> QED BY <2>1, <3>1, <3>2
  <2> QED BY <2>2, <2>3 DEF MemoryTool, PinsOK, CallOK, FatesOK
<1>7. ASSUME NEW p, Drive(p) PROVE TInv'
  BY <1>7 DEF Drive, FlashOK, PinsOK, CallOK, FatesOK, fates
<1>8. CASE Restart
  BY <1>8, GpioMappingAssumption DEF Restart, FlashOK, PinsOK, CallOK, FatesOK, fates
<1> QED BY <1>1, <1>2, <1>3, <1>4, <1>5, <1>6, <1>7, <1>8 DEF Next, WriteByName

\* Every variable stays in its range, the list within its buffer, and no pin is
\* driven that the firmware does not allow: whatever the names are, and whatever
\* the memory tools write into the keys.
THEOREM TypeCorrect == Spec => []TypeOK
<1>1. TInv => TypeOK BY DEF TInv, FlashOK, PinsOK, CallOK, FatesOK, TypeOK
<1> QED BY <1>1, InitTInv, NextTInv, PTL DEF Spec

-----------------------------------------------------------------------------
(* The names and the pins, for names of one word *)

\* The name is one word of the list.
In(d, words) == \E i \in DOMAIN words : <<words[i]>> = d

\* The list that list_add_device stores has the name, and else what it had.
LEMMA Added ==
    ASSUME FlashOK, OneWordNames, NEW n \in Names
    PROVE  \A d : In(d, NewList(n)) <=> In(d, nvs[List]) \/ d = n
<1>1. /\ nvs[List] \in Seq(Words) /\ n \in Seq(Words) /\ Len(n) = 1
  BY KeyFacts DEF FlashOK, OneWordNames
<1>2. n = <<n[1]>> /\ DOMAIN n = {1} BY <1>1
<1>3. CASE Listed(n) BY <1>3 DEF NewList, Listed, In
<1>4. CASE ~Listed(n)
  <2> DEFINE words == nvs[List]
             new == words \o n
  <2>1. /\ NewList(n) = new /\ DOMAIN words = 1..Len(words) /\ Len(words) \in Nat
    BY <1>1, <1>4 DEF NewList
  <2>2. /\ new \in Seq(Words) /\ Len(new) = Len(words) + 1
        /\ \A i \in 1..(Len(words) + 1) :
              new[i] = IF i <= Len(words) THEN words[i] ELSE n[i - Len(words)]
    BY <1>1, ConcatProperties
  <2> HIDE DEF new, words
  <2>3. DOMAIN new = 1..(Len(words) + 1) BY <2>2
  <2>4. \A i \in DOMAIN words : i \in DOMAIN new /\ new[i] = words[i]
    BY <2>1, <2>2, <2>3
  <2>5. Len(words) + 1 \in DOMAIN new /\ new[Len(words) + 1] = n[1]
    BY <2>1, <2>2, <2>3
  <2>6. \A i \in DOMAIN new : i \in DOMAIN words \/ i = Len(words) + 1
    BY <2>1, <2>3
  <2>7. ASSUME NEW d PROVE In(d, new) <=> In(d, words) \/ d = n
    <3>1. In(d, words) => In(d, new) BY <2>4 DEF In
    <3>2. d = n => In(d, new) BY <1>2, <2>5 DEF In
    <3>3. In(d, new) => In(d, words) \/ d = n BY <1>2, <2>4, <2>5, <2>6 DEF In
    <3> QED BY <3>1, <3>2, <3>3
  <2> QED BY <2>1, <2>7 DEF words
<1> QED BY <1>3, <1>4

\* The list that list_remove_device stores has not the name, and else what it had.
LEMMA Removed ==
    ASSUME FlashOK, NEW n
    PROVE  \A d : In(d, Without(n)) <=> In(d, nvs[List]) /\ d # n
<1> DEFINE words == nvs[List]
           copy == Without(n)
<1>1. /\ \A i \in DOMAIN copy : /\ <<copy[i]>> # n
                                 /\ \E j \in DOMAIN words : words[j] = copy[i]
      /\ \A j \in DOMAIN words :
            <<words[j]>> # n => \E i \in DOMAIN copy : copy[i] = words[j]
  BY WithoutFits
<1> HIDE DEF words, copy
<1>2. ASSUME NEW d, In(d, copy) PROVE In(d, words) /\ d # n BY <1>1, <1>2 DEF In
<1>3. ASSUME NEW d, In(d, words), d # n PROVE In(d, copy) BY <1>1, <1>3 DEF In
<1> QED BY <1>2, <1>3 DEF words, copy

LEMMA InitIInv == Init => IInv
BY InitTInv, Calls DEF Init, IInv, SaveBegun, DeleteBegun, SavedIsKept, PinsDiffer, DeletedIsGone

\* A save writes the device's key: with a pin that no saved mapping has, as all of
\* these are in the list.
LEMMA SaveWrites ==
    ASSUME OneWordNames, IInv, NEW n \in Names, NEW p \in Pins, Save(n, p)
    PROVE  /\ request = Idle /\ saved' = saved /\ gone' = gone \ {n}
           /\ saved \subseteq Names /\ gone \subseteq Names
           /\ nvs'[n] \in {nvs[n], <<p>>} /\ (Written(n, <<p>>) => nvs'[n] = <<p>>)
           /\ nvs'[List] = nvs[List] /\ \A d \in Names : d # n => nvs'[d] = nvs[d]
           /\ \A d \in saved : d # n => nvs[d][1] # p
<1>1. Saving(n, p) /\ (Written(n, <<p>>) \/ NotWritten(n, <<p>>))
  BY DEF Save, SaveKey, SaveKeyFails
<1>2. /\ request = Idle /\ saved' = saved /\ gone' = gone \ {n} /\ ~Taken(n, p)
      /\ saved \subseteq Names /\ gone \subseteq Names
  BY <1>1 DEF Saving, IInv, TInv, FatesOK
<1>3. /\ \A k \in Keys : k # n => nvs'[k] = nvs[k]
      /\ nvs'[n] \in {nvs[n], <<p>>} /\ (Written(n, <<p>>) => nvs'[n] = <<p>>)
  <2>1. n \in Keys /\ <<p>> \in Seq(Words) /\ Len(<<p>>) <= MaxWords BY KeyFacts
  <2> QED BY <1>1, <2>1, Writes DEF IInv, TInv
<1>4. nvs'[List] = nvs[List] /\ \A d \in Names : d # n => nvs'[d] = nvs[d]
  BY <1>3, KeyFacts DEF OneWordNames
<1>5. \A d \in saved : d # n => nvs[d][1] # p
  <2> SUFFICES ASSUME NEW d \in saved, d # n PROVE nvs[d][1] # p OBVIOUS
  <2>1. Exists(d) /\ nvs[d][1] \in Pins /\ Listed(d) BY DEF IInv, SavedIsKept
  <2>2. atoi(nvs[d]) = nvs[d][1] BY <2>1 DEF atoi, Exists
  <2> QED BY <1>2, <2>1, <2>2 DEF Taken, Listed
<1> QED BY <1>2, <1>3, <1>4, <1>5

\* So it keeps the invariant.
LEMMA SaveKeeps ==
    ASSUME OneWordNames, IInv, TInv', NEW n \in Names, NEW p \in Pins, Save(n, p)
    PROVE  IInv'
<1>1. \/ request' = [call |-> "save", name |-> n] /\ Written(n, <<p>>)
      \/ request' = request
  BY DEF Save, SaveKey, SaveKeyFails
<1>2. /\ request = Idle /\ saved' = saved /\ gone' = gone \ {n}
      /\ saved \subseteq Names /\ gone \subseteq Names
  BY SaveWrites
<1>3. nvs'[n] \in {nvs[n], <<p>>} /\ (Written(n, <<p>>) => nvs'[n] = <<p>>) BY SaveWrites
<1>4. nvs'[List] = nvs[List] /\ \A d \in Names : d # n => nvs'[d] = nvs[d] BY SaveWrites
<1>5. \A d \in saved : d # n => nvs[d][1] # p BY SaveWrites
<1>6. SaveBegun'
  <2>1. CASE request' = request BY <1>2, <2>1, Calls DEF SaveBegun
  <2>2. CASE request' = [call |-> "save", name |-> n] /\ Written(n, <<p>>)
    <3>1. request'.name = n /\ nvs'[n] = <<p>> BY <1>3, <2>2
    <3>2. \A d \in saved : d # n => nvs'[d][1] # p BY <1>2, <1>4, <1>5
    <3> QED BY <1>2, <3>1, <3>2, KeyFacts DEF SaveBegun
  <2> QED BY <1>1, <2>1, <2>2
<1>7. DeleteBegun' BY <1>1, <1>2, Calls DEF DeleteBegun
<1>8. SavedIsKept'
  <2> SUFFICES ASSUME NEW d \in saved
               PROVE  nvs'[d] # <<>> /\ nvs'[d][1] \in Pins /\ Listed(d)'
    BY <1>2 DEF SavedIsKept, Exists
  <2>1. Listed(d)' BY <1>4 DEF IInv, SavedIsKept, Listed
  <2>2. nvs[d] # <<>> /\ nvs[d][1] \in Pins BY DEF IInv, SavedIsKept, Exists
  <2>3. nvs'[d] = nvs[d] \/ nvs'[d] = <<p>> BY <1>2, <1>3, <1>4
  <2> QED BY <2>1, <2>2, <2>3, KeyFacts
<1>9. PinsDiffer'
  <2> SUFFICES ASSUME NEW d \in saved, NEW e \in saved, d # e
               PROVE  nvs'[d][1] # nvs'[e][1]
    BY <1>2 DEF PinsDiffer
  <2>1. nvs[d][1] # nvs[e][1] BY DEF IInv, PinsDiffer
  <2>2. (d # n => nvs'[d] = nvs[d]) /\ (e # n => nvs'[e] = nvs[e]) BY <1>2, <1>4
  <2>3. (nvs'[n] = nvs[n] \/ nvs'[n] = <<p>>) /\ <<p>>[1] = p BY <1>3
  <2> QED BY <1>5, <2>1, <2>2, <2>3
<1>10. DeletedIsGone' BY <1>2, <1>4 DEF IInv, DeletedIsGone, Exists, Listed
<1> QED BY <1>6, <1>7, <1>8, <1>9, <1>10 DEF IInv

\* Then it writes the list.
LEMMA SaveListKeeps ==
    ASSUME OneWordNames, IInv, TInv', SaveList \/ SaveListFails PROVE IInv'
<1>0. PICK n \in Names : n = request.name
  BY InCall DEF SaveList, SaveListFails, Returns, IInv, TInv
<1>1. /\ request.call = "save" /\ request' = Idle /\ gone' = gone
      /\ saved \subseteq Names /\ gone \subseteq Names
  BY DEF SaveList, SaveListFails, Returns, fates, IInv, TInv, FatesOK
<1>2. \/ saved' = saved \cup {n} /\ Written(List, NewList(n)) /\ SaveList
      \/ saved' = saved /\ (nvs' = nvs \/ (NotWritten(List, NewList(n)) /\ HasRoom(n)))
  <2>1. CASE SaveList BY <1>0, <2>1 DEF SaveList
  <2>2. CASE SaveListFails BY <1>0, <2>2 DEF SaveListFails, fates
  <2> QED BY <2>1, <2>2
<1>3. /\ \A d \in Names : nvs'[d] = nvs[d]
      /\ nvs'[List] \in {nvs[List], NewList(n)}
      /\ SaveList => nvs'[List] = NewList(n)
  <2>1. CASE nvs' = nvs /\ ~SaveList BY <2>1
  <2>2. CASE ~(nvs' = nvs /\ ~SaveList)
    <3>1. /\ Written(List, NewList(n)) \/ NotWritten(List, NewList(n))
          /\ SaveList => Written(List, NewList(n))
          /\ Listed(n) \/ HasRoom(n)
      BY <1>0, <1>2, <2>2 DEF SaveList, SaveListFails, NotWritten
    <3>2. NewList(n) \in Seq(Words) /\ Len(NewList(n)) <= MaxWords
      BY <1>1, <3>1, NewListFits DEF IInv, TInv
    <3> QED BY <3>1, <3>2, Writes, KeyFacts DEF IInv, TInv, OneWordNames
  <2> QED BY <2>1, <2>2
<1>4. \A d : In(d, NewList(n)) <=> In(d, nvs[List]) \/ d = n
  BY <1>1, Added DEF IInv, TInv
<1>5. /\ \A d \in Names : Listed(d) => Listed(d)'
      /\ \A d \in Names : Listed(d)' => Listed(d) \/ d = n
      /\ SaveList => Listed(n)'
  <2>1. \A d : (Listed(d) <=> In(d, nvs[List])) /\ (Listed(d)' <=> In(d, nvs'[List]))
    BY DEF Listed, In
  <2>2. CASE nvs'[List] = nvs[List] /\ ~SaveList BY <2>1, <2>2
  <2>3. CASE nvs'[List] = NewList(n)
    <3>1. \A d : Listed(d)' <=> Listed(d) \/ d = n BY <1>4, <2>1, <2>3
    <3> QED BY <3>1
  <2> QED BY <1>3, <2>2, <2>3
<1>6. SaveBegun' /\ DeleteBegun' BY <1>1, Calls DEF SaveBegun, DeleteBegun
<1>7. /\ nvs[n] # <<>> /\ nvs[n][1] \in Pins /\ n \notin gone
      /\ \A d \in saved : d # n => nvs[d][1] # nvs[n][1]
  BY <1>0, <1>1 DEF IInv, SaveBegun
<1>8. SavedIsKept'
  <2> SUFFICES ASSUME NEW d \in saved'
               PROVE  nvs'[d] # <<>> /\ nvs'[d][1] \in Pins /\ Listed(d)'
    BY DEF SavedIsKept, Exists
  <2>1. CASE d \in saved BY <1>1, <1>3, <1>5, <2>1 DEF IInv, SavedIsKept, Exists
  <2>2. CASE d \notin saved
    <3>1. d = n /\ SaveList BY <1>2, <2>2
    <3>2. nvs'[d] = nvs[n] /\ Listed(d)' BY <1>1, <1>3, <1>5, <3>1
    <3> QED BY <1>7, <3>2
  <2> QED BY <2>1, <2>2
<1>9. PinsDiffer'
  <2> SUFFICES ASSUME NEW d \in saved', NEW e \in saved', d # e
               PROVE  nvs[d][1] # nvs[e][1]
    BY <1>1, <1>2, <1>3 DEF PinsDiffer
  <2>1. d \in saved \cup {n} /\ e \in saved \cup {n} BY <1>2
  <2> QED BY <1>7, <2>1 DEF IInv, PinsDiffer
<1>10. DeletedIsGone' BY <1>1, <1>3, <1>5, <1>7 DEF IInv, DeletedIsGone, Exists
<1> QED BY <1>6, <1>8, <1>9, <1>10 DEF IInv

\* A deletion takes the device's key.
LEMMA DeleteKeeps ==
    ASSUME OneWordNames, IInv, TInv', NEW n \in Names, Delete(n) PROVE IInv'
<1>1. /\ Deleting(n) /\ (Written(n, <<>>) \/ NotWritten(n, <<>>))
      /\ \/ request' = [call |-> "delete", name |-> n] /\ Written(n, <<>>)
         \/ request' = request
  BY DEF Delete, DeleteKey, DeleteKeyFails
<1>2. /\ request = Idle /\ saved' = saved \ {n} /\ gone' = gone /\ Exists(n)
      /\ saved \subseteq Names /\ gone \subseteq Names
  BY <1>1 DEF Deleting, IInv, TInv, FatesOK
<1>3. /\ \A k \in Keys : k # n => nvs'[k] = nvs[k]
      /\ Written(n, <<>>) => nvs'[n] = <<>>
  <2>1. n \in Keys /\ <<>> \in Seq(Words) /\ Len(<<>>) <= MaxWords BY KeyFacts
  <2> QED BY <1>1, <2>1, Writes DEF IInv, TInv
<1>4. nvs'[List] = nvs[List] /\ \A d \in Names : d # n => nvs'[d] = nvs[d]
  BY <1>3, KeyFacts DEF OneWordNames
<1>5. SaveBegun' BY <1>1, <1>2, Calls DEF SaveBegun
<1>6. DeleteBegun'
  <2>1. CASE request' = request BY <1>2, <2>1, Calls DEF DeleteBegun
  <2>2. CASE request' = [call |-> "delete", name |-> n] /\ Written(n, <<>>)
    <3>1. request'.name = n /\ nvs'[n] = <<>> BY <1>3, <2>2
    <3> QED BY <1>2, <3>1 DEF DeleteBegun, Exists
  <2> QED BY <1>1, <2>1, <2>2
<1>7. SavedIsKept' BY <1>2, <1>4 DEF IInv, SavedIsKept, Exists, Listed
<1>8. PinsDiffer' BY <1>2, <1>4 DEF IInv, PinsDiffer
<1>9. DeletedIsGone'
  <2>1. \A d \in gone : d # n BY <1>2 DEF IInv, DeletedIsGone
  <2> QED BY <1>2, <1>4, <2>1 DEF IInv, DeletedIsGone, Exists, Listed
<1> QED BY <1>5, <1>6, <1>7, <1>8, <1>9 DEF IInv

\* Then it writes the list without the name.
LEMMA DeleteFromListKeeps ==
    ASSUME OneWordNames, IInv, TInv', DeleteFromList \/ DeleteFromListFails PROVE IInv'
<1>0. PICK n \in Names : n = request.name
  BY InCall DEF DeleteFromList, DeleteFromListFails, Returns, IInv, TInv
<1>1. /\ request.call = "delete" /\ request' = Idle /\ saved' = saved
      /\ saved \subseteq Names /\ gone \subseteq Names
      /\ Written(List, Without(n)) \/ NotWritten(List, Without(n))
  BY <1>0 DEF DeleteFromList, DeleteFromListFails, Returns, fates, IInv, TInv, FatesOK
<1>2. \/ gone' = gone \cup {n} /\ Written(List, Without(n))
      \/ gone' = gone
  BY <1>0 DEF DeleteFromList, DeleteFromListFails, fates
<1>3. /\ \A d \in Names : nvs'[d] = nvs[d]
      /\ nvs'[List] \in {nvs[List], Without(n)}
      /\ Written(List, Without(n)) => nvs'[List] = Without(n)
  <2>1. Without(n) \in Seq(Words) /\ Len(Without(n)) <= MaxWords
    BY WithoutFits DEF IInv, TInv
  <2> QED BY <1>1, <2>1, Writes, KeyFacts DEF IInv, TInv, OneWordNames
<1>4. \A d : (Listed(d) <=> In(d, nvs[List])) /\ (Listed(d)' <=> In(d, nvs'[List]))
  BY DEF Listed, In
<1>5. \A d : In(d, Without(n)) <=> In(d, nvs[List]) /\ d # n BY Removed DEF IInv, TInv
<1>6. /\ \A d \in Names : d # n => (Listed(d)' <=> Listed(d))
      /\ \A d \in Names : Listed(d)' => Listed(d)
      /\ Written(List, Without(n)) => ~Listed(n)'
  <2>1. CASE nvs'[List] = Without(n) BY <1>4, <1>5, <2>1
  <2>2. CASE nvs'[List] # Without(n) BY <1>3, <1>4, <2>2
  <2> QED BY <2>1, <2>2
<1>7. nvs[n] = <<>> /\ n \notin saved BY <1>0, <1>1 DEF IInv, DeleteBegun, Exists
<1>8. SaveBegun' /\ DeleteBegun' BY <1>1, Calls DEF SaveBegun, DeleteBegun
<1>9. SavedIsKept'
  <2> SUFFICES ASSUME NEW d \in saved
               PROVE  nvs'[d] # <<>> /\ nvs'[d][1] \in Pins /\ Listed(d)'
    BY <1>1 DEF SavedIsKept, Exists
  <2>1. d # n /\ d \in Names BY <1>1, <1>7
  <2>2. nvs[d] # <<>> /\ nvs[d][1] \in Pins /\ Listed(d) BY DEF IInv, SavedIsKept, Exists
  <2> QED BY <1>3, <1>6, <2>1, <2>2
<1>10. PinsDiffer' BY <1>1, <1>3 DEF IInv, PinsDiffer
<1>11. DeletedIsGone'
  <2> SUFFICES ASSUME NEW d \in gone' PROVE nvs'[d] = <<>> /\ ~Listed(d)'
    BY DEF DeletedIsGone, Exists
  <2>1. CASE d \in gone
    <3>1. nvs[d] = <<>> /\ ~Listed(d) BY <2>1 DEF IInv, DeletedIsGone, Exists
    <3> QED BY <1>1, <1>3, <1>6, <2>1, <3>1
  <2>2. CASE d \notin gone
    <3>1. d = n /\ Written(List, Without(n)) BY <1>2, <2>2
    <3> QED BY <1>3, <1>6, <1>7, <3>1
  <2> QED BY <2>1, <2>2
<1> QED BY <1>8, <1>9, <1>10, <1>11 DEF IInv

\* The memory tools write any key; nothing is said of its device from then on.
LEMMA MemoryKeeps == ASSUME OneWordNames, IInv, TInv', Memory PROVE IInv'
<1>1. PICK key \in Names \cup {List} :
         MemoryDelete(key) \/ \E text \in Texts : MemorySet(key, text)
  BY DEF Memory
<1>2. MemoryTool(key) BY <1>1 DEF MemoryDelete, MemorySet
<1>3. /\ request = Idle /\ request' = Idle
      /\ saved' = (IF key = List THEN {} ELSE saved \ {key})
      /\ gone' = (IF key = List THEN {} ELSE gone \ {key})
      /\ saved \subseteq Names /\ gone \subseteq Names
  BY <1>2 DEF MemoryTool, IInv, TInv, FatesOK
<1>4. \A k \in Keys : k # key => nvs'[k] = nvs[k]
  <2>1. CASE MemoryDelete(key)
    <3>1. key \in Keys /\ <<>> \in Seq(Words) /\ Len(<<>>) <= MaxWords BY KeyFacts
    <3> QED BY <2>1, <3>1, Writes DEF MemoryDelete, IInv, TInv
  <2>2. CASE \E text \in Texts : MemorySet(key, text)
    <3>1. PICK text \in Texts : MemorySet(key, text) BY <2>2
    <3>2. key \in Keys /\ text \in Seq(Words) /\ Len(text) <= MaxWords BY KeyFacts
    <3> QED BY <3>1, <3>2, Writes DEF MemorySet, IInv, TInv
  <2> QED BY <1>1, <2>1, <2>2
<1>5. SaveBegun' /\ DeleteBegun' BY <1>3, Calls DEF SaveBegun, DeleteBegun
<1>6. CASE key = List
  <2>1. saved' = {} /\ gone' = {} BY <1>3, <1>6
  <2>2. SavedIsKept' /\ PinsDiffer' /\ DeletedIsGone'
    BY <2>1 DEF SavedIsKept, PinsDiffer, DeletedIsGone
  <2> QED BY <1>5, <2>2 DEF IInv
<1>7. CASE key # List
  <2>1. /\ saved' = saved \ {key} /\ gone' = gone \ {key} /\ nvs'[List] = nvs[List]
        /\ \A d \in Names : d # key => nvs'[d] = nvs[d]
    BY <1>3, <1>4, <1>7, KeyFacts
  <2>2. SavedIsKept' BY <1>3, <2>1 DEF IInv, SavedIsKept, Exists, Listed
  <2>3. PinsDiffer' BY <1>3, <2>1 DEF IInv, PinsDiffer
  <2>4. DeletedIsGone' BY <1>3, <2>1 DEF IInv, DeletedIsGone, Exists, Listed
  <2> QED BY <1>5, <2>2, <2>3, <2>4 DEF IInv
<1> QED BY <1>6, <1>7

\* What does not write flash changes at most the call.
LEMMA OthersKeep ==
    ASSUME IInv, TInv', UNCHANGED <<nvs, saved, gone>>, request' \in {request, Idle}
    PROVE  IInv'
<1>1. SaveBegun' /\ DeleteBegun'
  BY Calls DEF IInv, SaveBegun, DeleteBegun, Exists
<1>2. SavedIsKept' /\ PinsDiffer' /\ DeletedIsGone'
  BY DEF IInv, SavedIsKept, PinsDiffer, DeletedIsGone, Exists, Listed
<1> QED BY <1>1, <1>2 DEF IInv

\* Every step keeps the invariant.
LEMMA NextIInv == ASSUME OneWordNames, IInv, [Next]_vars PROVE IInv'
<1>0. TInv' BY NextTInv DEF IInv
<1>1. CASE UNCHANGED vars BY <1>0, <1>1, OthersKeep DEF vars, fates
<1>2. CASE Restart BY <1>0, <1>2, OthersKeep DEF Restart, fates
<1>3. ASSUME NEW p, Drive(p) PROVE IInv' BY <1>0, <1>3, OthersKeep DEF Drive, fates
<1> QED BY <1>0, <1>1, <1>2, <1>3, SaveKeeps, SaveListKeeps, DeleteKeeps,
           DeleteFromListKeeps, MemoryKeeps DEF Next, WriteByName

\* The invariant holds in every reachable state.
THEOREM Inductive == ASSUME OneWordNames PROVE Spec => []IInv
<1>1. IInv /\ [Next]_vars => IInv' BY NextIInv
<1> QED BY <1>1, InitIInv, PTL DEF Spec

-----------------------------------------------------------------------------
\* A mapping that was saved with success stays, in its key and in the list, whatever
\* other calls fail or are cut short.
THEOREM SavedStays == ASSUME OneWordNames PROVE Spec => []SavedIsKept
<1>1. IInv => SavedIsKept BY DEF IInv
<1> QED BY <1>1, Inductive, PTL

\* No two devices whose mappings were saved with success share a pin.
THEOREM PinsOfTheirOwn == ASSUME OneWordNames PROVE Spec => []SavedPinsDiffer
<1>1. IInv => SavedPinsDiffer
  <2> SUFFICES ASSUME IInv, NEW d \in saved, NEW e \in saved, d # e
               PROVE  atoi(nvs[d]) # atoi(nvs[e])
    BY DEF SavedPinsDiffer
  <2>1. atoi(nvs[d]) = nvs[d][1] /\ atoi(nvs[e]) = nvs[e][1]
    BY DEF IInv, SavedIsKept, Exists, atoi
  <2> QED BY <2>1 DEF IInv, PinsDiffer
<1> QED BY <1>1, Inductive, PTL

\* A device that was deleted with success is neither found nor listed.
THEOREM DeletedStaysAway == ASSUME OneWordNames PROVE Spec => []DeletedIsGone
<1>1. IInv => DeletedIsGone BY DEF IInv
<1> QED BY <1>1, Inductive, PTL

-----------------------------------------------------------------------------
(* The devices saved with success are Mappings *)

\* The refinement mapping: the saved devices with the pins in their keys.
PinOf == [d \in saved |-> atoi(nvs[d])]

\* The key of a saved device holds its pin.
LEMMA PinInKey ==
    ASSUME IInv, NEW d \in saved PROVE d \in Names /\ atoi(nvs[d]) = nvs[d][1]
BY DEF IInv, TInv, FatesOK, SavedIsKept, Exists, atoi

\* A write of one key leaves the others alone.
LEMMA OtherKeys ==
    ASSUME IInv, NEW key, NEW text, Written(key, text) \/ NotWritten(key, text)
    PROVE  \A k \in Keys : k # key => nvs'[k] = nvs[k]
BY DEF IInv, TInv, FlashOK, Written, NotWritten

\* Nothing is saved at first.
LEMMA InitMaps == Init => Mappings!Init
BY DEF Init, Mappings!Init

\* A step that changes neither what is saved nor its keys is not seen.
LEMMA Unseen ==
    ASSUME saved' = saved, \A d \in saved : nvs'[d] = nvs[d] PROVE PinOf' = PinOf
BY DEF PinOf, atoi

\* A step that makes saved smaller, and writes no key of those that stay, forgets.
LEMMA Forgets ==
    ASSUME NEW D, saved' = saved \ D, \A d \in saved' : nvs'[d] = nvs[d]
    PROVE  PinOf' = [d \in DOMAIN PinOf \ D |-> PinOf[d]]
BY DEF PinOf, atoi

\* A step that gives one device a pin no other saved device has maps it.
LEMMA GivesPin ==
    ASSUME IInv, IInv', NEW n, n \in saved', saved' = saved \cup {n}, NEW p, nvs'[n][1] = p,
           \A d \in saved : d # n => nvs'[d] = nvs[d] /\ nvs[d][1] # p
    PROVE  /\ \A d \in DOMAIN PinOf \ {n} : PinOf[d] # p
           /\ PinOf' = [d \in DOMAIN PinOf \cup {n} |-> IF d = n THEN p ELSE PinOf[d]]
<1>1. \A d \in saved : PinOf[d] = nvs[d][1] BY PinInKey DEF PinOf
<1>2. \A d \in saved' : atoi(nvs[d])' = nvs'[d][1] BY DEF IInv, SavedIsKept, Exists, atoi
<1>3. DOMAIN PinOf = saved BY DEF PinOf
<1>4. PinOf' = [d \in saved' |-> atoi(nvs[d])'] BY DEF PinOf
<1> HIDE DEF PinOf
<1>5. \A d \in DOMAIN PinOf \ {n} : PinOf[d] # p BY <1>1, <1>3
<1>6. \A d \in saved' : atoi(nvs[d])' = IF d = n THEN p ELSE PinOf[d] BY <1>1, <1>2
<1> QED BY <1>3, <1>4, <1>5, <1>6

\* A save of a device that is saved already gives it its new pin before the list is
\* written.
LEMMA SaveMaps ==
    ASSUME OneWordNames, IInv, IInv', NEW n \in Names, NEW p \in Pins, Save(n, p)
    PROVE  Mappings!Map(n, p) \/ PinOf' = PinOf
<1>1. /\ saved' = saved /\ nvs'[n] \in {nvs[n], <<p>>} /\ saved \subseteq Names
      /\ \A d \in Names : d # n => nvs'[d] = nvs[d]
      /\ \A d \in saved : d # n => nvs[d][1] # p
  BY SaveWrites
<1>2. CASE n \notin saved \/ nvs'[n] = nvs[n]
  <2>1. \A d \in saved : nvs'[d] = nvs[d] BY <1>1, <1>2
  <2> QED BY <1>1, <2>1, Unseen
<1>3. CASE n \in saved /\ nvs'[n] = <<p>>
  <2>1. nvs'[n][1] = p /\ saved' = saved \cup {n} BY <1>1, <1>3
  <2>2. \A d \in saved : d # n => nvs'[d] = nvs[d] /\ nvs[d][1] # p BY <1>1
  <2>3. /\ \A d \in DOMAIN PinOf \ {n} : PinOf[d] # p
        /\ PinOf' = [d \in DOMAIN PinOf \cup {n} |-> IF d = n THEN p ELSE PinOf[d]]
    BY <1>1, <1>3, <2>1, <2>2, GivesPin
  <2> QED BY <2>3 DEF Mappings!Map, PinOf
<1> QED BY <1>1, <1>2, <1>3

\* With the list written, the device is mapped.
LEMMA SaveListMaps ==
    ASSUME OneWordNames, IInv, IInv', SaveList \/ SaveListFails
    PROVE  (\E d \in Names, p \in Pins : Mappings!Map(d, p)) \/ PinOf' = PinOf
<1>1. PICK n \in Names : n = request.name
  BY InCall DEF SaveList, SaveListFails, Returns, IInv, TInv
<1>2. /\ nvs[n][1] \in Pins
      /\ \A d \in saved : d # n => nvs[d][1] # nvs[n][1]
  BY <1>1 DEF IInv, SaveBegun, SaveList, SaveListFails, Returns
<1>3. \A d \in Names : nvs'[d] = nvs[d]
  <2>1. \/ \E text : Written(List, text) \/ NotWritten(List, text)
        \/ nvs' = nvs
    BY DEF SaveList, SaveListFails
  <2> QED BY <2>1, OtherKeys, KeyFacts DEF OneWordNames
<1>4. saved \subseteq Names BY DEF IInv, TInv, FatesOK
<1>5. CASE SaveList
  <2>1. saved' = saved \cup {n} BY <1>1, <1>5 DEF SaveList
  <2>2. \A d \in saved : d # n => nvs'[d] = nvs[d] /\ nvs[d][1] # nvs[n][1] BY <1>2, <1>3, <1>4
  <2>3. nvs'[n][1] = nvs[n][1] BY <1>3
  <2> DEFINE p == nvs[n][1]
  <2>4. n \in saved' /\ nvs'[n][1] = p BY <2>1, <2>3
  <2> HIDE DEF p
  <2>5. /\ \A d \in DOMAIN PinOf \ {n} : PinOf[d] # p
        /\ PinOf' = [d \in DOMAIN PinOf \cup {n} |-> IF d = n THEN p ELSE PinOf[d]]
    BY <2>1, <2>2, <2>4, GivesPin DEF p
  <2>6. p \in Pins BY <1>2 DEF p
  <2> QED BY <2>5, <2>6 DEF Mappings!Map, PinOf
<1>6. CASE SaveListFails
  <2>1. saved' = saved BY <1>6 DEF SaveListFails, fates
  <2> QED BY <1>3, <1>4, <2>1, Unseen
<1> QED BY <1>5, <1>6

\* A deletion forgets the device with its key, whether or not it is written.
LEMMA DeleteForgets ==
    ASSUME OneWordNames, IInv, NEW n \in Names, Delete(n) PROVE Mappings!Forget({n})
<1>1. /\ saved' = saved \ {n} /\ saved \subseteq Names
      /\ Written(n, <<>>) \/ NotWritten(n, <<>>)
  BY DEF Delete, DeleteKey, DeleteKeyFails, Deleting, IInv, TInv, FatesOK
<1>2. \A d \in saved' : nvs'[d] = nvs[d] BY <1>1, OtherKeys, KeyFacts
<1> QED BY <1>1, <1>2, Forgets DEF Mappings!Forget, PinOf

\* The list is then written without it, which is not seen.
LEMMA DeleteFromListUnseen ==
    ASSUME OneWordNames, IInv, DeleteFromList \/ DeleteFromListFails PROVE PinOf' = PinOf
<1>1. saved' = saved /\ saved \subseteq Names
  BY DEF DeleteFromList, DeleteFromListFails, fates, IInv, TInv, FatesOK
<1>2. \E text : Written(List, text) \/ NotWritten(List, text)
  BY DEF DeleteFromList, DeleteFromListFails
<1>3. \A d \in saved : nvs'[d] = nvs[d] BY <1>1, <1>2, OtherKeys, KeyFacts DEF OneWordNames
<1> QED BY <1>1, <1>3, Unseen

\* A memory tool that writes a device's key, or the list's, forgets it, or all.
LEMMA MemoryForgets ==
    ASSUME IInv, Memory
    PROVE  Mappings!Forget(Names) \/ \E d \in Names : Mappings!Forget({d})
<1>1. PICK key \in Names \cup {List} :
         MemoryDelete(key) \/ \E text \in Texts : MemorySet(key, text)
  BY DEF Memory
<1>2. /\ saved \subseteq Names /\ saved' = IF key = List THEN {} ELSE saved \ {key}
      /\ \E text : Written(key, text) \/ NotWritten(key, text)
  BY <1>1 DEF MemoryDelete, MemorySet, MemoryTool, IInv, TInv, FatesOK
<1>3. CASE key = List
  <2>1. saved' = saved \ Names BY <1>2, <1>3
  <2> QED BY <2>1, <1>2, <1>3, Forgets DEF Mappings!Forget, PinOf
<1>4. CASE key # List
  <2>1. key \in Names /\ saved' = saved \ {key} BY <1>2, <1>4
  <2>2. \A d \in saved' : nvs'[d] = nvs[d] BY <1>2, <2>1, OtherKeys, KeyFacts
  <2> QED BY <2>1, <2>2, Forgets DEF Mappings!Forget, PinOf
<1> QED BY <1>3, <1>4

\* Every step is one of Mappings, or none.
LEMMA StepMaps ==
    ASSUME OneWordNames, IInv, IInv', [Next]_vars PROVE Mappings!Next \/ PinOf' = PinOf
<1>1. CASE UNCHANGED vars BY <1>1, Unseen DEF vars, fates
<1>2. CASE Restart BY <1>2, Unseen DEF Restart, fates
<1>3. ASSUME NEW p, Drive(p) PROVE PinOf' = PinOf BY <1>3, Unseen DEF Drive, fates
<1>4. ASSUME NEW n \in Names, NEW p \in Pins, Save(n, p)
      PROVE  Mappings!Next \/ PinOf' = PinOf
  BY <1>4, SaveMaps DEF Mappings!Next
<1>5. ASSUME NEW n \in Names, Delete(n) PROVE Mappings!Next
  BY <1>5, DeleteForgets DEF Mappings!Next
<1>6. CASE Memory BY <1>6, MemoryForgets DEF Mappings!Next
<1>7. CASE SaveList \/ SaveListFails BY <1>7, SaveListMaps DEF Mappings!Next
<1>8. CASE DeleteFromList \/ DeleteFromListFails BY <1>8, DeleteFromListUnseen
<1> QED BY <1>1, <1>2, <1>3, <1>4, <1>5, <1>6, <1>7, <1>8 DEF Next, WriteByName

\* The mappings saved with success are Mappings: between and within calls a device
\* keeps its pin until a step gives it another, that no other has, or forgets it.
THEOREM Refinement == ASSUME OneWordNames PROVE Spec => ImplementsMappings
<1>1. Init => Mappings!Init BY InitMaps
<1>2. IInv /\ IInv' /\ [Next]_vars => [Mappings!Next]_PinOf BY StepMaps
<1>3. IInv /\ IInv' /\ [Next]_vars => [Mappings!Next]_([d \in saved |-> atoi(nvs[d])])
  BY <1>2 DEF PinOf
<1> QED BY <1>1, <1>3, Inductive, PTL DEF Spec, ImplementsMappings, Mappings!Spec

=============================================================================
