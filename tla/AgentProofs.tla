---------------------------- MODULE AgentProofs ----------------------------
(* Proofs about Agent, for every value of its constants. *)
EXTENDS Agent, TLAPS

-----------------------------------------------------------------------------
(* The inductive invariant *)

\* Every tool_use is followed at once by its tool_result, and every tool_result
\* but one in front, whose tool_use was dropped, is preceded by its tool_use.
Paired(h) ==
    /\ \A i \in 1..Len(h) : h[i].kind = "tool_use" =>
          i < Len(h) /\ h[i + 1] = [kind |-> "tool_result", id |-> h[i].id]
    /\ \A i \in 2..Len(h) : h[i].kind = "tool_result" =>
          h[i - 1] = [kind |-> "tool_use", id |-> h[i].id]

LlmPcs == {"loop", "rate", "request", "parse"}

\* How many entries the turn has added: the user message, then a tool_use and a
\* tool_result in each finished round.
Added == IF pc = "loop" THEN 2 * rounds + 1 ELSE 2 * rounds - 1

\* In a turn that began at length m and added n entries, those alternate, ending
\* with a user message or a tool_result; either nothing was dropped since it
\* began, or the buffer is full and was less full than that at its start. All
\* lengths between turns are even, so cutting back to one of them removes tool
\* calls whole.
Shape(h, m, n) ==
    /\ \A i \in 1..Len(h) :
          Len(h) - i < n /\ (Len(h) - i) % 2 = 0 => h[i].kind # "tool_use"
    /\ \/ Len(h) = m + n /\ h[m + 1].kind = "user"
       \/ Len(h) = MaxHistory /\ MaxHistory < m + n

TurnShape == Shape(s_history, history_turn_start, Added)

HistoryInv ==
    /\ Paired(s_history)
    /\ history_turn_start % 2 = 0
    /\ pc = "route" => history_turn_start = Len(s_history)
    /\ pc \in LlmPcs => TurnShape
    /\ pc \in LlmPcs \ {"loop"} => rounds >= 1
    /\ pc \notin LlmPcs => Len(s_history) % 2 = 0

\* What has been sent for the message so far, and how that depends on where the
\* agent is.
AnswerInv ==
    /\ AnsweredOnce
    /\ pc \in LlmPcs \cup {"route"} => outcome = "none" /\ answers = 0
    /\ pc \in {"send_channel", "send_telegram"} =>
          answers = 0 /\ outcome \notin Silent \cup {"none"}
    /\ pc \in {"finish", "perform"} => answers = 1
    /\ pc = "finish" => outcome \in TurnOutcomes
    /\ pc = "perform" => outcome \in Restarts

IInv == TypeOK /\ HistoryInv /\ AnswerInv /\ PausedExactlyInTurn

-----------------------------------------------------------------------------
(* Lemmas about the history operators *)

\* history_add keeps the entries but the oldest of a full buffer, and puts the
\* new one last.
LEMMA AddResult ==
    ASSUME NEW h \in Seq(Entry), Len(h) <= MaxHistory, NEW e \in Entry
    PROVE  LET a == history_add(h, e) IN
           /\ a \in Seq(Entry) /\ Len(a) <= MaxHistory /\ Len(a) >= 1
           /\ Len(a) = IF Len(h) = MaxHistory THEN MaxHistory ELSE Len(h) + 1
           /\ a[Len(a)] = e
           /\ Len(h) = MaxHistory => \A i \in 1..(Len(a) - 1) : a[i] = h[i + 1]
           /\ Len(h) < MaxHistory => \A i \in 1..(Len(a) - 1) : a[i] = h[i]
<1> USE AgentAssumption
<1> DEFINE a == history_add(h, e)
<1>1. CASE Len(h) = MaxHistory
  <2>1. h # << >>
    BY <1>1
  <2>2. Tail(h) \in Seq(Entry) /\ Len(Tail(h)) = Len(h) - 1
    BY <2>1
  <2>3. \A i \in 1..(Len(h) - 1) : Tail(h)[i] = h[i + 1]
    BY <2>1
  <2>4. a = Append(Tail(h), e)
    BY <1>1 DEF history_add
  <2> QED
    BY <1>1, <2>2, <2>3, <2>4
<1>2. CASE Len(h) < MaxHistory
  <2>1. a = Append(h, e)
    BY <1>2 DEF history_add
  <2> QED
    BY <1>2, <2>1
<1> QED
  BY <1>1, <1>2

\* Adding a plain entry keeps tool calls paired.
LEMMA AddPlainPaired ==
    ASSUME NEW h \in Seq(Entry), Len(h) <= MaxHistory, Paired(h),
           NEW e \in Entry, e.kind \in {"user", "assistant"}
    PROVE  Paired(history_add(h, e))
<1> USE AgentAssumption
<1> DEFINE a == history_add(h, e)
           s == IF Len(h) = MaxHistory THEN 1 ELSE 0
<1>0. /\ a \in Seq(Entry) /\ Len(a) >= 1
      /\ Len(a) = IF Len(h) = MaxHistory THEN MaxHistory ELSE Len(h) + 1
      /\ a[Len(a)] = e
      /\ Len(h) = MaxHistory => \A i \in 1..(Len(a) - 1) : a[i] = h[i + 1]
      /\ Len(h) < MaxHistory => \A i \in 1..(Len(a) - 1) : a[i] = h[i]
  BY AddResult
<1> HIDE DEF a
<1>1. /\ a \in Seq(Entry) /\ s \in 0..1 /\ Len(a) = Len(h) + 1 - s
      /\ a[Len(a)] = e
      /\ \A i \in 1..(Len(a) - 1) : a[i] = h[i + s]
  <2>1. CASE Len(h) = MaxHistory
    BY <1>0, <2>1
  <2>2. CASE Len(h) < MaxHistory
    BY <1>0, <2>2
  <2> QED
    BY <2>1, <2>2
<1> HIDE DEF s
<1>2. ASSUME NEW i \in 1..Len(a), a[i].kind = "tool_use"
      PROVE  i < Len(a) /\ a[i + 1] = [kind |-> "tool_result", id |-> a[i].id]
  <2>1. i < Len(a)
    BY <1>1, <1>2
  <2> DEFINE j == i + s
  <2>2. a[i] = h[j] /\ j \in 1..Len(h)
    BY <1>1, <2>1
  <2> HIDE DEF j
  <2>3. j < Len(h) /\ h[j + 1] = [kind |-> "tool_result", id |-> a[i].id]
    BY <1>2, <2>2 DEF Paired
  <2>4. i + 1 \in 1..(Len(a) - 1) /\ j + 1 = i + 1 + s
    BY <1>1, <2>3 DEF j
  <2>5. a[i + 1] = h[j + 1]
    BY <1>1, <2>4
  <2> QED
    BY <2>1, <2>3, <2>5
<1>3. ASSUME NEW i \in 2..Len(a), a[i].kind = "tool_result"
      PROVE  a[i - 1] = [kind |-> "tool_use", id |-> a[i].id]
  <2>1. i < Len(a)
    BY <1>1, <1>3
  <2> DEFINE j == i + s
  <2>2. a[i] = h[j] /\ j \in 2..Len(h)
    BY <1>1, <2>1
  <2>3. i - 1 \in 1..(Len(a) - 1) /\ j - 1 = i - 1 + s
    BY <1>1
  <2>4. a[i - 1] = h[j - 1]
    BY <1>1, <2>3
  <2> HIDE DEF j
  <2>5. h[j - 1] = [kind |-> "tool_use", id |-> a[i].id]
    BY <1>3, <2>2 DEF Paired
  <2> QED
    BY <2>4, <2>5
<1> QED
  BY <1>2, <1>3 DEF Paired, a

\* The two entries of a tool call, added one after the other.
CallEntries(h, id) ==
    history_add(history_add(h, [kind |-> "tool_use", id |-> id]),
                [kind |-> "tool_result", id |-> id])

\* A tool call leaves the history paired, and drops at most two old entries.
LEMMA CallResult ==
    ASSUME NEW h \in Seq(Entry), Len(h) <= MaxHistory,
           NEW id \in ToolIds
    PROVE  LET a == CallEntries(h, id) IN
           /\ a \in Seq(Entry) /\ Len(a) <= MaxHistory /\ Len(a) >= 2
           /\ Len(a) = IF Len(h) + 2 <= MaxHistory THEN Len(h) + 2 ELSE MaxHistory
           /\ a[Len(a)] = [kind |-> "tool_result", id |-> id]
           /\ a[Len(a) - 1] = [kind |-> "tool_use", id |-> id]
           /\ \A i \in 1..(Len(a) - 2) : a[i] = h[i + (Len(h) + 2 - Len(a))]
<1> DEFINE u == [kind |-> "tool_use", id |-> id]
           r == [kind |-> "tool_result", id |-> id]
           b == history_add(h, u)
           a == CallEntries(h, id)
<1>0. MaxHistory \in Nat /\ MaxHistory >= 2
  BY AgentAssumption
<1>1. u \in Entry /\ r \in Entry
  BY DEF Entry, EntryKinds
<1>2. /\ b \in Seq(Entry) /\ Len(b) <= MaxHistory /\ Len(b) >= 1
      /\ Len(b) = IF Len(h) = MaxHistory THEN MaxHistory ELSE Len(h) + 1
      /\ b[Len(b)] = u
      /\ Len(h) = MaxHistory => \A i \in 1..(Len(b) - 1) : b[i] = h[i + 1]
      /\ Len(h) < MaxHistory => \A i \in 1..(Len(b) - 1) : b[i] = h[i]
  BY <1>1, AddResult
<1>3. a = history_add(b, r)
  BY DEF CallEntries
<1> HIDE DEF a, b, u, r
<1>4. /\ a \in Seq(Entry) /\ Len(a) <= MaxHistory /\ Len(a) >= 1
      /\ Len(a) = IF Len(b) = MaxHistory THEN MaxHistory ELSE Len(b) + 1
      /\ a[Len(a)] = r
      /\ Len(b) = MaxHistory => \A i \in 1..(Len(a) - 1) : a[i] = b[i + 1]
      /\ Len(b) < MaxHistory => \A i \in 1..(Len(a) - 1) : a[i] = b[i]
  <2> DEFINE c == history_add(b, r)
  <2>1. /\ c \in Seq(Entry) /\ Len(c) <= MaxHistory /\ Len(c) >= 1
        /\ Len(c) = IF Len(b) = MaxHistory THEN MaxHistory ELSE Len(b) + 1
        /\ c[Len(c)] = r
        /\ Len(b) = MaxHistory => \A i \in 1..(Len(c) - 1) : c[i] = b[i + 1]
        /\ Len(b) < MaxHistory => \A i \in 1..(Len(c) - 1) : c[i] = b[i]
    BY <1>1, <1>2, AddResult
  <2> QED
    BY <1>3, <2>1
<1>5. /\ Len(h) \in Nat /\ Len(b) \in Nat /\ Len(a) \in Nat
      /\ Len(b) = IF Len(h) = MaxHistory THEN MaxHistory ELSE Len(h) + 1
      /\ Len(a) = IF Len(b) = MaxHistory THEN MaxHistory ELSE Len(b) + 1
  BY <1>2, <1>4
<1>6. Len(a) >= 2 /\ Len(a) = IF Len(h) + 2 <= MaxHistory THEN Len(h) + 2 ELSE MaxHistory
  BY <1>0, <1>2, <1>4
<1>7. a[Len(a) - 1] = u
  BY <1>0, <1>2, <1>4, <1>6
<1>8. ASSUME NEW i \in 1..(Len(a) - 2)
      PROVE  a[i] = h[i + (Len(h) + 2 - Len(a))]
  <2>1. CASE Len(h) = MaxHistory
    <3>1. Len(b) = MaxHistory /\ Len(a) = MaxHistory
          /\ i + 1 \in 1..(Len(b) - 1) /\ i \in 1..(Len(a) - 1)
      BY <1>0, <1>5, <2>1
    <3>2. a[i] = b[i + 1] /\ b[i + 1] = h[i + 1 + 1]
      BY <1>2, <1>4, <2>1, <3>1
    <3>3. i + (Len(h) + 2 - Len(a)) = i + 1 + 1
      BY <1>0, <2>1, <3>1
    <3> QED
      BY <3>2, <3>3
  <2>2. CASE Len(h) = MaxHistory - 1
    <3>1. Len(h) < MaxHistory /\ Len(b) = MaxHistory /\ Len(a) = MaxHistory
          /\ i + 1 \in 1..(Len(b) - 1) /\ i \in 1..(Len(a) - 1)
      BY <1>0, <1>5, <2>2
    <3>2. a[i] = b[i + 1] /\ b[i + 1] = h[i + 1]
      BY <1>2, <1>4, <3>1
    <3>3. i + (Len(h) + 2 - Len(a)) = i + 1
      BY <1>0, <2>2, <3>1
    <3> QED
      BY <3>2, <3>3
  <2>3. CASE Len(h) < MaxHistory - 1
    <3>1. Len(h) < MaxHistory /\ Len(b) = Len(h) + 1 /\ Len(b) < MaxHistory
      BY <1>0, <1>5, <2>3
    <3>2. Len(a) = Len(h) + 2 /\ i \in 1..Len(h)
      BY <1>0, <1>5, <3>1
    <3>3. a[i] = b[i]
      BY <1>4, <1>5, <3>1, <3>2
    <3>4. b[i] = h[i]
      BY <1>2, <1>5, <3>1, <3>2
    <3>5. i + (Len(h) + 2 - Len(a)) = i
      BY <1>5, <3>2
    <3> QED
      BY <3>3, <3>4, <3>5
  <2>4. \/ Len(h) = MaxHistory \/ Len(h) = MaxHistory - 1
        \/ Len(h) < MaxHistory - 1
    BY <1>0, <1>5
  <2> QED
    BY <2>1, <2>2, <2>3, <2>4, Zenon
<1> QED
  BY <1>4, <1>6, <1>7, <1>8 DEF a, u, r

\* A tool call keeps the history paired.
LEMMA CallPaired ==
    ASSUME NEW h \in Seq(Entry), Len(h) <= MaxHistory, Paired(h),
           NEW id \in ToolIds
    PROVE  Paired(CallEntries(h, id))
<1> USE AgentAssumption
<1> DEFINE a == CallEntries(h, id)
           s == Len(h) + 2 - Len(a)
           n == Len(a)
<1>0. /\ a \in Seq(Entry) /\ Len(a) <= MaxHistory /\ n >= 2
      /\ n = IF Len(h) + 2 <= MaxHistory THEN Len(h) + 2 ELSE MaxHistory
      /\ a[n] = [kind |-> "tool_result", id |-> id]
      /\ a[n - 1] = [kind |-> "tool_use", id |-> id]
      /\ \A i \in 1..(n - 2) : a[i] = h[i + (Len(h) + 2 - n)]
  BY CallResult
<1> HIDE DEF a
<1>1. /\ a[n] = [kind |-> "tool_result", id |-> id]
      /\ a[n - 1] = [kind |-> "tool_use", id |-> id]
      /\ \A i \in 1..(n - 2) : a[i] = h[i + s]
  BY <1>0
<1>2. n \in Nat /\ n >= 2 /\ s \in 0..2 /\ Len(h) = n + s - 2
  BY <1>0
<1> HIDE DEF n, s
<1>3. ASSUME NEW i \in 1..n, a[i].kind = "tool_use"
      PROVE  i < n /\ a[i + 1] = [kind |-> "tool_result", id |-> a[i].id]
  <2>1. CASE i \in 1..(n - 2)
    <3>1. a[i] = h[i + s] /\ i + s \in 1..Len(h)
      BY <1>1, <1>2, <2>1
    <3>2. i + s < Len(h) /\ h[i + s + 1] = [kind |-> "tool_result", id |-> a[i].id]
      BY <1>3, <3>1 DEF Paired
    <3>3. a[i + 1] = h[i + 1 + s]
      BY <1>1, <1>2, <3>2
    <3> QED
      BY <1>2, <2>1, <3>2, <3>3
  <2>2. CASE i = n - 1
    BY <1>1, <1>2, <2>2
  <2>3. CASE i = n
    BY <1>1, <1>3, <2>3
  <2> QED
    BY <1>2, <2>1, <2>2, <2>3
<1>4. ASSUME NEW i \in 2..n, a[i].kind = "tool_result"
      PROVE  a[i - 1] = [kind |-> "tool_use", id |-> a[i].id]
  <2>1. CASE i \in 2..(n - 2)
    <3> DEFINE j == i + s
    <3>1. a[i] = h[j] /\ j \in 2..Len(h)
      BY <1>1, <1>2, <2>1
    <3>2. i - 1 \in 1..(n - 2) /\ j - 1 = i - 1 + s
      BY <1>2, <2>1
    <3>3. a[i - 1] = h[j - 1]
      BY <1>1, <3>2
    <3> HIDE DEF j
    <3>4. h[j - 1] = [kind |-> "tool_use", id |-> a[i].id]
      BY <1>4, <3>1 DEF Paired
    <3> QED
      BY <3>3, <3>4
  <2>2. CASE i = n - 1
    BY <1>1, <1>4, <2>2
  <2>3. CASE i = n
    BY <1>1, <2>3
  <2> QED
    BY <1>2, <2>1, <2>2, <2>3
<1> QED
  BY <1>3, <1>4 DEF Paired, n, a

\* The first entry of a turn: the history then has the shape of a turn of one
\* entry.
LEMMA BeginShape ==
    ASSUME NEW h \in Seq(Entry), Len(h) <= MaxHistory
    PROVE  Shape(history_add(h, Plain("user")), Len(h), 1)
<1> USE AgentAssumption
<1> DEFINE u == Plain("user")
           a == history_add(h, u)
<1>1. u \in Entry /\ u.kind = "user"
  BY DEF Plain, Entry, EntryKinds
<1> HIDE DEF u
<1>2. /\ a \in Seq(Entry) /\ Len(a) >= 1
      /\ Len(a) = IF Len(h) = MaxHistory THEN MaxHistory ELSE Len(h) + 1
      /\ a[Len(a)] = u
  BY <1>1, AddResult
<1> HIDE DEF a
<1>3. \A i \in 1..Len(a) : Len(a) - i < 1 => a[i].kind # "tool_use"
  BY <1>1, <1>2
<1>4. \/ Len(a) = Len(h) + 1 /\ a[Len(h) + 1].kind = "user"
      \/ Len(a) = MaxHistory /\ MaxHistory < Len(h) + 1
  BY <1>1, <1>2
<1>5. Shape(a, Len(h), 1)
  BY <1>3, <1>4 DEF Shape
<1> QED
  BY <1>5 DEF a, u

\* A tool call takes the shape of a turn of n entries to one of n + 2.
LEMMA CallShape ==
    ASSUME NEW h \in Seq(Entry), Len(h) <= MaxHistory, NEW id \in ToolIds,
           NEW m \in Nat, NEW n \in Nat, n % 2 = 1, Shape(h, m, n)
    PROVE  Shape(CallEntries(h, id), m, n + 2)
<1> USE AgentAssumption
<1> DEFINE a == CallEntries(h, id)
           k == Len(a)
           s == Len(h) + 2 - k
<1>1. /\ a \in Seq(Entry) /\ k >= 2
      /\ k = IF Len(h) + 2 <= MaxHistory THEN Len(h) + 2 ELSE MaxHistory
      /\ a[k] = [kind |-> "tool_result", id |-> id]
      /\ \A i \in 1..(k - 2) : a[i] = h[i + s]
  BY CallResult
<1> HIDE DEF a
<1>2. k \in Nat /\ s \in 0..2 /\ Len(h) = k + s - 2
  BY <1>1
<1>3. ASSUME NEW i \in 1..k, k - i < n + 2, (k - i) % 2 = 0
      PROVE  a[i].kind # "tool_use"
  <2>1. CASE i = k
    BY <1>1, <2>1
  <2>2. CASE i # k
    <3> DEFINE j == i + s
    <3>1. i \in 1..(k - 2)
      BY <1>2, <1>3, <2>2
    <3>2. a[i] = h[j]
      BY <1>1, <3>1
    <3> DEFINE x == k - i
    <3>3. x \in Nat /\ x >= 2 /\ x % 2 = 0
      BY <1>2, <1>3, <3>1
    <3>4. j \in 1..Len(h) /\ Len(h) - j = x - 2 /\ x - 2 < n
      BY <1>2, <1>3, <3>1
    <3> HIDE DEF j, x
    <3>5. (x - 2) % 2 = 0
      BY <3>3
    <3> QED
      BY <3>2, <3>4, <3>5 DEF Shape
  <2> QED
    BY <2>1, <2>2
<1>4. \/ k = m + (n + 2) /\ a[m + 1].kind = "user"
      \/ k = MaxHistory /\ MaxHistory < m + (n + 2)
  <2>1. CASE Len(h) + 2 <= MaxHistory
    <3>1. Len(h) = m + n /\ h[m + 1].kind = "user" /\ k = Len(h) + 2 /\ s = 0
      BY <1>1, <2>1 DEF Shape
    <3>2. m + 1 \in 1..(k - 2)
      BY <3>1
    <3> QED
      BY <1>1, <3>1, <3>2
  <2>2. CASE Len(h) + 2 > MaxHistory
    BY <1>1, <2>2 DEF Shape
  <2> QED
    BY <2>1, <2>2
<1>5. Shape(a, m, n + 2)
  BY <1>3, <1>4 DEF Shape
<1> QED
  BY <1>5 DEF a

\* Cutting a failed turn off leaves pairs whole, an even length, and everything
\* the turn did not add.
LEMMA RollbackResult ==
    ASSUME NEW h \in Seq(Entry), Len(h) <= MaxHistory, Paired(h),
           NEW m \in Nat, m % 2 = 0, NEW n \in Nat, n % 2 = 1, Shape(h, m, n)
    PROVE  LET r == history_rollback_to(h, m) IN
           /\ r \in Seq(Entry) /\ Len(r) <= MaxHistory
           /\ Len(r) % 2 = 0 /\ Paired(r)
           /\ Len(r) >= Len(h) - n
<1> USE AgentAssumption
<1>1. CASE m >= Len(h)
  <2>1. Len(h) = MaxHistory
    BY <1>1 DEF Shape
  <2>2. history_rollback_to(h, m) = h
    BY <1>1 DEF history_rollback_to
  <2> QED
    BY <2>1, <2>2
<1>2. CASE m < Len(h)
  <2> DEFINE r == SubSeq(h, 1, m)
  <2>1. history_rollback_to(h, m) = r
    BY <1>2 DEF history_rollback_to
  <2>2. r \in Seq(Entry) /\ Len(r) = m /\ \A i \in 1..m : r[i] = h[i]
    BY <1>2
  <2> HIDE DEF r
  <2>3. m >= 1 => h[m].kind # "tool_use"
    <3>1. CASE Len(h) = m + n /\ h[m + 1].kind = "user"
      <4>1. ASSUME m >= 1, h[m].kind = "tool_use"
            PROVE  FALSE
        <5>1. m \in 1..Len(h)
          BY <1>2, <4>1
        <5>2. h[m + 1] = [kind |-> "tool_result", id |-> h[m].id]
          BY <4>1, <5>1 DEF Paired
        <5> QED
          BY <3>1, <5>2
      <4> QED
        BY <4>1
    <3>2. CASE Len(h) = MaxHistory /\ MaxHistory < m + n
      <4>1. Len(h) - m < n /\ (Len(h) - m) % 2 = 0
        BY <1>2, <3>2
      <4> QED
        BY <1>2, <4>1 DEF Shape
    <3> QED
      BY <3>1, <3>2 DEF Shape
  <2>4. ASSUME NEW i \in 1..m, r[i].kind = "tool_use"
        PROVE  i < m /\ r[i + 1] = [kind |-> "tool_result", id |-> r[i].id]
    <3>1. i < m
      BY <2>2, <2>3, <2>4
    <3>2. i \in 1..Len(h) /\ h[i] = r[i] /\ r[i + 1] = h[i + 1]
      BY <1>2, <2>2, <3>1
    <3>3. h[i + 1] = [kind |-> "tool_result", id |-> h[i].id]
      BY <2>4, <3>2 DEF Paired
    <3> QED
      BY <3>1, <3>2, <3>3
  <2>5. ASSUME NEW i \in 2..m, r[i].kind = "tool_result"
        PROVE  r[i - 1] = [kind |-> "tool_use", id |-> r[i].id]
    <3>1. i \in 2..Len(h) /\ h[i] = r[i] /\ r[i - 1] = h[i - 1]
      BY <1>2, <2>2
    <3>2. h[i - 1] = [kind |-> "tool_use", id |-> h[i].id]
      BY <2>5, <3>1 DEF Paired
    <3> QED
      BY <3>1, <3>2
  <2>6. Paired(r)
    BY <2>2, <2>4, <2>5 DEF Paired
  <2>7. Len(r) >= Len(h) - n
    BY <1>2, <2>2 DEF Shape
  <2> QED
    BY <1>2, <2>1, <2>2, <2>6, <2>7
<1> QED
  BY <1>1, <1>2

\* A paired history makes a well-formed request: the one tool_result without
\* its tool_use is the oldest entry, and is skipped.
LEMMA PairedRequest ==
    ASSUME s_history \in Seq(Entry), Paired(s_history)
    PROVE  RequestWellFormed
<1> DEFINE h == s_history
           sent == RequestEntries(h)
<1>1. ASSUME NEW i \in sent, h[i].kind = "tool_use"
      PROVE  i + 1 \in sent /\ h[i + 1] = [kind |-> "tool_result", id |-> h[i].id]
  <2>1. i \in 1..Len(h)
    BY DEF RequestEntries
  <2>2. i < Len(h) /\ h[i + 1] = [kind |-> "tool_result", id |-> h[i].id]
    BY <1>1, <2>1 DEF Paired
  <2>3. i \in 1..((i + 1) - 1) /\ h[i].kind = "tool_use" /\ h[i].id = h[i + 1].id
    BY <1>1, <2>1, <2>2
  <2> QED
    BY <2>1, <2>2, <2>3 DEF RequestEntries
<1>2. ASSUME NEW i \in sent, h[i].kind = "tool_result"
      PROVE  i - 1 \in sent /\ h[i - 1] = [kind |-> "tool_use", id |-> h[i].id]
  <2>1. i \in 2..Len(h)
    BY <1>2 DEF RequestEntries
  <2>2. h[i - 1] = [kind |-> "tool_use", id |-> h[i].id]
    BY <1>2, <2>1 DEF Paired
  <2> QED
    BY <2>1, <2>2 DEF RequestEntries
<1> QED
  BY <1>1, <1>2 DEF RequestWellFormed

-----------------------------------------------------------------------------
(* The invariant is inductive *)

\* The definitions that only name parts of the state or sets of control points.
USE DEF LlmPcs, TurnPcs, Silent, Failures, TurnOutcomes, Restarts, Outcomes

\* What holds before a turn fails holds of the history after it was cut.
LEMMA FailHistory ==
    ASSUME IInv, pc \in LlmPcs, NEW n \in Nat, n % 2 = 1,
           Shape(s_history, history_turn_start, n),
           s_history' = history_rollback_to(s_history, history_turn_start)
    PROVE  /\ s_history' \in Seq(Entry) /\ Len(s_history') <= MaxHistory
           /\ Paired(s_history') /\ Len(s_history') % 2 = 0
           /\ Len(s_history') >= Len(s_history) - n
<1>1. /\ s_history \in Seq(Entry) /\ Len(s_history) <= MaxHistory
      /\ Paired(s_history)
      /\ history_turn_start \in Nat /\ history_turn_start % 2 = 0
  BY AgentAssumption DEF IInv, TypeOK, HistoryInv
<1> QED
  BY <1>1, RollbackResult

\* In the LLM loop the shape of the turn is known, with an odd number of
\* entries.
LEMMA TurnFacts ==
    ASSUME IInv, pc \in LlmPcs
    PROVE  /\ Shape(s_history, history_turn_start, Added)
           /\ Added \in Nat /\ Added % 2 = 1
<1>1. pc # "loop" => rounds >= 1
  BY DEF IInv, HistoryInv
<1>2. rounds \in Nat
  BY AgentAssumption DEF IInv, TypeOK
<1>3. Added \in Nat /\ Added % 2 = 1
  <2>1. (2 * rounds + 1) \in Nat /\ (2 * rounds + 1) % 2 = 1
    BY <1>2
  <2>2. rounds >= 1 => (2 * rounds - 1) \in Nat /\ (2 * rounds - 1) % 2 = 1
    BY <1>2
  <2> QED
    BY <1>1, <2>1, <2>2 DEF Added
<1> QED
  BY <1>3 DEF IInv, HistoryInv, TurnShape

\* The invariant holds when the agent starts.
LEMMA InitIInv == Init => IInv
<1> SUFFICES ASSUME Init PROVE IInv
  OBVIOUS
<1> USE AgentAssumption
<1>1. TypeOK
  <2>1. /\ input_queue \in Seq(Messages) /\ Len(input_queue) <= InputQueueLength
        /\ s_history \in Seq(Entry) /\ Len(s_history) <= MaxHistory
    BY DEF Init
  <2>2. /\ history_turn_start \in 0..MaxHistory /\ rounds \in 0..MaxToolRounds
        /\ retry \in 0..(LlmMaxRetries - 1)
        /\ channel_output \in 0..OutputQueueLength
        /\ telegram_output \in 0..TelegramQueueLength
    BY DEF Init
  <2>3. s_messages_paused \in BOOLEAN
    BY Zenon DEF Init
  <2>4. s_last_start_response \in Ages /\ s_last_response \in Ages
    BY DEF Init, Ages
  <2>5. answers \in 0..1 /\ s_poll_pause_count \in 0..1
    BY DEF Init
  <2>6. pc = "idle" /\ outcome = "none"
    BY DEF Init
  <2> QED
    BY <2>1, <2>2, <2>3, <2>4, <2>5, <2>6 DEF Init, TypeOK
<1>2. HistoryInv
  BY DEF Init, HistoryInv, Paired
<1>3. AnswerInv /\ PausedExactlyInTurn
  BY DEF Init, AnswerInv, AnsweredOnce, PausedExactlyInTurn
<1> QED
  BY <1>1, <1>2, <1>3 DEF IInv

\* Steps that leave the message, the turn and the control point alone.
LEMMA QuietStep ==
    ASSUME IInv, TypeOK',
           UNCHANGED <<pc, outcome, answers, s_history, history_turn_start,
                       rounds, s_poll_pause_count>>
    PROVE  IInv'
<1>1. HistoryInv'
  BY DEF IInv, HistoryInv, Paired, TurnShape, Shape, Added
<1>2. AnswerInv' /\ PausedExactlyInTurn'
  BY DEF IInv, AnswerInv, AnsweredOnce, PausedExactlyInTurn
<1> QED
  BY <1>1, <1>2 DEF IInv

\* Steps outside the LLM loop that leave the history alone.
LEMMA OutsideStep ==
    ASSUME IInv, TypeOK', AnswerInv', PausedExactlyInTurn',
           pc \notin LlmPcs, pc' \notin LlmPcs \cup {"route"},
           UNCHANGED <<s_history, history_turn_start>>
    PROVE  IInv'
<1>1. HistoryInv'
  BY DEF IInv, HistoryInv, Paired
<1> QED
  BY <1>1 DEF IInv

\* The steps of the channels, the clock and the environment.
LEMMA AroundSteps ==
    ASSUME IInv, (\E m \in Messages : Receive(m)) \/ Deliver \/ Tick
    PROVE  IInv'
<1> USE AgentAssumption
<1>1. TypeOK
  BY DEF IInv
<1>2. CASE \E m \in Messages : Receive(m)
  <2>1. TypeOK'
    BY <1>1, <1>2 DEF Receive, TypeOK, queues, turn, cooldowns, persona, Ages
  <2> QED
    BY <1>2, <2>1, QuietStep DEF Receive, turn
<1>3. CASE Deliver
  <2>1. TypeOK'
    BY <1>1, <1>3 DEF Deliver, TypeOK, turn, cooldowns, persona, Ages
  <2> QED
    BY <1>3, <2>1, QuietStep DEF Deliver, turn
<1>4. CASE Tick
  <2>1. s_last_start_response' \in Ages /\ s_last_response' \in Ages
    BY <1>1, <1>4 DEF Tick, Older, TypeOK, Ages
  <2>2. TypeOK'
    BY <1>1, <1>4, <2>1 DEF Tick, TypeOK, queues, turn, persona
  <2> QED
    BY <1>4, <2>2, QuietStep DEF Tick, turn
<1> QED
  BY <1>2, <1>3, <1>4

\* The agent takes a message from its queue.
LEMMA TakeStep ==
    ASSUME IInv, Take
    PROVE  IInv'
<1> USE AgentAssumption
<1>1. TypeOK /\ HistoryInv /\ pc = "idle" /\ pc' = "route"
  BY DEF IInv, Take
<1>2. TypeOK'
  <2>1. msg' \in Messages /\ input_queue' \in Seq(Messages)
        /\ Len(input_queue') <= InputQueueLength
    BY <1>1 DEF Take, TypeOK
  <2>2. history_turn_start' \in 0..MaxHistory
    BY <1>1 DEF Take, TypeOK
  <2> QED
    BY <1>1, <2>1, <2>2 DEF Take, TypeOK, turn, cooldowns, persona
<1>3. HistoryInv'
  BY <1>1 DEF HistoryInv, Paired, Take, turn
<1>4. AnswerInv' /\ PausedExactlyInTurn'
  BY DEF IInv, AnswerInv, AnsweredOnce, PausedExactlyInTurn, Take
<1> QED
  BY <1>2, <1>3, <1>4 DEF IInv

\* Routing to anything but a turn ends in a reply or drops the message.
LEMMA RouteStep ==
    ASSUME IInv, Route, ~BeginTurn
    PROVE  IInv'
<1> USE AgentAssumption
<1>1. /\ Routed /\ NoTurn
      /\ \/ pc' = "send_channel" /\ outcome' \in Outcomes \ (Silent \cup TurnOutcomes \cup {"none"})
         \/ pc' = "idle" /\ outcome' \in Silent
      /\ s_last_start_response' \in {s_last_start_response, 0}
  BY DEF Route, Resume, Settings, LocalAdmin, PausedDrop, Help, Stop, Start,
         SuppressReplay, Reply, Drop
<1>2. TypeOK /\ AnswerInv /\ PausedExactlyInTurn /\ pc = "route"
  BY <1>1 DEF IInv, Routed
<1>3. TypeOK'
  <2>1. s_messages_paused' \in BOOLEAN
    BY <1>2, Zenon DEF Route, Resume, Settings, LocalAdmin, PausedDrop, Help,
                       Stop, Start, SuppressReplay, TypeOK
  <2>2. pc' \in {"send_channel", "idle"} /\ outcome' \in Outcomes
    BY <1>1
  <2>3. s_last_start_response' \in Ages /\ s_last_response' \in Ages
    BY <1>1, <1>2 DEF TypeOK, Routed, Ages
  <2> HIDE DEF Outcomes
  <2> QED
    BY <1>1, <1>2, <2>1, <2>2, <2>3
       DEF TypeOK, Routed, NoTurn, queues, persona
<1>4. AnswerInv' /\ PausedExactlyInTurn'
  BY <1>1, <1>2 DEF AnswerInv, AnsweredOnce, PausedExactlyInTurn, Routed, NoTurn
<1>5. pc \notin LlmPcs /\ pc' \notin LlmPcs \cup {"route"}
      /\ UNCHANGED <<s_history, history_turn_start>>
  BY <1>1, <1>2 DEF Routed, NoTurn
<1> QED
  BY <1>3, <1>4, <1>5, OutsideStep

\* A turn begins with the user message.
LEMMA BeginTurnStep ==
    ASSUME IInv, BeginTurn
    PROVE  IInv'
<1> USE AgentAssumption
<1>1. /\ TypeOK /\ HistoryInv /\ AnswerInv /\ PausedExactlyInTurn
      /\ pc = "route" /\ pc' = "loop" /\ rounds' = 0
      /\ history_turn_start' = Len(s_history) /\ Len(s_history) % 2 = 0
  BY DEF IInv, BeginTurn, HistoryInv
<1>2. s_history \in Seq(Entry) /\ Len(s_history) <= MaxHistory /\ Paired(s_history)
  BY <1>1 DEF TypeOK, HistoryInv
<1>3. s_history' = history_add(s_history, Plain("user"))
  BY DEF BeginTurn
<1>4. Plain("user") \in Entry /\ Plain("user").kind = "user"
  BY DEF Plain, Entry, EntryKinds
<1>5. s_history' \in Seq(Entry) /\ Len(s_history') <= MaxHistory
  BY <1>2, <1>3, <1>4, AddResult
<1>6. TypeOK'
  <2>1. s_poll_pause_count' = 1
    BY <1>1 DEF BeginTurn, PausedExactlyInTurn
  <2>2. rounds' \in 0..MaxToolRounds /\ retry' \in 0..(LlmMaxRetries - 1)
    BY DEF BeginTurn
  <2> QED
    BY <1>1, <1>5, <2>1, <2>2 DEF BeginTurn, TypeOK, queues, cooldowns, persona
<1>7. HistoryInv'
  <2>1. Paired(s_history')
    BY <1>2, <1>3, <1>4, AddPlainPaired
  <2>2. Shape(s_history', history_turn_start', 1)
    BY <1>1, <1>2, <1>3, BeginShape
  <2>3. Added' = 1
    BY <1>1 DEF Added
  <2> QED
    BY <1>1, <2>1, <2>2, <2>3 DEF HistoryInv, TurnShape
<1>8. AnswerInv' /\ PausedExactlyInTurn'
  BY <1>1 DEF BeginTurn, AnswerInv, AnsweredOnce, PausedExactlyInTurn
<1> QED
  BY <1>6, <1>7, <1>8 DEF IInv

\* A turn that fails, in whichever step.
LEMMA FailStep ==
    ASSUME IInv, pc \in LlmPcs, Turning(pc),
           NEW o \in Failures, Fail(o), rounds' \in 0..MaxToolRounds
    PROVE  IInv'
<1> USE AgentAssumption
<1>1. /\ TypeOK /\ HistoryInv /\ AnswerInv /\ PausedExactlyInTurn
      /\ pc' = "send_channel" /\ outcome' = o
  BY DEF IInv, Fail, Reply
<1>2. /\ s_history' \in Seq(Entry) /\ Len(s_history') <= MaxHistory
      /\ Paired(s_history') /\ Len(s_history') % 2 = 0
  BY TurnFacts, FailHistory DEF Fail
<1>3. TypeOK'
  <2>1. pc' = "send_channel" /\ outcome' \in Outcomes
    BY <1>1
  <2> HIDE DEF Outcomes
  <2> QED
    BY <1>1, <1>2, <2>1 DEF TypeOK, Turning, Fail, queues, cooldowns, persona
<1>4. HistoryInv'
  BY <1>1, <1>2 DEF HistoryInv, Turning
<1>5. AnswerInv' /\ PausedExactlyInTurn'
  BY <1>1 DEF AnswerInv, AnsweredOnce, PausedExactlyInTurn, Turning
<1> QED
  BY <1>3, <1>4, <1>5 DEF IInv

\* A turn that goes on, with the same entries.
LEMMA GoOnStep ==
    ASSUME IInv, TypeOK', pc \in LlmPcs, pc' \in LlmPcs \ {"loop"}, Turning(pc),
           UNCHANGED <<outcome, s_history>>, rounds' >= 1, Added' = Added
    PROVE  IInv'
<1>1. HistoryInv'
  <2>1. Shape(s_history', history_turn_start', Added')
    BY TurnFacts DEF Turning
  <2> QED
    BY <2>1 DEF IInv, HistoryInv, TurnShape, Turning
<1>2. AnswerInv' /\ PausedExactlyInTurn'
  BY DEF IInv, AnswerInv, AnsweredOnce, PausedExactlyInTurn, Turning
<1> QED
  BY <1>1, <1>2 DEF IInv

\* The request body is built, or the turn fails for want of memory.
LEMMA BuildRequestStep ==
    ASSUME IInv, BuildRequest
    PROVE  IInv'
<1> USE AgentAssumption
<1>1. TypeOK /\ pc = "loop" /\ Turning(pc)
      /\ rounds \in Nat /\ rounds' = rounds + 1 /\ rounds' \in 0..MaxToolRounds
  BY DEF IInv, TypeOK, BuildRequest, Turning
<1>2. CASE pc' = "rate" /\ UNCHANGED <<outcome, s_history, retry, persona>>
  <2>1. TypeOK'
    BY <1>1, <1>2 DEF TypeOK, Turning, queues, cooldowns, persona
  <2>2. Added' = Added
    BY <1>1, <1>2 DEF Added
  <2> QED
    BY <1>1, <1>2, <2>1, <2>2, GoOnStep
<1>3. CASE Fail("request_build_error")
  BY <1>1, <1>3, FailStep
<1> QED
  BY <1>2, <1>3 DEF BuildRequest

\* The rate limiter lets the request through, or ends the turn.
LEMMA CheckRateStep ==
    ASSUME IInv, CheckRate
    PROVE  IInv'
<1> USE AgentAssumption
<1>1. /\ TypeOK /\ pc = "rate" /\ Turning(pc) /\ rounds >= 1
      /\ rounds' = rounds /\ rounds \in 0..MaxToolRounds
  BY DEF IInv, HistoryInv, TypeOK, CheckRate, Turning
<1>2. CASE pc' = "request" /\ retry' = 0 /\ UNCHANGED <<outcome, s_history, persona>>
  <2>1. TypeOK'
    BY <1>1, <1>2 DEF TypeOK, Turning, queues, cooldowns, persona
  <2>2. Added' = Added
    BY <1>1, <1>2 DEF Added
  <2> QED
    BY <1>1, <1>2, <2>1, <2>2, GoOnStep
<1>3. CASE Fail("rate_limited")
  BY <1>1, <1>3, FailStep
<1> QED
  BY <1>2, <1>3 DEF CheckRate

\* The request is answered, tried again, or fails for good.
LEMMA RequestStep ==
    ASSUME IInv, Request
    PROVE  IInv'
<1> USE AgentAssumption
<1>1. /\ TypeOK /\ pc = "request" /\ Turning(pc) /\ rounds >= 1
      /\ rounds' = rounds /\ rounds \in 0..MaxToolRounds
  BY DEF IInv, HistoryInv, TypeOK, Request, Turning
<1>2. ASSUME pc' \in {"parse", pc}, retry' \in 0..(LlmMaxRetries - 1),
             UNCHANGED <<outcome, s_history, persona>>
      PROVE  IInv'
  <2>1. TypeOK'
    BY <1>1, <1>2 DEF TypeOK, Turning, queues, cooldowns, persona
  <2>2. Added' = Added
    BY <1>1, <1>2 DEF Added
  <2> QED
    BY <1>1, <1>2, <2>1, <2>2, GoOnStep
<1>3. CASE Fail("llm_error")
  BY <1>1, <1>3, FailStep
<1>4. retry \in 0..(LlmMaxRetries - 1)
  BY <1>1 DEF TypeOK
<1> QED
  BY <1>1, <1>2, <1>3, <1>4 DEF Request

\* The answer cannot be parsed.
LEMMA ParseErrorStep ==
    ASSUME IInv, ParseError
    PROVE  IInv'
<1>1. pc \in LlmPcs /\ Turning(pc) /\ Fail("parse_error")
      /\ rounds' \in 0..MaxToolRounds
  BY DEF IInv, TypeOK, ParseError, Turning
<1> QED
  BY <1>1, FailStep

\* A tool call is recorded with its result.
LEMMA CallToolStep ==
    ASSUME IInv, CallTool
    PROVE  IInv'
<1> USE AgentAssumption
<1>1. /\ TypeOK /\ HistoryInv /\ AnswerInv /\ PausedExactlyInTurn
      /\ pc = "parse" /\ pc' = "loop" /\ Turning(pc)
      /\ rounds \in Nat /\ rounds >= 1 /\ rounds' = rounds
  BY DEF IInv, HistoryInv, TypeOK, CallTool, Turning
<1>2. /\ s_history \in Seq(Entry) /\ Len(s_history) <= MaxHistory
      /\ Paired(s_history) /\ history_turn_start \in Nat
  BY <1>1 DEF TypeOK, HistoryInv
<1>3. PICK id \in ToolIds : s_history' = CallEntries(s_history, id)
  BY DEF CallTool, CallEntries
<1>4. s_history' \in Seq(Entry) /\ Len(s_history') <= MaxHistory
  BY <1>2, <1>3, CallResult
<1>5. TypeOK'
  <2>1. s_persona' \in Personas /\ nvs_persona' \in Personas
    BY <1>1 DEF TypeOK, CallTool, SetPersona, persona
  <2> QED
    BY <1>1, <1>4, <2>1 DEF TypeOK, CallTool, Turning, queues, cooldowns
<1>6. HistoryInv'
  <2>1. Paired(s_history')
    BY <1>2, <1>3, CallPaired
  <2>2. Shape(s_history', history_turn_start, Added + 2)
    BY <1>1, <1>2, <1>3, TurnFacts, CallShape
  <2>3. Added' = Added + 2 /\ history_turn_start' = history_turn_start
    BY <1>1 DEF Added, Turning
  <2> QED
    BY <1>1, <2>1, <2>2, <2>3 DEF HistoryInv, TurnShape
<1>7. AnswerInv' /\ PausedExactlyInTurn'
  BY <1>1 DEF AnswerInv, AnsweredOnce, PausedExactlyInTurn, Turning, CallTool
<1> QED
  BY <1>5, <1>6, <1>7 DEF IInv

\* The turn's last entry, the assistant's text, makes the length even again.
LEMMA AnswerStep ==
    ASSUME IInv, pc \in LlmPcs, Turning(pc),
           NEW o \in {"success", "max_rounds"}, Answer(o)
    PROVE  IInv'
<1> USE AgentAssumption
<1>1. /\ TypeOK /\ HistoryInv /\ AnswerInv /\ PausedExactlyInTurn
      /\ pc' = "send_channel" /\ outcome' = o /\ rounds' = rounds
  BY DEF IInv, Answer, Reply
<1>2. /\ s_history \in Seq(Entry) /\ Len(s_history) <= MaxHistory
      /\ Paired(s_history)
  BY <1>1 DEF TypeOK, HistoryInv
<1>3. s_history' = history_add(s_history, Plain("assistant"))
  BY DEF Answer
<1>4. Plain("assistant") \in Entry /\ Plain("assistant").kind = "assistant"
  BY DEF Plain, Entry, EntryKinds
<1>5. /\ s_history' \in Seq(Entry) /\ Len(s_history') <= MaxHistory
      /\ Len(s_history') = IF Len(s_history) = MaxHistory
                           THEN MaxHistory ELSE Len(s_history) + 1
  BY <1>2, <1>3, <1>4, AddResult
<1>6. Len(s_history') % 2 = 0
  <2>1. CASE Len(s_history) = MaxHistory
    BY <1>5, <2>1
  <2>2. CASE Len(s_history) # MaxHistory
    <3>1. Len(s_history) = history_turn_start + Added
      BY <2>2, TurnFacts DEF Shape
    <3> DEFINE m == history_turn_start
               n == Added
    <3>2. m \in Nat /\ m % 2 = 0 /\ n \in Nat /\ n % 2 = 1
          /\ Len(s_history') = m + n + 1
      BY <1>1, <1>5, <2>2, <3>1, TurnFacts DEF HistoryInv, TypeOK
    <3> HIDE DEF m, n
    <3> QED
      BY <3>2
  <2> QED
    BY <2>1, <2>2
<1>7. TypeOK'
  <2>1. outcome' \in Outcomes /\ pc' = "send_channel"
    BY <1>1
  <2> HIDE DEF Outcomes
  <2> QED
    BY <1>1, <1>5, <2>1 DEF TypeOK, Turning, Answer, queues, cooldowns, persona
<1>8. HistoryInv'
  <2>1. Paired(s_history')
    BY <1>2, <1>3, <1>4, AddPlainPaired
  <2> QED
    BY <1>1, <1>6, <2>1 DEF HistoryInv, Turning
<1>9. AnswerInv' /\ PausedExactlyInTurn'
  BY <1>1 DEF AnswerInv, AnsweredOnce, PausedExactlyInTurn, Turning
<1> QED
  BY <1>7, <1>8, <1>9 DEF IInv

\* An answer goes to the output queues, or is lost to a full one.
LEMMA SendStep ==
    ASSUME IInv, SendChannel \/ SendTelegram
    PROVE  IInv'
<1> USE AgentAssumption
<1>1. TypeOK /\ AnswerInv /\ PausedExactlyInTurn
  BY DEF IInv
<1>2. CASE SendChannel
  <2>1. channel_output' \in 0..OutputQueueLength
    BY <1>1, <1>2 DEF SendChannel, TypeOK
  <2>2. TypeOK'
    BY <1>1, <1>2, <2>1 DEF SendChannel, TypeOK, turn, cooldowns, persona
  <2>3. AnswerInv' /\ PausedExactlyInTurn'
    BY <1>1, <1>2 DEF SendChannel, AnswerInv, AnsweredOnce, PausedExactlyInTurn
  <2> QED
    BY <1>2, <2>2, <2>3, OutsideStep DEF SendChannel, turn
<1>3. CASE SendTelegram
  <2>1. telegram_output' \in 0..TelegramQueueLength
    <3>1. telegram_output \in 0..TelegramQueueLength
      BY <1>1 DEF TypeOK
    <3>2. \/ /\ telegram_output < TelegramQueueLength
             /\ telegram_output' = telegram_output + 1
          \/ telegram_output' = telegram_output
      BY <1>3 DEF SendTelegram
    <3> QED
      BY <3>1, <3>2
  <2>2. pc' \in {"finish", "perform", "idle"} /\ answers' = 1
    BY <1>1, <1>3 DEF SendTelegram, AnswerInv
  <2>3. TypeOK'
    BY <1>1, <1>3, <2>1, <2>2 DEF SendTelegram, TypeOK, turn, cooldowns, persona
  <2>4. AnswerInv'
    BY <1>1, <1>3, <2>2 DEF SendTelegram, AnswerInv, AnsweredOnce
  <2>5. PausedExactlyInTurn'
    BY <1>1, <1>3 DEF SendTelegram, AnswerInv, PausedExactlyInTurn
  <2> QED
    BY <1>3, <2>2, <2>3, <2>4, <2>5, OutsideStep DEF SendTelegram, turn
<1> QED
  BY <1>2, <1>3

\* A message is finished, and polling resumes.
LEMMA FinishStep ==
    ASSUME IInv, Finish
    PROVE  IInv'
<1> USE AgentAssumption
<1>1. TypeOK /\ AnswerInv /\ PausedExactlyInTurn /\ s_poll_pause_count = 1
  BY DEF IInv, PausedExactlyInTurn, Finish
<1>2. TypeOK'
  <2>1. s_last_response' \in Ages
        /\ s_last_non_command_text' \in Texts \cup {NoText}
    <3>1. msg.text \in Texts
      BY <1>1, AgentAssumption DEF TypeOK, MessageType
    <3>2. \/ s_last_non_command_text' = msg.text /\ s_last_response' = 0
          \/ UNCHANGED <<s_last_non_command_text, s_last_response>>
      BY DEF Finish
    <3>3. 0 \in Ages
      BY DEF Ages
    <3> QED
      BY <1>1, <3>1, <3>2, <3>3 DEF TypeOK
  <2>2. s_poll_pause_count' = 0
    BY <1>1 DEF Finish
  <2> QED
    BY <1>1, <2>1, <2>2 DEF Finish, TypeOK, queues, turn, persona
<1>3. AnswerInv' /\ PausedExactlyInTurn'
  BY <1>1 DEF Finish, AnswerInv, AnsweredOnce, PausedExactlyInTurn
<1> QED
  BY <1>2, <1>3, OutsideStep DEF Finish, turn

\* The device restarts: RAM is reset, and the persona read from flash.
LEMMA RestartStep ==
    ASSUME IInv, NEW p \in Personas, RestartWith(p)
    PROVE  IInv'
<1> USE AgentAssumption
<1>1. TypeOK'
  <2>1. input_queue' \in Seq(Messages) /\ Len(input_queue') <= InputQueueLength
        /\ s_history' \in Seq(Entry) /\ Len(s_history') <= MaxHistory
    BY DEF RestartWith
  <2>2. /\ history_turn_start' \in 0..MaxHistory
        /\ rounds' \in 0..MaxToolRounds /\ retry' \in 0..(LlmMaxRetries - 1)
        /\ channel_output' \in 0..OutputQueueLength
        /\ telegram_output' \in 0..TelegramQueueLength
    BY DEF RestartWith
  <2>3. s_messages_paused' \in BOOLEAN
    BY Zenon DEF RestartWith
  <2>4. s_last_start_response' \in Ages /\ s_last_response' \in Ages
    BY DEF RestartWith, Ages
  <2>5. answers' \in 0..1 /\ s_poll_pause_count' \in 0..1
        /\ pc' = "idle" /\ outcome' = "none"
    BY DEF RestartWith
  <2>6. s_persona' \in Personas /\ nvs_persona' \in Personas /\ msg' \in Messages
    BY DEF RestartWith, IInv, TypeOK
  <2> QED
    BY <2>1, <2>2, <2>3, <2>4, <2>5, <2>6 DEF RestartWith, TypeOK
<1>2. HistoryInv'
  BY DEF RestartWith, HistoryInv, Paired
<1>3. AnswerInv' /\ PausedExactlyInTurn'
  BY DEF RestartWith, AnswerInv, AnsweredOnce, PausedExactlyInTurn
<1> QED
  BY <1>1, <1>2, <1>3 DEF IInv

\* /reboot and /factory-reset restart the device after their answer.
LEMMA PerformStep ==
    ASSUME IInv, Perform
    PROVE  IInv'
<1>1. TypeOK /\ AnswerInv /\ PausedExactlyInTurn
  BY DEF IInv
<1>2. CASE outcome = "reboot" /\ RestartWith(nvs_persona)
  BY <1>1, <1>2, RestartStep DEF TypeOK
<1>3. CASE outcome = "factory_reset" /\ RestartWith(Neutral)
  BY <1>3, RestartStep, AgentAssumption
<1>4. CASE /\ pc' = "idle"
           /\ UNCHANGED <<queues, msg, outcome, answers, turn,
                          history_turn_start, s_messages_paused, cooldowns,
                          persona, s_poll_pause_count>>
  <2>1. TypeOK'
    BY <1>1, <1>4 DEF TypeOK, queues, turn, cooldowns, persona, Ages
  <2>2. pc = "perform"
    BY DEF Perform
  <2>3. AnswerInv' /\ PausedExactlyInTurn'
    BY <1>1, <1>4, <2>2 DEF AnswerInv, AnsweredOnce, PausedExactlyInTurn
  <2> QED
    BY <1>4, <2>1, <2>2, <2>3, OutsideStep DEF turn
<1> QED
  BY <1>2, <1>3, <1>4 DEF Perform

\* Every step keeps the invariant.
LEMMA StepIInv == IInv /\ [Next]_vars => IInv'
<1> SUFFICES ASSUME IInv, [Next]_vars
             PROVE  IInv'
  OBVIOUS
<1>1. CASE Take
  BY <1>1, TakeStep
<1>2. CASE Route
  BY <1>2, RouteStep, BeginTurnStep
<1>3. CASE TurnStep
  <2>1. CASE TextReply
    BY <2>1, AnswerStep DEF TextReply, Turning
  <2>2. CASE MaxRounds
    BY <2>2, AnswerStep DEF MaxRounds, Turning
  <2> QED
    BY <1>3, <2>1, <2>2, BuildRequestStep, CheckRateStep, RequestStep,
       ParseErrorStep, CallToolStep DEF TurnStep
<1>4. CASE SendChannel \/ SendTelegram
  BY <1>4, SendStep
<1>5. CASE Finish
  BY <1>5, FinishStep
<1>6. CASE Perform
  BY <1>6, PerformStep
<1>7. CASE (\E m \in Messages : Receive(m)) \/ Deliver \/ Tick
  BY <1>7, AroundSteps
<1>8. CASE Crash
  BY <1>8, RestartStep DEF Crash, IInv, TypeOK
<1>9. CASE UNCHANGED vars
  <2>1. TypeOK'
    BY <1>9 DEF IInv, TypeOK, vars, queues, turn, cooldowns, persona, Ages
  <2> QED
    BY <1>9, <2>1, QuietStep DEF vars, turn
<1> QED
  BY <1>1, <1>2, <1>3, <1>4, <1>5, <1>6, <1>7, <1>8, <1>9 DEF Next, AgentStep

-----------------------------------------------------------------------------
(* The theorems *)

\* The inductive invariant holds in every reachable state.
THEOREM Inductive == Spec => []IInv
<1>1. Init => IInv
  BY InitIInv
<1>2. IInv /\ [Next]_vars => IInv'
  BY StepIInv
<1> QED
  BY <1>1, <1>2, PTL DEF Spec

\* Every variable stays in its range: the history buffer, the queues and the
\* retry and round counters never pass their limits, and the pause count never
\* leaves 0..1.
THEOREM TypeCorrect == Spec => []TypeOK
<1>1. IInv => TypeOK
  BY DEF IInv
<1> QED
  BY <1>1, Inductive, PTL

\* Every request sent to the LLM pairs tool_use and tool_result entries, for any
\* even buffer size, whatever was dropped or rolled back before.
THEOREM RequestsWellFormed == Spec => []RequestWellFormed
<1>1. IInv => RequestWellFormed
  BY PairedRequest DEF IInv, TypeOK, HistoryInv
<1> QED
  BY <1>1, Inductive, PTL

\* Polling is paused during turns and at no other time.
THEOREM PauseMatchesTurn == Spec => []PausedExactlyInTurn
<1>1. IInv => PausedExactlyInTurn
  BY DEF IInv
<1> QED
  BY <1>1, Inductive, PTL

\* Every message that is not dropped on purpose gets one answer.
THEOREM OneAnswerEach == Spec => []AnsweredOnce
<1>1. IInv => AnsweredOnce
  BY DEF IInv, AnswerInv
<1> QED
  BY <1>1, Inductive, PTL

-----------------------------------------------------------------------------
(* What a step may never do *)

\* A failing turn leaves at least the entries that were there before it, but
\* for those its own additions pushed out: for any buffer size and any number of
\* rounds, a rollback never reaches into earlier turns.
THEOREM RollbackSpares == Spec => RollbackSparesEarlierTurns
<1> DEFINE Act == outcome' \in Failures /\ pc # "idle" /\ outcome = "none" =>
                     Len(s_history') >= Len(s_history) - (2 * rounds' - 1)
<1>1. IInv /\ [Next]_vars => Act
  <2> SUFFICES ASSUME IInv, [Next]_vars,
                      outcome' \in Failures, pc # "idle", outcome = "none"
               PROVE  Len(s_history') >= Len(s_history) - (2 * rounds' - 1)
    OBVIOUS
  <2>1. /\ pc \in LlmPcs
        /\ \E o \in Failures : Fail(o)
        /\ 2 * rounds' - 1 = Added
    <3>1. rounds \in Nat
      BY AgentAssumption DEF IInv, TypeOK
    <3>2. CASE TurnStep
      BY <3>1, <3>2 DEF TurnStep, BuildRequest, CheckRate, Request, ParseError,
         CallTool, TextReply, MaxRounds, Answer, Reply, Turning, Added
    <3>3. CASE Route
      BY <3>3 DEF Route, Resume, Settings, LocalAdmin, PausedDrop, Help, Stop,
         Start, SuppressReplay, BeginTurn, Reply, Drop
    <3>4. CASE Perform \/ Crash
      BY <3>4 DEF Perform, Crash, RestartWith
    <3>5. CASE \/ Take \/ SendChannel \/ SendTelegram \/ Finish \/ Deliver \/ Tick
               \/ (\E m \in Messages : Receive(m)) \/ UNCHANGED vars
      BY <3>5 DEF Take, SendChannel, SendTelegram, Finish, Deliver, Tick,
         Receive, vars
    <3> QED
      BY <3>2, <3>3, <3>4, <3>5 DEF Next, AgentStep
  <2>2. s_history' = history_rollback_to(s_history, history_turn_start)
    BY <2>1 DEF Fail
  <2> QED
    BY <2>1, <2>2, TurnFacts, FailHistory
<1> QED
  BY <1>1, Inductive, PTL DEF Spec, RollbackSparesEarlierTurns

\* The persona in RAM only ever becomes the one in flash.
THEOREM PersonaStored == Spec => PersonaFollowsStore
<1> DEFINE Act == s_persona' # s_persona => s_persona' = nvs_persona'
<1>1. [Next]_vars => Act
  <2>1. CASE TurnStep
    BY <2>1 DEF TurnStep, BuildRequest, CheckRate, Request, ParseError, CallTool,
       TextReply, MaxRounds, Answer, Fail, SetPersona, persona
  <2>2. CASE Route
    BY <2>2 DEF Route, Resume, Settings, LocalAdmin, PausedDrop, Help, Stop,
       Start, SuppressReplay, BeginTurn, Routed, persona
  <2>3. CASE Perform \/ Crash
    BY <2>3 DEF Perform, Crash, RestartWith, persona
  <2>4. CASE \/ Take \/ SendChannel \/ SendTelegram \/ Finish \/ Deliver \/ Tick
             \/ (\E m \in Messages : Receive(m)) \/ UNCHANGED vars
    BY <2>4 DEF Take, SendChannel, SendTelegram, Finish, Deliver, Tick,
       Receive, persona, vars
  <2> QED
    BY <2>1, <2>2, <2>3, <2>4 DEF Next, AgentStep
<1> QED
  BY <1>1, PTL DEF Spec, PersonaFollowsStore

\* While a turn runs, its text differs from that of the last answered one or the
\* window has passed: what the replay check found stays true.
InTurn == \/ pc \in LlmPcs \cup {"finish"}
          \/ pc \in {"send_channel", "send_telegram"} /\ outcome \in TurnOutcomes

FreshTurn == InTurn /\ NonCommand(msg) =>
                \/ msg.text # s_last_non_command_text
                \/ s_last_response \notin 0..(ReplayCooldown - 1)

\* Every step keeps a turn from running on a text that was answered within the
\* replay window.
LEMMA StepFreshTurn == IInv /\ FreshTurn /\ [Next]_vars => FreshTurn'
<1> SUFFICES ASSUME IInv, FreshTurn, [Next]_vars
             PROVE  FreshTurn'
  OBVIOUS
<1> USE AgentAssumption
<1>1. TypeOK /\ AnswerInv
  BY DEF IInv
<1>2. ASSUME InTurn' => InTurn, UNCHANGED <<msg, s_last_non_command_text>>,
             s_last_response' \in {s_last_response, Older(s_last_response)}
      PROVE  FreshTurn'
  <2>1. s_last_response \notin 0..(ReplayCooldown - 1) =>
          s_last_response' \notin 0..(ReplayCooldown - 1)
    BY <1>1, <1>2 DEF TypeOK, Ages, Older
  <2> QED
    BY <1>2, <2>1 DEF FreshTurn, NonCommand
<1>3. CASE BeginTurn
  <2>1. ASSUME NonCommand(msg), msg.text = s_last_non_command_text
        PROVE  s_last_response \notin 0..(ReplayCooldown - 1)
    <3>1. ~Within(s_last_response, ReplayCooldown)
      BY <1>3, <2>1 DEF BeginTurn, IsReplay
    <3>2. ASSUME s_last_response \in 0..(ReplayCooldown - 1)
          PROVE  FALSE
      <4>1. s_last_response \in Nat /\ s_last_response % MsWrap <= s_last_response
        BY <3>2
      <4> QED
        BY <3>1, <3>2, <4>1 DEF Within
    <3> QED
      BY <3>2
  <2> QED
    BY <1>3, <2>1 DEF BeginTurn, FreshTurn, NonCommand, cooldowns
<1>4. CASE Route /\ ~BeginTurn
  <2>1. ~InTurn'
    BY <1>4 DEF Route, Resume, Settings, LocalAdmin, PausedDrop, Help, Stop,
       Start, SuppressReplay, Reply, Drop, InTurn
  <2> QED
    BY <2>1 DEF FreshTurn
<1>5. CASE TurnStep
  <2>1. InTurn /\ UNCHANGED <<msg, s_last_non_command_text, s_last_response>>
    BY <1>5 DEF TurnStep, BuildRequest, CheckRate, Request, ParseError, CallTool,
       TextReply, MaxRounds, Turning, InTurn, cooldowns
  <2> QED
    BY <1>2, <2>1
<1>6. CASE SendChannel \/ SendTelegram
  <2>1. /\ InTurn' => InTurn
        /\ UNCHANGED <<msg, s_last_non_command_text, s_last_response>>
    BY <1>6 DEF SendChannel, SendTelegram, InTurn, cooldowns
  <2> QED
    BY <1>2, <2>1
<1>7. CASE Take \/ Finish \/ Perform \/ Crash
  <2>1. ~InTurn'
    BY <1>1, <1>7 DEF Take, Finish, Perform, Crash, RestartWith, InTurn
  <2> QED
    BY <2>1 DEF FreshTurn
<1>8. CASE \/ Deliver \/ Tick \/ (\E m \in Messages : Receive(m))
           \/ UNCHANGED vars
  <2>1. /\ InTurn' => InTurn
        /\ UNCHANGED <<msg, s_last_non_command_text>>
        /\ s_last_response' \in {s_last_response, Older(s_last_response)}
    BY <1>8 DEF Deliver, Tick, Receive, vars, InTurn, cooldowns
  <2> QED
    BY <1>2, <2>1
<1> QED
  BY <1>3, <1>4, <1>5, <1>6, <1>7, <1>8 DEF Next, AgentStep

\* The same text is answered at most once in each window, whatever its length,
\* the range of the clock casts and the number of texts.
THEOREM OneAnswerPerWindow == Spec => SameAnswerOncePerWindow
<1> DEFINE Act == pc = "finish" /\ outcome = "success" /\ NonCommand(msg) =>
                     \/ msg.text # s_last_non_command_text
                     \/ s_last_response \notin 0..(ReplayCooldown - 1)
<1>1. Init => FreshTurn
  BY DEF Init, FreshTurn, InTurn
<1>2. IInv /\ FreshTurn /\ [Next]_vars => FreshTurn'
  BY StepFreshTurn
<1>3. FreshTurn => Act
  BY DEF FreshTurn, InTurn
<1> QED
  BY <1>1, <1>2, <1>3, Inductive, PTL DEF Spec, SameAnswerOncePerWindow

-----------------------------------------------------------------------------
(* A message takes a bounded number of steps *)

\* The most steps of a tool round: its request and their retries, the rate
\* check, the parse, and the step that begins it.
RoundSteps == LlmMaxRetries + 3

\* The rounds a turn may still begin, in steps.
RoundsLeft == (MaxToolRounds - rounds) * RoundSteps

\* The most steps the agent may still take for its message: those of the answer,
\* after those of the rounds to come, after those of the round it is in.
StepsLeft ==
    CASE pc = "idle"                   -> 0
      [] pc \in {"finish", "perform"}  -> 1
      [] pc = "send_telegram"          -> 2
      [] pc = "send_channel"           -> 3
      [] pc = "loop"                   -> 4 + RoundsLeft
      [] pc = "parse"                  -> 5 + RoundsLeft
      [] pc = "request"                -> 5 + RoundsLeft + (LlmMaxRetries - retry)
      [] pc = "rate"                   -> 6 + RoundsLeft + LlmMaxRetries
      [] OTHER                         -> 5 + MaxToolRounds * RoundSteps

\* Every step of the agent brings the message it works on nearer to its end, no
\* step of another task takes it further away, and it begins with a number that
\* depends on the limits of process_message alone.
EveryStepCounts ==
    [][/\ StepsLeft \in 0..(5 + MaxToolRounds * RoundSteps)
       /\ pc # "idle" => StepsLeft' <= StepsLeft
       /\ pc # "idle" /\ AgentStep => StepsLeft' < StepsLeft]_vars

\* What multiplication by a number of steps preserves.
LEMMA Products ==
    ASSUME NEW a \in Nat, NEW b \in Nat, a <= b, NEW k \in Nat
    PROVE  a * k \in Nat /\ a * k <= b * k /\ (a + 1) * k = a * k + k
  OBVIOUS

\* The steps of the rounds to come are fewer than those of all rounds, by a
\* whole round as soon as one was begun.
LEMMA RoundsLeftRange ==
    ASSUME TypeOK
    PROVE  /\ RoundSteps = LlmMaxRetries + 3 /\ LlmMaxRetries \in Nat \ {0}
           /\ RoundsLeft \in Nat /\ MaxToolRounds * RoundSteps \in Nat
           /\ RoundsLeft <= MaxToolRounds * RoundSteps
           /\ rounds >= 1 => RoundsLeft + RoundSteps <= MaxToolRounds * RoundSteps
<1> DEFINE n == MaxToolRounds - rounds
<1>1. /\ RoundSteps = LlmMaxRetries + 3 /\ LlmMaxRetries \in Nat \ {0}
      /\ RoundSteps \in Nat /\ MaxToolRounds \in Nat /\ n \in Nat
      /\ n <= MaxToolRounds /\ (rounds >= 1 => n + 1 <= MaxToolRounds)
  BY AgentAssumption DEF TypeOK, RoundSteps
<1>2. RoundsLeft = n * RoundSteps
  BY DEF RoundsLeft
<1> HIDE DEF n
<1>3. /\ n * RoundSteps \in Nat /\ n * RoundSteps <= MaxToolRounds * RoundSteps
      /\ (n + 1) * RoundSteps = n * RoundSteps + RoundSteps
      /\ MaxToolRounds * RoundSteps \in Nat
  BY <1>1, Products
<1>4. rounds >= 1 => (n + 1) * RoundSteps <= MaxToolRounds * RoundSteps
  BY <1>1, Products
<1> QED
  BY <1>1, <1>2, <1>3, <1>4

\* The measure is a number, and no more than what routing begins with.
LEMMA StepsLeftRange ==
    ASSUME IInv
    PROVE  StepsLeft \in 0..(5 + MaxToolRounds * RoundSteps)
<1> DEFINE all == MaxToolRounds * RoundSteps
<1>1. /\ RoundSteps = LlmMaxRetries + 3 /\ LlmMaxRetries \in Nat \ {0}
      /\ RoundsLeft \in Nat /\ all \in Nat /\ RoundsLeft <= all
      /\ rounds >= 1 => RoundsLeft + RoundSteps <= all
  BY RoundsLeftRange DEF IInv
<1>2. retry \in 0..(LlmMaxRetries - 1) /\ (pc \in LlmPcs \ {"loop"} => rounds >= 1)
  BY DEF IInv, TypeOK, HistoryInv
<1> HIDE DEF all
<1>3. ASSUME pc \in {"parse", "request", "rate"}
      PROVE  StepsLeft \in 0..(5 + all)
  <2>1. StepsLeft \in {5 + RoundsLeft, 5 + RoundsLeft + (LlmMaxRetries - retry),
                      6 + RoundsLeft + LlmMaxRetries}
    BY <1>3 DEF StepsLeft
  <2> QED
    BY <1>1, <1>2, <1>3, <2>1 DEF LlmPcs
<1>4. ASSUME pc \notin {"parse", "request", "rate"}
      PROVE  StepsLeft \in 0..(5 + all)
  <2>1. StepsLeft \in {0, 1, 2, 3, 4 + RoundsLeft, 5 + all}
    BY <1>4 DEF StepsLeft, all
  <2> QED
    BY <1>1, <2>1
<1> QED
  BY <1>3, <1>4 DEF all

\* Each step of the loop: a round that begins pays for its own steps.
LEMMA TurnStepCounts ==
    ASSUME IInv, TurnStep
    PROVE  StepsLeft' < StepsLeft
<1>1. /\ RoundSteps = LlmMaxRetries + 3 /\ LlmMaxRetries \in Nat \ {0}
      /\ RoundsLeft \in Nat
  BY RoundsLeftRange DEF IInv
<1>2. retry \in 0..(LlmMaxRetries - 1)
  BY DEF IInv, TypeOK
<1>3. rounds' = rounds => RoundsLeft' = RoundsLeft
  BY DEF RoundsLeft, RoundSteps
<1>4. ASSUME \E o \in Outcomes : Fail(o) \/ Answer(o), pc \in LlmPcs
      PROVE  StepsLeft' < StepsLeft
  <2>1. pc' = "send_channel"
    BY <1>4 DEF Fail, Answer, Reply
  <2>2. StepsLeft' = 3
    BY <2>1 DEF StepsLeft
  <2> QED
    BY <1>1, <1>2, <1>4, <2>2 DEF StepsLeft, LlmPcs
<1>5. CASE BuildRequest /\ pc' = "rate"
  <2>1. /\ pc = "loop" /\ rounds' = rounds + 1 /\ rounds < MaxToolRounds
    BY <1>5 DEF BuildRequest, Turning
  <2> DEFINE n == MaxToolRounds - (rounds + 1)
  <2>2. n \in Nat /\ MaxToolRounds - rounds = n + 1 /\ RoundSteps \in Nat
    BY <1>1, <2>1, AgentAssumption DEF IInv, TypeOK
  <2>3. RoundsLeft' = n * RoundSteps
    BY <2>1 DEF RoundsLeft, RoundSteps
  <2>4. RoundsLeft = (n + 1) * RoundSteps
    BY <2>2 DEF RoundsLeft
  <2> HIDE DEF n
  <2>5. n * RoundSteps \in Nat /\ (n + 1) * RoundSteps = n * RoundSteps + RoundSteps
    BY <2>2, Products
  <2>6. StepsLeft = 4 + RoundsLeft /\ StepsLeft' = 6 + RoundsLeft' + LlmMaxRetries
    BY <1>5, <2>1 DEF StepsLeft
  <2> QED
    BY <1>1, <2>3, <2>4, <2>5, <2>6
<1>6. CASE CheckRate /\ pc' = "request"
  <2>1. pc = "rate" /\ rounds' = rounds /\ retry' = 0
    BY <1>6 DEF CheckRate, Turning, Fail, Reply
  <2>2. /\ StepsLeft = 6 + RoundsLeft + LlmMaxRetries
        /\ StepsLeft' = 5 + RoundsLeft + LlmMaxRetries
    BY <1>1, <1>3, <1>6, <2>1 DEF StepsLeft
  <2> QED
    BY <1>1, <2>2
<1>7. CASE Request /\ pc' # "send_channel"
  <2>1. /\ pc = "request" /\ rounds' = rounds
        /\ pc' = "parse" \/ (pc' = "request" /\ retry' = retry + 1)
    BY <1>7 DEF Request, Turning, Fail, Reply
  <2>2. StepsLeft = 5 + RoundsLeft + (LlmMaxRetries - retry)
    BY <2>1 DEF StepsLeft
  <2>3. CASE pc' = "parse"
    BY <1>1, <1>2, <1>3, <2>1, <2>2, <2>3 DEF StepsLeft
  <2>4. CASE pc' = "request" /\ retry' = retry + 1
    <3>1. StepsLeft' = 5 + RoundsLeft + (LlmMaxRetries - (retry + 1))
      BY <1>3, <2>1, <2>4 DEF StepsLeft
    <3> QED
      BY <1>1, <1>2, <2>2, <3>1
  <2> QED
    BY <2>1, <2>3, <2>4
<1>8. CASE CallTool
  <2>1. pc = "parse" /\ pc' = "loop" /\ rounds' = rounds
    BY <1>8 DEF CallTool, Turning
  <2> QED
    BY <1>1, <1>3, <2>1 DEF StepsLeft
<1>9. ASSUME TurnStep, ~(BuildRequest /\ pc' = "rate"),
             ~(CheckRate /\ pc' = "request"), ~(Request /\ pc' # "send_channel"),
             ~CallTool
      PROVE  (\E o \in Outcomes : Fail(o) \/ Answer(o)) /\ pc \in LlmPcs
  BY <1>9 DEF TurnStep, BuildRequest, CheckRate, Request, ParseError, TextReply,
     MaxRounds, Turning, Fail, Reply, LlmPcs, Outcomes, TurnOutcomes, Failures
<1> QED
  BY <1>4, <1>5, <1>6, <1>7, <1>8, <1>9

\* Each step of the agent before and after the loop.
LEMMA OtherStepCounts ==
    ASSUME IInv, Route \/ SendChannel \/ SendTelegram \/ Finish \/ Perform
    PROVE  StepsLeft' < StepsLeft
<1>1. RoundSteps \in Nat /\ MaxToolRounds * RoundSteps \in Nat
  BY RoundsLeftRange DEF IInv
<1>2. CASE BeginTurn
  <2>1. pc = "route" /\ pc' = "loop" /\ rounds' = 0
    BY <1>2 DEF BeginTurn
  <2>2. RoundsLeft' = MaxToolRounds * RoundSteps
    <3>1. MaxToolRounds - 0 = MaxToolRounds
      BY AgentAssumption
    <3> QED
      BY <2>1, <3>1 DEF RoundsLeft, RoundSteps
  <2>3. /\ StepsLeft = 5 + MaxToolRounds * RoundSteps
        /\ StepsLeft' = 4 + RoundsLeft'
    BY <2>1 DEF StepsLeft
  <2> QED
    BY <1>1, <2>2, <2>3
<1>3. CASE Route /\ ~BeginTurn
  <2>1. pc = "route" /\ pc' \in {"send_channel", "idle"}
    BY <1>3 DEF Route, Routed, Resume, Settings, LocalAdmin, PausedDrop, Help,
       Stop, Start, SuppressReplay, Reply, Drop
  <2>2. StepsLeft = 5 + MaxToolRounds * RoundSteps /\ StepsLeft' \in {0, 3}
    BY <2>1 DEF StepsLeft
  <2> QED
    BY <1>1, <2>2
<1>4. CASE SendChannel \/ SendTelegram \/ Finish \/ Perform
  <2>1. \/ pc = "send_channel" /\ pc' = "send_telegram"
        \/ pc = "send_telegram" /\ pc' \in {"finish", "perform", "idle"}
        \/ pc \in {"finish", "perform"} /\ pc' = "idle"
    BY <1>4 DEF SendChannel, SendTelegram, Finish, Perform, RestartWith
  <2> QED
    BY <2>1 DEF StepsLeft
<1> QED
  BY <1>2, <1>3, <1>4

\* For any limits: a message begins with at most 5 + MaxToolRounds *
\* (LlmMaxRetries + 3) steps, each step of the agent takes at least one of them,
\* and no other task gives one back. With the fairness of AgentStep that is why
\* TurnEnds holds.
THEOREM TurnsAreBounded == Spec => EveryStepCounts
<1> DEFINE Act == /\ StepsLeft \in 0..(5 + MaxToolRounds * RoundSteps)
                  /\ pc # "idle" => StepsLeft' <= StepsLeft
                  /\ pc # "idle" /\ AgentStep => StepsLeft' < StepsLeft
<1>0. IInv => StepsLeft \in 0..(5 + MaxToolRounds * RoundSteps)
  BY StepsLeftRange
<1>1. IInv' => (StepsLeft \in 0..(5 + MaxToolRounds * RoundSteps))'
  BY <1>0, PTL
<1>2. IInv /\ [Next]_vars => Act
  <2> SUFFICES ASSUME IInv, [Next]_vars
               PROVE  Act
    OBVIOUS
  <2>1. StepsLeft \in 0..(5 + MaxToolRounds * RoundSteps)
    BY StepsLeftRange
  <2>2. MaxToolRounds * RoundSteps \in Nat
    BY RoundsLeftRange DEF IInv
  <2>3. ASSUME pc # "idle", AgentStep
        PROVE  StepsLeft' < StepsLeft
    <3>1. ~Take
      BY <2>3 DEF Take
    <3> QED
      BY <2>3, <3>1, TurnStepCounts, OtherStepCounts DEF AgentStep
  <2>4. ASSUME AgentStep, pc # "idle"
        PROVE  StepsLeft' <= StepsLeft
    <3>1. IInv'
      BY StepIInv
    <3>2. StepsLeft' \in Int
      BY <1>1, <2>2, <3>1 DEF RoundSteps
    <3> QED
      BY <2>1, <2>2, <2>3, <2>4, <3>2
  <2>5. CASE Deliver \/ Tick \/ (\E m \in Messages : Receive(m)) \/ UNCHANGED vars
    <3>1. UNCHANGED <<pc, rounds, retry>>
      BY <2>5 DEF Deliver, Tick, Receive, vars, turn
    <3>2. StepsLeft' = StepsLeft
      BY <3>1 DEF StepsLeft, RoundsLeft, RoundSteps
    <3> QED
      BY <2>1, <2>2, <2>3, <3>2
  <2>6. CASE Crash
    <3>1. StepsLeft' = 0
      BY <2>6 DEF Crash, RestartWith, StepsLeft
    <3> QED
      BY <2>1, <2>2, <2>3, <3>1
  <2> QED
    BY <2>1, <2>3, <2>4, <2>5, <2>6 DEF Next
<1> QED
  BY <1>2, Inductive, PTL DEF Spec, EveryStepCounts

=============================================================================
