------------------------- MODULE LlmRequestsProofs --------------------------
(***************************************************************************)
(* Proofs about one LLM request and the rate limiter around it, for every   *)
(* limit, budget, calendar and bound: the type invariant with the ownership *)
(* of the HTTP gate, the retry budget, and the daily limit across restarts. *)
(*                                                                          *)
(* Budget bounds the time the loop has taken at each place of it; InSync    *)
(* says that, as long as flash was written, RAM and flash agree on the day  *)
(* and its count, which is how a restart finds them again.                  *)
(***************************************************************************)
EXTENDS LlmRequests, FiniteSetTheorems, NaturalsInduction, WellFoundedInduction, TLAPS

\* TypeOK in parts: the clock, the limiter, the loop and the Booleans.
ClockOK == /\ now \in 0..MaxTime /\ clock \in Nat /\ clock <= Epoch + now
           /\ restarts \in 0..MaxRestarts

LimiterOK == /\ s_requests_this_hour \in Nat /\ s_requests_today \in Nat
             /\ s_last_hour \in Nat \cup {Unset} /\ s_last_day \in Nat \cup {Unset}
             /\ s_last_year \in Nat \cup {Unset}
             /\ nvs \in [{"daily", "day", "year"} -> Nat \cup {Unset}]
             /\ made \in Nat /\ calls \in [Ages -> Nat]

LoopOK == /\ pc \in {"idle", "attempt", "gate", "client", "failed", "answered", "parse"}
          /\ outcome \in {"none", "hour_spent", "day_spent", "llm_error", "parse_error",
                          "text", "call"}
          /\ s_backend \in {"anthropic", "openai", "openrouter", "ollama"}
          /\ retry \in 0..(LlmMaxRetries - 1) /\ retry_delay \in Nat \ {0} /\ elapsed \in Nat
          /\ s_http_gate \in {"free", "llm"}
          /\ s_http_gate = "llm" <=> pc = "client"

Booleans == synced \in BOOLEAN /\ intact \in BOOLEAN /\ s_api_key \in BOOLEAN

\* The time the loop may have taken when it is at each of its places.
Budget == /\ retry = 0 /\ pc \in {"idle", "attempt", "gate"} => elapsed = 0
          /\ pc = "idle" => retry = 0
          /\ pc \in {"attempt", "gate"} => elapsed <= RetryBudget
          /\ pc = "client" => elapsed <= RetryBudget + GateWait
          /\ elapsed <= RetryBudget + LongestAttempt

\* While no write of the day failed, RAM and flash hold the day that the limiter
\* last saw and the requests recorded in it.
InSync == intact => /\ window = <<s_last_day, s_last_year>> /\ made = s_requests_today
                    /\ nvs["day"] = s_last_day /\ nvs["year"] = s_last_year
                    /\ s_requests_today = IF nvs["daily"] = Unset THEN 0 ELSE nvs["daily"]

\* A request under way was admitted below the daily limit.
Admitted == /\ pc \in {"attempt", "gate", "client", "failed", "answered"}
                 => s_requests_today < MaxPerDay /\ s_requests_this_hour < MaxPerHour
            /\ pc # "idle" => outcome = "none"
            /\ intact => made <= MaxPerDay
            /\ intact /\ outcome = "day_spent" => made = MaxPerDay

\* No more requests were recorded in the hour of the clock than the limiter counts,
\* and no more than the limit in the part of the hour before that is still remembered.
HourLimit ==
    /\ s_requests_this_hour <= MaxPerHour
    /\ CallsWithin(calls)[SinceHour] <= HourCount
    /\ CallsWithin(calls)[TicksPerHour - 1] <= CallsWithin(calls)[SinceHour] + MaxPerHour

IInv == /\ ClockOK /\ LimiterOK /\ LoopOK /\ Booleans
        /\ Budget /\ InSync /\ Admitted /\ HourLimit

-----------------------------------------------------------------------------
\* The longest attempt is the longest wait for the gate and the longest request.
LEMMA LongestIsLongest ==
    /\ LongestAttempt \in Nat /\ LongestAttempt >= GateWait
    /\ \A t \in HttpTimes : GateWait + t <= LongestAttempt
<1> DEFINE longest == CHOOSE t \in HttpTimes : \A u \in HttpTimes : u <= t
<1>1. longest \in HttpTimes /\ \A u \in HttpTimes : u <= longest
  BY LlmRequestsAssumption
<1>2. LongestAttempt = GateWait + longest BY DEF LongestAttempt
<1> HIDE DEF longest
<1> QED BY <1>1, <1>2, LlmRequestsAssumption

\* Local time of a clock is a natural number in each field.
LEMMA LocalTime == ASSUME clock \in Nat PROVE Hour \in Nat /\ Day \in Nat /\ Year \in Nat
<1> USE RateLimitAssumption
<1>1. ASSUME NEW a \in Nat, NEW b \in Nat \ {0} PROVE a \div b \in Nat /\ a % b \in Nat
  BY <1>1
<1>2. ASSUME NEW a \in Nat \ {0}, NEW b \in Nat \ {0} PROVE a * b \in Nat \ {0}
  BY <1>2
<1>3. TicksPerDay \in Nat \ {0} BY <1>2 DEF TicksPerDay
<1>4. TicksPerDay * DaysPerYear \in Nat \ {0} BY <1>2, <1>3
<1>5. Hour \in Nat
  <2>1. clock \div TicksPerHour \in Nat BY <1>1
  <2> QED BY <2>1, <1>1 DEF Hour
<1>6. Day \in Nat
  <2>1. clock \div TicksPerDay \in Nat BY <1>1, <1>3
  <2> QED BY <2>1, <1>1 DEF Day
<1>7. Year \in Nat BY <1>1, <1>4 DEF Year
<1> QED BY <1>5, <1>6, <1>7

-----------------------------------------------------------------------------
(* The requests of the last ticks, by induction over their age *)

\* A set of natural numbers has a smallest member. What holds of every age is shown
\* with it below: the set of counterexamples has none.
LEMMA Smallest ==
    ASSUME NEW T, T \subseteq Nat, T # {} PROVE \E n \in T : \A m \in T : n <= m
<1>1. IsWellFoundedOn(OpToRel(<, Nat), Nat) BY NatLessThanWellFounded, Zenon
<1>2. PICK n \in T : \A m \in T : ~ (<<m, n>> \in OpToRel(<, Nat)) BY <1>1, WFMin, Zenon
<1>3. \A m \in T : ~(m < n) BY <1>2 DEF OpToRel
<1> QED BY <1>3

\* A set that holds 0 and the successors of its members holds every age.
LEMMA AgeInduction ==
    ASSUME NEW G, 0 \in G, \A a \in Ages : a \in G /\ a + 1 \in Ages => a + 1 \in G
    PROVE  Ages \subseteq G
<1> SUFFICES ASSUME Ages \ G # {} PROVE FALSE OBVIOUS
<1>1. Ages \ G \subseteq Nat BY DEF Ages
<1>2. PICK n \in Ages \ G : \A m \in Ages \ G : n <= m BY <1>1, Smallest, Zenon
<1>3. n \in Nat \ {0} BY <1>1
<1>4. n - 1 \in Ages /\ ~(n <= n - 1) BY <1>2, <1>3, RateLimitAssumption DEF Ages
<1>5. n - 1 \in G BY <1>2, <1>4
<1>6. (n - 1) + 1 = n BY <1>3
<1> QED BY <1>2, <1>4, <1>5, <1>6

\* g holds the sums over c of the ages up to n.
Sums(c, g, n) == /\ g \in [0..n -> Nat] /\ g[0] = c[0]
                 /\ \A a \in 1..n : g[a] = c[a] + g[a - 1]

\* There are such sums up to every age.
LEMMA SumsExist ==
    ASSUME NEW c \in [Ages -> Nat] PROVE \A n \in Ages : \E g : Sums(c, g, n)
<1> DEFINE G == {n \in Ages : \E g : Sums(c, g, n)}
<1>1. 0 \in G
  <2>1. 0 \in Ages /\ c[0] \in Nat BY RateLimitAssumption DEF Ages
  <2> DEFINE g == [a \in 0..0 |-> c[0]]
  <2>2. Sums(c, g, 0) BY <2>1 DEF Sums
  <2> QED BY <2>1, <2>2
<1>2. ASSUME NEW a \in Ages, a \in G, a + 1 \in Ages PROVE a + 1 \in G
  <2>1. PICK g : Sums(c, g, a) BY <1>2
  <2>2. a \in Nat /\ c[a + 1] \in Nat BY <1>2, RateLimitAssumption DEF Ages
  <2> DEFINE h == [b \in 0..(a + 1) |-> IF b = a + 1 THEN c[a + 1] + g[a] ELSE g[b]]
  <2>3. h \in [0..(a + 1) -> Nat] BY <2>1, <2>2 DEF Sums
  <2>4. h[0] = c[0] BY <2>1, <2>2 DEF Sums
  <2>5. ASSUME NEW b \in 1..(a + 1) PROVE h[b] = c[b] + h[b - 1]
    <3>1. b - 1 \in 0..a /\ h[b - 1] = g[b - 1] BY <2>2
    <3>2. CASE b = a + 1 BY <2>2, <3>1, <3>2
    <3>3. CASE b # a + 1
      <4>1. b \in 1..a /\ h[b] = g[b] BY <2>2, <3>3
      <4> QED BY <2>1, <3>1, <4>1 DEF Sums
    <3> QED BY <3>2, <3>3
  <2>6. Sums(c, h, a + 1) BY <2>3, <2>4, <2>5 DEF Sums
  <2> QED BY <1>2, <2>6
<1> HIDE DEF G
<1>3. Ages \subseteq G BY <1>1, <1>2, AgeInduction
<1> QED BY <1>3 DEF G

\* The recursive function is well defined: it is the sums, and they are numbers.
LEMMA CallsWithinDef ==
    ASSUME NEW c \in [Ages -> Nat]
    PROVE  /\ CallsWithin(c) \in [Ages -> Nat]
           /\ \A a \in Ages : CallsWithin(c)[a]
                                = IF a = 0 THEN c[0] ELSE c[a] + CallsWithin(c)[a - 1]
<1> DEFINE Step(f) == [a \in Ages |-> IF a = 0 THEN c[0] ELSE c[a] + f[a - 1]]
           G == {a \in Ages : CallsWithin(c)[a] \in Nat}
<1>1. TicksPerHour - 1 \in Ages /\ Ages = 0..(TicksPerHour - 1) /\ 0 \in Ages
  BY RateLimitAssumption DEF Ages
<1>2. PICK g : Sums(c, g, TicksPerHour - 1) BY <1>1, SumsExist
<1>3. g = Step(g)
  <2>1. g \in [Ages -> Nat] BY <1>1, <1>2 DEF Sums
  <2>2. \A a \in Ages : g[a] = IF a = 0 THEN c[0] ELSE c[a] + g[a - 1]
    BY <1>1, <1>2, RateLimitAssumption DEF Sums
  <2> QED BY <2>1, <2>2
<1>4. CallsWithin(c) = CHOOSE f : f = Step(f) BY DEF CallsWithin
<1>5. CallsWithin(c) = Step(CallsWithin(c))
  <2> HIDE DEF Step
  <2> QED BY <1>3, <1>4
<1>6. \A a \in Ages : CallsWithin(c)[a] = IF a = 0 THEN c[0] ELSE c[a] + CallsWithin(c)[a - 1]
  BY <1>5
<1>7. Ages \subseteq G
  <2>1. 0 \in G BY <1>1, <1>6
  <2>2. ASSUME NEW a \in Ages, a \in G, a + 1 \in Ages PROVE a + 1 \in G
    <3>1. a \in Nat /\ a + 1 # 0 /\ (a + 1) - 1 = a BY <1>1, RateLimitAssumption
    <3> QED BY <1>6, <2>2, <3>1
  <2> HIDE DEF G
  <2> QED BY <2>1, <2>2, AgeInduction
<1>8. CallsWithin(c) \in [Ages -> Nat]
  <2>1. CallsWithin(c) = [a \in Ages |-> CallsWithin(c)[a]] BY <1>5
  <2> QED BY <1>7, <2>1
<1> QED BY <1>6, <1>8

\* The sums over no calls are zero; one call more adds one to each of them; and a
\* tick moves them by one age.
LEMMA SumsChange ==
    ASSUME NEW c \in [Ages -> Nat]
    PROVE  /\ \A a \in Ages : CallsWithin(NoCalls)[a] = 0
           /\ \A a \in Ages : CallsWithin([c EXCEPT ![0] = @ + 1])[a] = CallsWithin(c)[a] + 1
           /\ CallsWithin([a \in Ages |-> IF a = 0 THEN 0 ELSE c[a - 1]])[0] = 0
           /\ \A a \in Ages \ {0} :
                 CallsWithin([b \in Ages |-> IF b = 0 THEN 0 ELSE c[b - 1]])[a]
                   = CallsWithin(c)[a - 1]
<1> DEFINE more == [c EXCEPT ![0] = @ + 1]
           older == [a \in Ages |-> IF a = 0 THEN 0 ELSE c[a - 1]]
           G1 == {a \in Ages : CallsWithin(NoCalls)[a] = 0}
           G2 == {a \in Ages : CallsWithin(more)[a] = CallsWithin(c)[a] + 1}
           G3 == {a \in Ages : a # 0 => CallsWithin(older)[a] = CallsWithin(c)[a - 1]}
<1>1. /\ 0 \in Ages
      /\ \A a \in Ages : a \in Nat /\ (a # 0 => a - 1 \in Ages) /\ a + 1 # 0
                         /\ (a + 1) - 1 = a
  BY RateLimitAssumption DEF Ages
<1>2. NoCalls \in [Ages -> Nat] /\ more \in [Ages -> Nat] /\ older \in [Ages -> Nat]
  BY <1>1 DEF NoCalls
<1>3. Ages \subseteq G1
  <2>1. 0 \in G1 BY <1>1, <1>2, CallsWithinDef DEF NoCalls
  <2>2. ASSUME NEW a \in Ages, a \in G1, a + 1 \in Ages PROVE a + 1 \in G1
    BY <1>1, <1>2, <2>2, CallsWithinDef DEF NoCalls
  <2> HIDE DEF G1
  <2> QED BY <2>1, <2>2, AgeInduction
<1>4. Ages \subseteq G2
  <2>0. more[0] = c[0] + 1 /\ \A a \in Ages \ {0} : more[a] = c[a] BY <1>1
  <2> HIDE DEF more
  <2>1. 0 \in G2 BY <1>1, <1>2, <2>0, CallsWithinDef
  <2>2. ASSUME NEW a \in Ages, a \in G2, a + 1 \in Ages PROVE a + 1 \in G2
    <3>1. CallsWithin(more)[a + 1] = more[a + 1] + CallsWithin(more)[a]
      BY <1>1, <1>2, <2>2, CallsWithinDef
    <3>2. CallsWithin(c)[a + 1] = c[a + 1] + CallsWithin(c)[a]
      BY <1>1, <2>2, CallsWithinDef
    <3>3. CallsWithin(c)[a] \in Nat /\ c[a + 1] \in Nat BY <2>2, CallsWithinDef
    <3>4. more[a + 1] = c[a + 1] BY <1>1, <2>0, <2>2
    <3> QED BY <2>2, <3>1, <3>2, <3>3, <3>4
  <2> HIDE DEF G2
  <2> QED BY <2>1, <2>2, AgeInduction
<1>5. Ages \subseteq G3 /\ CallsWithin(older)[0] = 0
  <2>0. older[0] = 0 /\ \A a \in Ages \ {0} : older[a] = c[a - 1] BY <1>1
  <2> HIDE DEF older
  <2>1. 0 \in G3 /\ CallsWithin(older)[0] = 0 BY <1>1, <1>2, <2>0, CallsWithinDef
  <2>2. ASSUME NEW a \in Ages, a \in G3, a + 1 \in Ages PROVE a + 1 \in G3
    <3>1. CallsWithin(older)[a + 1] = older[a + 1] + CallsWithin(older)[a]
      BY <1>1, <1>2, <2>2, CallsWithinDef
    <3>2. older[a + 1] = c[a] BY <1>1, <2>0, <2>2
    <3>3. CASE a = 0
      <4>1. CallsWithin(c)[0] = c[0] /\ c[0] \in Nat BY <1>1, CallsWithinDef
      <4> QED BY <2>1, <3>1, <3>2, <3>3, <4>1, <1>1, <2>2
    <3>4. CASE a # 0
      <4>1. CallsWithin(c)[a] = c[a] + CallsWithin(c)[a - 1] BY <3>4, CallsWithinDef
      <4>2. CallsWithin(older)[a] = CallsWithin(c)[a - 1] BY <2>2, <3>4
      <4> QED BY <3>1, <3>2, <4>1, <4>2, <1>1, <2>2
    <3> QED BY <3>3, <3>4
  <2> HIDE DEF G3
  <2> QED BY <2>1, <2>2, AgeInduction
<1> QED BY <1>3, <1>4, <1>5

\* The sums grow with the age.
LEMMA SumsGrow ==
    ASSUME NEW c \in [Ages -> Nat], NEW a \in Ages, NEW b \in Ages, a <= b
    PROVE  CallsWithin(c)[a] <= CallsWithin(c)[b]
<1> DEFINE G == {n \in Ages : a <= n => CallsWithin(c)[a] <= CallsWithin(c)[n]}
<1>1. /\ 0 \in Ages
      /\ \A n \in Ages : n \in Nat /\ n + 1 # 0 /\ (n + 1) - 1 = n
                         /\ CallsWithin(c)[n] \in Nat /\ c[n] \in Nat
  BY RateLimitAssumption, CallsWithinDef DEF Ages
<1>2. 0 \in G BY <1>1
<1>3. ASSUME NEW n \in Ages, n \in G, n + 1 \in Ages PROVE n + 1 \in G
  <2>1. CallsWithin(c)[n + 1] = c[n + 1] + CallsWithin(c)[n] BY <1>1, <1>3, CallsWithinDef
  <2>2. c[n + 1] \in Nat /\ CallsWithin(c)[n] \in Nat /\ CallsWithin(c)[a] \in Nat
        /\ CallsWithin(c)[n + 1] \in Nat
    BY <1>1, <1>3
  <2>3. CASE a = n + 1 BY <1>3, <2>2, <2>3
  <2>4. CASE a # n + 1 BY <1>1, <1>3, <2>1, <2>2, <2>4
  <2> QED BY <2>3, <2>4
<1> HIDE DEF G
<1>4. Ages \subseteq G BY <1>2, <1>3, AgeInduction
<1> QED BY <1>4 DEF G

\* When no calls are remembered, no limit on them is passed.
LEMMA NoCallsKeep ==
    ASSUME clock \in Nat, calls = NoCalls, HourCount \in Nat,
           s_requests_this_hour \in Nat, s_requests_this_hour <= MaxPerHour
    PROVE  HourLimit
<1>1. SinceHour \in Ages /\ TicksPerHour - 1 \in Ages /\ NoCalls \in [Ages -> Nat]
  BY RateLimitAssumption DEF SinceHour, Ages, NoCalls
<1>2. \A a \in Ages : CallsWithin(calls)[a] = 0 BY <1>1, SumsChange
<1> QED BY <1>1, <1>2, RateLimitAssumption DEF HourLimit

\* The same after a step.
LEMMA NoCallsKeepNext ==
    ASSUME clock' \in Nat, calls' = NoCalls, HourCount' \in Nat,
           s_requests_this_hour' \in Nat, s_requests_this_hour' <= MaxPerHour
    PROVE  HourLimit'
<1>1. SinceHour' \in Ages
  <2>1. \A c \in Nat : c % TicksPerHour \in Ages BY RateLimitAssumption DEF Ages
  <2> QED BY <2>1 DEF SinceHour
<1>2. TicksPerHour - 1 \in Ages /\ NoCalls \in [Ages -> Nat]
  BY RateLimitAssumption DEF Ages, NoCalls
<1>3. \A a \in Ages : CallsWithin(calls')[a] = 0 BY <1>2, SumsChange
<1> QED BY <1>1, <1>2, <1>3, RateLimitAssumption DEF HourLimit

-----------------------------------------------------------------------------
\* The initial state satisfies the invariant.
LEMMA InitIInv == Init => IInv
<1> USE RateLimitAssumption, LlmRequestsAssumption, LongestIsLongest DEF Init, RateLimitInit
<1>1. Init => ClockOK BY DEF ClockOK
<1>2. Init => LimiterOK BY DEF LimiterOK, NoCalls
<1>3. Init => LoopOK BY DEF LoopOK, llm_init, IdleLoop
<1>4. Init => Booleans BY DEF Booleans
<1>5. Init => Budget BY DEF Budget, IdleLoop
<1>6. Init => InSync BY DEF InSync
<1>7. Init => Admitted BY DEF Admitted
<1>8. Init => HourLimit BY NoCallsKeep DEF HourCount
<1> QED BY <1>1, <1>2, <1>3, <1>4, <1>5, <1>6, <1>7, <1>8 DEF IInv

-----------------------------------------------------------------------------
(* The limiter *)

\* What the windows are when n requests are counted in them: numbers.
LEMMA WindowTyped ==
    ASSUME IInv, NEW n \in Nat, CountInWindow(n)
    PROVE  /\ s_requests_this_hour' \in Nat /\ s_requests_today' \in Nat
           /\ s_last_hour' \in Nat /\ s_last_day' \in Nat /\ s_last_year' \in Nat
<1>1. Hour \in Nat /\ Day \in Nat /\ Year \in Nat BY LocalTime DEF IInv, ClockOK
<1>2. HourCount \in Nat /\ DayCount \in Nat BY DEF HourCount, DayCount, IInv, LimiterOK
<1> QED BY <1>1, <1>2 DEF CountInWindow

\* Flash holds numbers or nothing, whichever of its writes took place.
LEMMA FlashTyped ==
    ASSUME IInv, NEW counts \in SUBSET Nat, Persist(counts)
    PROVE  nvs' \in [{"daily", "day", "year"} -> Nat \cup {Unset}]
<1>1. Day \in Nat /\ Year \in Nat BY LocalTime DEF IInv, ClockOK
<1>2. nvs["daily"] \in Nat \cup {Unset} /\ nvs["day"] \in Nat \cup {Unset}
      /\ nvs["year"] \in Nat \cup {Unset}
  BY DEF IInv, LimiterOK
<1>3. /\ MayWrite("daily", counts \cup (IF NewDay THEN {0} ELSE {})) \subseteq Nat \cup {Unset}
      /\ MayWrite("day", IF NewDay THEN {Day} ELSE {}) \subseteq Nat \cup {Unset}
      /\ MayWrite("year", IF NewDay THEN {Year} ELSE {}) \subseteq Nat \cup {Unset}
  <2>1. /\ (IF NewDay THEN {0} ELSE {}) \subseteq Nat
        /\ (IF NewDay THEN {Day} ELSE {}) \subseteq Nat
        /\ (IF NewDay THEN {Year} ELSE {}) \subseteq Nat
    BY <1>1
  <2> QED BY <1>2, <2>1, Zenon DEF MayWrite
<1> DEFINE A == MayWrite("daily", counts \cup (IF NewDay THEN {0} ELSE {}))
           B == MayWrite("day", IF NewDay THEN {Day} ELSE {})
           C == MayWrite("year", IF NewDay THEN {Year} ELSE {})
<1>4. nvs' \in [daily : A, day : B, year : C] BY DEF Persist
<1> HIDE DEF A, B, C
<1> QED BY <1>3, <1>4 DEF A, B, C

\* A check and a record leave RAM and flash in agreement when no write failed: the
\* count of a new day starts at zero in all three places.
LEMMA LimiterStep ==
    ASSUME IInv, NEW n \in Nat, NEW counts \in SUBSET Nat, Cardinality(counts) = n,
           CountInWindow(n), Persist(counts)
    PROVE  /\ InSync' /\ made' \in Nat
           /\ intact' => made' = DayCount + n /\ s_requests_today' = DayCount + n
<1>1. s_requests_today' \in Nat /\ s_last_day' \in Nat /\ s_last_year' \in Nat
  BY WindowTyped
<1>2. s_requests_today' = DayCount + n /\ s_last_day' = Day /\ s_last_year' = Year
  BY DEF CountInWindow
<1>3. /\ window' = <<Day, Year>>
      /\ made' = (IF window' = window THEN made ELSE 0) + n
      /\ intact' => \/ intact
                    \/ NewDay /\ window' # window
      /\ intact' => nvs' = [daily |-> s_requests_today', day |-> s_last_day',
                            year |-> s_last_year']
  BY DEF Persist
<1>4. made' \in Nat BY <1>3 DEF IInv, LimiterOK
<1>5. intact' => made' = DayCount + n
  <2> SUFFICES ASSUME intact' PROVE made' = DayCount + n OBVIOUS
  <2>1. CASE NewDay
    <3>1. window' # window BY <2>1, <1>3 DEF NewDay, IInv, InSync
    <3> QED BY <2>1, <3>1, <1>3 DEF DayCount
  <2>2. CASE ~NewDay
    <3>1. intact /\ window' = window /\ made = s_requests_today
      BY <2>2, <1>3 DEF NewDay, IInv, InSync
    <3> QED BY <2>2, <3>1, <1>3 DEF DayCount
  <2> QED BY <2>1, <2>2
<1>6. InSync'
  <2> SUFFICES ASSUME intact'
               PROVE  /\ window' = <<s_last_day', s_last_year'>> /\ made' = s_requests_today'
                      /\ nvs'["day"] = s_last_day' /\ nvs'["year"] = s_last_year'
                      /\ nvs'["daily"] = s_requests_today'
    BY <1>1, RateLimitAssumption DEF InSync
  <2> QED BY <1>2, <1>3, <1>5
<1> QED BY <1>2, <1>4, <1>5, <1>6

\* In an hour's time the count of the limiter moves with the requests it records.
LEMMA HourStep ==
    ASSUME IInv, NEW n \in {0, 1}, CountInWindow(n), clock' = clock,
           calls' = IF n = 0 THEN calls ELSE [calls EXCEPT ![0] = @ + 1],
           HourCount + n <= MaxPerHour
    PROVE  HourLimit'
<1>1. /\ SinceHour \in Ages /\ SinceHour' = SinceHour /\ TicksPerHour - 1 \in Ages
      /\ calls \in [Ages -> Nat]
  BY RateLimitAssumption DEF SinceHour, Ages, IInv, ClockOK, LimiterOK
<1>2. \A a \in Ages : /\ CallsWithin(calls')[a] = CallsWithin(calls)[a] + n
                       /\ CallsWithin(calls)[a] \in Nat
  <2>1. \A a \in Ages : CallsWithin(calls)[a] \in Nat BY <1>1, CallsWithinDef
  <2>2. CASE n = 0 BY <2>1, <2>2
  <2>3. CASE n = 1
    <3>1. calls' = [calls EXCEPT ![0] = @ + 1] BY <2>3
    <3>2. \A a \in Ages :
             CallsWithin([calls EXCEPT ![0] = @ + 1])[a] = CallsWithin(calls)[a] + 1
      BY <1>1, SumsChange, Zenon
    <3> QED BY <2>1, <2>3, <3>1, <3>2
  <2> QED BY <2>2, <2>3
<1>3. HourCount \in Nat /\ HourCount' = HourCount + n /\ s_requests_this_hour' = HourCount + n
  BY DEF CountInWindow, HourCount, Hour, IInv, LimiterOK
<1>4. /\ CallsWithin(calls)[SinceHour] <= HourCount
      /\ CallsWithin(calls)[TicksPerHour - 1] <= CallsWithin(calls)[SinceHour] + MaxPerHour
  BY DEF IInv, HourLimit
<1>5. /\ CallsWithin(calls')[SinceHour] = CallsWithin(calls)[SinceHour] + n
      /\ CallsWithin(calls')[TicksPerHour - 1] = CallsWithin(calls)[TicksPerHour - 1] + n
      /\ CallsWithin(calls)[SinceHour] \in Nat /\ CallsWithin(calls)[TicksPerHour - 1] \in Nat
  BY <1>1, <1>2
<1> QED BY <1>1, <1>3, <1>4, <1>5, RateLimitAssumption DEF HourLimit

\* ratelimit_check admits below the limit, and refuses for the day only at it.
LEMMA CheckRateKeeps == ASSUME IInv, CheckRate PROVE IInv'
<1> USE RateLimitAssumption, LlmRequestsAssumption, LongestIsLongest
    DEF CheckRate, CheckWindow, At, config
<1>0. {} \in SUBSET Nat /\ Cardinality({}) = 0 BY FS_EmptySet
<1>1. /\ InSync' /\ made' \in Nat
      /\ intact' => made' = DayCount + 0 /\ s_requests_today' = DayCount + 0
  BY <1>0, LimiterStep
<1>2. ClockOK' BY DEF IInv, ClockOK, time
<1>3. LimiterOK'
  <2>1. /\ s_requests_this_hour' \in Nat /\ s_requests_today' \in Nat
        /\ s_last_hour' \in Nat /\ s_last_day' \in Nat /\ s_last_year' \in Nat
    BY WindowTyped
  <2>2. nvs' \in [{"daily", "day", "year"} -> Nat \cup {Unset}] BY <1>0, FlashTyped
  <2> QED BY <2>1, <2>2, <1>1 DEF IInv, LimiterOK
<1>4. LoopOK' BY DEF IInv, LoopOK
<1>5. Booleans'
  <2>1. intact' \in BOOLEAN BY DEF Persist
  <2> QED BY <2>1 DEF IInv, Booleans, time
<1>6. Budget' BY DEF IInv, Budget
<1>7. Admitted'
  <2>1. DayCount \in Nat /\ (DayCount = 0 \/ DayCount = s_requests_today)
    BY DEF DayCount, IInv, LimiterOK
  <2>2. intact' => DayCount <= MaxPerDay
    <3>1. CASE NewDay BY <3>1 DEF DayCount
    <3>2. CASE ~NewDay
      <4>1. intact' => intact BY <3>2 DEF Persist
      <4>2. intact' => made = s_requests_today /\ made <= MaxPerDay
        BY <4>1 DEF IInv, InSync, Admitted
      <4> QED BY <3>2, <4>2 DEF DayCount
    <3> QED BY <3>1, <3>2
  <2>3. s_requests_today' = DayCount BY <2>1 DEF CountInWindow
  <2>4. outcome' = "day_spent" => DayCount >= MaxPerDay BY DEF DaySpent
  <2>5. pc' \in {"idle", "attempt"} /\ (pc' = "attempt" => outcome' = "none" /\ ~DaySpent)
    OBVIOUS
  <2>6. pc' = "attempt" => s_requests_today' < MaxPerDay BY <2>1, <2>3, <2>5 DEF DaySpent
  <2>7. intact' => made' = DayCount BY <1>1, <2>1
  <2>8. pc' = "attempt" => s_requests_this_hour' < MaxPerHour
    BY DEF CountInWindow, HourSpent, HourCount, IInv, LimiterOK
  <2> QED BY <2>1, <2>2, <2>4, <2>5, <2>6, <2>7, <2>8 DEF Admitted
<1>8. HourLimit'
  <2>1. HourCount + 0 <= MaxPerHour BY DEF HourCount, IInv, LimiterOK, HourLimit
  <2> QED BY <2>1, HourStep DEF time
<1> QED BY <1>1, <1>2, <1>3, <1>4, <1>5, <1>6, <1>7, <1>8 DEF IInv

\* ratelimit_record_request adds the one request that was admitted.
LEMMA RecordKeeps == ASSUME IInv, Record PROVE IInv'
<1> USE RateLimitAssumption, LlmRequestsAssumption, LongestIsLongest
    DEF Record, ratelimit_record_request, At, config, loop
<1>9. DayCount \in Nat /\ (DayCount = 0 \/ DayCount = s_requests_today)
  BY DEF DayCount, IInv, LimiterOK
<1>0. {DayCount + 1} \in SUBSET Nat /\ Cardinality({DayCount + 1}) = 1
  <2>1. DayCount + 1 \in Nat BY <1>9 DEF IInv, LimiterOK
  <2> QED BY <2>1, FS_Singleton, Zenon
<1>1. /\ InSync' /\ made' \in Nat
      /\ intact' => made' = DayCount + 1 /\ s_requests_today' = DayCount + 1
  BY <1>0, LimiterStep
<1>2. ClockOK' BY DEF IInv, ClockOK, time
<1>3. LimiterOK'
  <2>1. /\ s_requests_this_hour' \in Nat /\ s_requests_today' \in Nat
        /\ s_last_hour' \in Nat /\ s_last_day' \in Nat /\ s_last_year' \in Nat
    BY WindowTyped
  <2>2. nvs' \in [{"daily", "day", "year"} -> Nat \cup {Unset}] BY <1>0, FlashTyped
  <2>3. calls' \in [Ages -> Nat] BY DEF IInv, LimiterOK, Ages
  <2> QED BY <2>1, <2>2, <2>3, <1>1 DEF LimiterOK
<1>4. LoopOK' BY DEF IInv, LoopOK
<1>5. Booleans'
  <2>1. intact' \in BOOLEAN BY DEF Persist
  <2> QED BY <2>1 DEF IInv, Booleans, time
<1>6. Budget' BY DEF IInv, Budget
<1>7. Admitted'
  <2>1. s_requests_today < MaxPerDay BY DEF IInv, Admitted
  <2>2. DayCount + 1 <= MaxPerDay BY <2>1, <1>9 DEF IInv, LimiterOK
  <2>3. pc' = "parse" /\ outcome' = "none" BY DEF IInv, Admitted
  <2> QED BY <1>1, <2>2, <2>3 DEF Admitted
<1>8. HourLimit'
  <2>1. HourCount + 1 <= MaxPerHour BY DEF HourCount, IInv, LimiterOK, Admitted
  <2> QED BY <2>1, HourStep DEF time
<1> QED BY <1>1, <1>2, <1>3, <1>4, <1>5, <1>6, <1>7, <1>8 DEF IInv

-----------------------------------------------------------------------------
(* The loop, the clock and restarts *)

\* Steps of the loop leave the limiter as it is; what is left to show is the loop's.
LEMMA LimiterKept ==
    ASSUME IInv, UNCHANGED <<time, limiter, config>>
    PROVE  ClockOK' /\ LimiterOK' /\ InSync' /\ Booleans' /\ HourLimit'
<1>1. ClockOK' /\ LimiterOK' /\ InSync' /\ Booleans'
  BY DEF IInv, ClockOK, LimiterOK, InSync, Booleans, time, limiter, counters, seen, config,
         Ages
<1>2. HourLimit'
  BY DEF IInv, HourLimit, SinceHour, HourCount, Hour, time, limiter, counters, seen
<1> QED BY <1>1, <1>2

\* Returning from the loop ends it with an outcome that is not of the limiter.
LEMMA ReturnKeeps ==
    ASSUME IInv, UNCHANGED <<time, limiter, config>>, pc \in {"attempt", "failed", "parse"},
           s_http_gate' = s_http_gate,
           NEW o \in {"llm_error", "parse_error", "text", "call"}, Return(o)
    PROVE  IInv'
<1> USE LlmRequestsAssumption, LongestIsLongest DEF Return, config
<1>1. LoopOK' BY DEF IInv, LoopOK
<1>2. Budget' BY DEF IInv, Budget
<1>3. Admitted' BY DEF IInv, Admitted, limiter, counters, seen
<1> QED BY <1>1, <1>2, <1>3, LimiterKept DEF IInv

\* An attempt begins within the budget, and a failed one sleeps within it.
LEMMA LoopKeeps == ASSUME IInv, BudgetSpent \/ Attempt \/ AfterFailure PROVE IInv'
<1> USE LlmRequestsAssumption, LongestIsLongest DEF At, config
<1>1. CASE BudgetSpent BY <1>1, ReturnKeeps DEF BudgetSpent
<1>2. CASE Attempt
  <2> USE <1>2 DEF Attempt, loop
  <2>1. LoopOK' BY DEF IInv, LoopOK
  <2>2. Budget' BY DEF IInv, Budget, LoopOK
  <2>3. Admitted' BY DEF IInv, Admitted, limiter, counters, seen
  <2> QED BY <2>1, <2>2, <2>3, LimiterKept DEF IInv
<1>3. CASE AfterFailure /\ (retry = LlmMaxRetries - 1 \/ elapsed >= RetryBudget)
  BY <1>3, ReturnKeeps DEF AfterFailure
<1>4. CASE AfterFailure /\ ~(retry = LlmMaxRetries - 1 \/ elapsed >= RetryBudget)
  <2> DEFINE delay == Smaller(retry_delay, RetryBudget - elapsed)
  <2>1. /\ pc = "failed" /\ pc' = "attempt" /\ retry' = retry + 1
        /\ retry_delay' = Smaller(2 * retry_delay, RetryMax)
        /\ elapsed' \in {elapsed + delay - 1, elapsed + delay}
        /\ UNCHANGED <<time, limiter, config, outcome, s_http_gate>>
    BY <1>4 DEF AfterFailure
  <2>2. delay \in Nat \ {0} /\ elapsed + delay <= RetryBudget
    BY <1>4 DEF Smaller, IInv, LoopOK
  <2>3. retry' \in 1..(LlmMaxRetries - 1) /\ retry_delay' \in Nat \ {0}
    BY <1>4, <2>1 DEF Smaller, IInv, LoopOK
  <2> HIDE DEF delay
  <2>4. elapsed' \in Nat /\ elapsed' <= RetryBudget BY <2>1, <2>2 DEF IInv, LoopOK
  <2>5. LoopOK' BY <2>1, <2>3, <2>4 DEF IInv, LoopOK
  <2>6. Budget' BY <2>1, <2>3, <2>4 DEF IInv, Budget, LoopOK
  <2>7. Admitted' BY <2>1 DEF IInv, Admitted, limiter, counters, seen
  <2> QED BY <2>1, <2>5, <2>6, <2>7, LimiterKept DEF IInv
<1> QED BY <1>1, <1>2, <1>3, <1>4

\* llm_request takes at most the wait and one request, and gives the gate back.
LEMMA RequestKeeps ==
    ASSUME IInv, GateTaken \/ GateTimesOut \/ ClientInitFails \/ Perform \/ Parse
    PROVE  IInv'
<1> USE LlmRequestsAssumption, LongestIsLongest DEF At, config
<1>1. CASE GateTaken
  <2> USE <1>1 DEF GateTaken
  <2>1. LoopOK' /\ Budget' BY DEF IInv, LoopOK, Budget
  <2>2. Admitted' BY DEF IInv, Admitted, limiter, counters, seen
  <2> QED BY <2>1, <2>2, LimiterKept DEF IInv
<1>2. CASE GateTimesOut
  <2> USE <1>2 DEF GateTimesOut
  <2>1. LoopOK' /\ Budget' BY DEF IInv, LoopOK, Budget
  <2>2. Admitted' BY DEF IInv, Admitted, limiter, counters, seen
  <2> QED BY <2>1, <2>2, LimiterKept DEF IInv
<1>3. CASE ClientInitFails
  <2> USE <1>3 DEF ClientInitFails, loop
  <2>1. LoopOK' /\ Budget' BY DEF IInv, LoopOK, Budget
  <2>2. Admitted' BY DEF IInv, Admitted, limiter, counters, seen
  <2> QED BY <2>1, <2>2, LimiterKept DEF IInv
<1>4. CASE Perform
  <2>1. PICK t \in HttpTimes : elapsed' = elapsed + t BY <1>4 DEF Perform
  <2>2. /\ pc = "client" /\ pc' \in {"answered", "failed"} /\ s_http_gate' = "free"
        /\ UNCHANGED <<time, limiter, config, outcome, retry, retry_delay>>
    BY <1>4 DEF Perform
  <2>3. elapsed' \in Nat /\ elapsed' <= RetryBudget + LongestAttempt
    BY <2>1, <2>2 DEF IInv, LoopOK, Budget
  <2>4. LoopOK' /\ Budget' BY <2>2, <2>3 DEF IInv, LoopOK, Budget
  <2>5. Admitted' BY <2>2 DEF IInv, Admitted, limiter, counters, seen
  <2> QED BY <2>2, <2>4, <2>5, LimiterKept DEF IInv
<1>5. CASE Parse
  <2>1. PICK body \in {"no JSON", "no message", "error object", "only text", "tool call"} :
           Return(Parsed(body))
    BY <1>5 DEF Parse
  <2>2. Parsed(body) \in {"llm_error", "parse_error", "text", "call"} BY DEF Parsed
  <2> HIDE DEF Parsed
  <2> QED BY <1>5, <2>1, <2>2, ReturnKeeps DEF Parse
<1> QED BY <1>1, <1>2, <1>3, <1>4, <1>5

\* The next number has the next remainder and the same quotient, or remainder 0.
LEMMA NextOf ==
    ASSUME NEW c \in Nat, NEW t \in Nat \ {0}
    PROVE  /\ (c % t) + 1 < t => (c + 1) % t = (c % t) + 1 /\ (c + 1) \div t = c \div t
           /\ c % t = t - 1 => (c + 1) % t = 0
<1>1. (c % t) + 1 < t => (c + 1) % t = (c % t) + 1 /\ (c + 1) \div t = c \div t BY SMTT(30)
<1>2. ASSUME c % t = t - 1 PROVE (c + 1) % t = 0
  <2> DEFINE r == c \div t + 1
  <2>1. r \in Nat /\ c % t = c - t * (c \div t) BY SMTT(30)
  <2>2. c + 1 = t * r BY <1>2, <2>1, SMTT(30)
  <2> HIDE DEF r
  <2>3. (t * r) % t = 0 BY <2>1, SMTT(30)
  <2> QED BY <2>2, <2>3
<1> QED BY <1>1, <1>2

\* A tick within an hour, and one that begins the next: then the hour that has passed
\* becomes what is remembered from before.
LEMMA HourPasses == ASSUME IInv, Tick PROVE HourLimit'
<1> USE RateLimitAssumption
<1> DEFINE k == clock % TicksPerHour
           S == CallsWithin(calls)
           older == [a \in Ages |-> IF a = 0 THEN 0 ELSE calls[a - 1]]
<1>1. /\ clock \in Nat /\ clock' = clock + 1 /\ calls \in [Ages -> Nat] /\ calls' = older
      /\ UNCHANGED counters /\ TicksPerHour \in Nat \ {0}
  BY DEF Tick, IInv, ClockOK, LimiterOK
<1>2. \A a \in Ages : S[a] \in Nat BY <1>1, CallsWithinDef
<1>3. CallsWithin(older)[0] = 0 /\ \A a \in Ages \ {0} : CallsWithin(older)[a] = S[a - 1]
  BY <1>1, SumsChange
<1>4. k \in 0..(TicksPerHour - 1) BY <1>1
<1>5. S[k] <= HourCount /\ S[TicksPerHour - 1] <= S[k] + MaxPerHour
      /\ HourCount \in Nat /\ HourCount <= MaxPerHour
  BY DEF IInv, HourLimit, SinceHour, HourCount, LimiterOK
<1>6. s_requests_this_hour' <= MaxPerHour /\ HourCount' \in Nat
  BY <1>1 DEF IInv, HourLimit, LimiterOK, HourCount, counters
<1>7. CallsWithin(calls') = CallsWithin(older) BY <1>1
<1>12. older \in [Ages -> Nat]
  <2>1. \A a \in Ages : a # 0 => calls[a - 1] \in Nat BY <1>1 DEF Ages
  <2> QED BY <2>1
<1> HIDE DEF older, S
<1>8. CallsWithin(older)[TicksPerHour - 1] <= S[TicksPerHour - 1]
  <2>1. CASE TicksPerHour = 1
    <3>1. TicksPerHour - 1 = 0 /\ 0 \in Ages BY <2>1 DEF Ages
    <3> QED BY <3>1, <1>2, <1>3
  <2>2. CASE TicksPerHour # 1
    <3>1. /\ TicksPerHour - 1 \in Ages \ {0} /\ TicksPerHour - 2 \in Ages
          /\ (TicksPerHour - 1) - 1 = TicksPerHour - 2 /\ TicksPerHour - 2 <= TicksPerHour - 1
      BY <2>2 DEF Ages
    <3>2. S[TicksPerHour - 2] <= S[TicksPerHour - 1] BY <1>1, <3>1, SumsGrow DEF S
    <3> QED BY <1>3, <3>1, <3>2
  <2> QED BY <2>1, <2>2
<1>9. 0 \in Ages /\ TicksPerHour - 1 \in Ages /\ k \in Ages BY <1>4 DEF Ages
<1>10. CASE k + 1 < TicksPerHour
  <2>1. clock' % TicksPerHour = k + 1 /\ clock' \div TicksPerHour = clock \div TicksPerHour
    BY <1>1, <1>10, NextOf
  <2>2. HourCount' = HourCount BY <1>1, <2>1 DEF HourCount, Hour, counters
  <2>3. k + 1 \in Ages \ {0} /\ (k + 1) - 1 = k BY <1>4, <1>10 DEF Ages
  <2>4. CallsWithin(older)[k + 1] = S[k] BY <1>3, <2>3
  <2>5. CallsWithin(older)[TicksPerHour - 1] <= S[k] + MaxPerHour
    <3>1. CallsWithin(older)[TicksPerHour - 1] \in Nat
      BY <1>9, <1>12, CallsWithinDef
    <3> QED BY <3>1, <1>2, <1>5, <1>8, <1>9
  <2> HIDE DEF k
  <2> QED BY <1>5, <1>6, <1>7, <2>1, <2>2, <2>4, <2>5 DEF HourLimit, SinceHour
<1>11. CASE k = TicksPerHour - 1
  <2>1. clock' % TicksPerHour = 0 BY <1>1, <1>11, NextOf
  <2>2. CallsWithin(older)[TicksPerHour - 1] <= MaxPerHour
    <3>1. S[TicksPerHour - 1] <= MaxPerHour BY <1>2, <1>5, <1>9, <1>11
    <3>2. CallsWithin(older)[TicksPerHour - 1] \in Nat
      BY <1>9, <1>12, CallsWithinDef
    <3> QED BY <3>1, <3>2, <1>2, <1>8, <1>9
  <2> HIDE DEF k
  <2> QED BY <1>3, <1>6, <1>7, <2>1, <2>2 DEF HourLimit, SinceHour
<1> QED BY <1>4, <1>10, <1>11

\* Time passes, and NTP sets the clock.
LEMMA ClockKeeps == ASSUME IInv, Clock PROVE IInv'
<1> USE RateLimitAssumption
    DEF Clock, config, request, loop, counters
<1>1. CASE Tick
  <2> USE <1>1 DEF Tick
  <2>1. ClockOK' BY DEF IInv, ClockOK
  <2>2. calls' \in [Ages -> Nat] BY DEF IInv, LimiterOK, Ages
  <2>3. LimiterOK' BY <2>2 DEF IInv, LimiterOK
  <2>4. LoopOK' /\ Booleans' BY DEF IInv, LoopOK, Booleans
  <2>5. Budget' /\ InSync' /\ Admitted' BY DEF IInv, Budget, InSync, Admitted
  <2>6. HourLimit' BY HourPasses
  <2> QED BY <2>1, <2>3, <2>4, <2>5, <2>6 DEF IInv
<1>2. CASE Sync
  <2> USE <1>2 DEF Sync
  <2>1. ClockOK' BY DEF IInv, ClockOK
  <2>2. calls' \in [Ages -> Nat] BY DEF NoCalls
  <2>3. LimiterOK' BY <2>2 DEF IInv, LimiterOK
  <2>4. LoopOK' /\ Booleans' BY DEF IInv, LoopOK, Booleans
  <2>5. Budget' /\ InSync' /\ Admitted' BY DEF IInv, Budget, InSync, Admitted
  <2>6. HourLimit'
    <3>1. HourCount' \in Nat BY <2>3 DEF HourCount, LimiterOK
    <3>2. clock' \in Nat BY <2>1 DEF ClockOK
    <3> QED BY <3>1, <3>2, NoCallsKeepNext DEF IInv, LimiterOK, HourLimit
  <2> QED BY <2>1, <2>3, <2>4, <2>5, <2>6 DEF IInv
<1> QED BY <1>1, <1>2 DEF Clock

\* A restart finds in flash what RAM had, if no write of the day failed.
LEMMA RestartKeeps == ASSUME IInv, Restart PROVE IInv'
<1> USE RateLimitAssumption, LlmRequestsAssumption, LongestIsLongest
    DEF Restart, LimiterRestarts, ratelimit_init, config
<1>0. nvs["daily"] \in Nat \cup {Unset} /\ nvs["day"] \in Nat \cup {Unset}
      /\ nvs["year"] \in Nat \cup {Unset}
  BY DEF IInv, LimiterOK
<1>1. ClockOK' BY DEF IInv, ClockOK
<1>2. LimiterOK' BY <1>0 DEF IInv, LimiterOK, NoCalls
<1>3. LoopOK' BY DEF IInv, LoopOK
<1>4. Booleans' BY DEF IInv, Booleans
<1>5. Budget' BY DEF IInv, Budget
<1>6. InSync' BY <1>0 DEF IInv, InSync
<1>7. Admitted' BY DEF IInv, Admitted
<1>8. HourLimit'
  <2>1. HourCount' \in Nat BY <1>2 DEF HourCount, LimiterOK
  <2>2. clock' \in Nat BY <1>1 DEF ClockOK
  <2> QED BY <2>1, <2>2, NoCallsKeepNext
<1> QED BY <1>1, <1>2, <1>3, <1>4, <1>5, <1>6, <1>7, <1>8 DEF IInv

\* Every step keeps the invariant.
LEMMA NextIInv == IInv /\ [Next]_vars => IInv'
<1> SUFFICES ASSUME IInv, [Next]_vars PROVE IInv' OBVIOUS
<1>1. CASE AgentStep
  BY <1>1, CheckRateKeeps, RecordKeeps, LoopKeeps, RequestKeeps DEF AgentStep
<1>2. CASE UNCHANGED vars
  <2>1. LoopOK' /\ Budget' BY <1>2 DEF vars, request, loop, config, IInv, LoopOK, Budget
  <2>2. Admitted'
    BY <1>2 DEF vars, request, limiter, counters, seen, IInv, Admitted
  <2> QED BY <1>2, <2>1, <2>2, LimiterKept DEF vars, IInv
<1> QED BY <1>1, <1>2, ClockKeeps, RestartKeeps DEF Next

\* The invariant holds in every reachable state.
THEOREM Inductive == Spec => []IInv
BY InitIInv, NextIInv, PTL DEF Spec

-----------------------------------------------------------------------------
\* Every variable stays in its range, and llm_request holds the gate only while it
\* has a client, on its failure paths too.
THEOREM TypeCorrect == Spec => []TypeOK
<1>1. IInv => TypeOK
  BY RateLimitAssumption DEF IInv, ClockOK, LimiterOK, LoopOK, Booleans, TypeOK
<1> QED BY <1>1, Inductive, PTL

\* The retry loop takes no longer than its budget and one attempt: no attempt begins
\* after the budget, and the sleeps fit into it.
THEOREM BudgetKept == Spec => []RetryBudgetKept
<1>1. IInv => RetryBudgetKept BY DEF IInv, Budget, RetryBudgetKept
<1> QED BY <1>1, Inductive, PTL

\* No more requests than the limit are recorded in an hour of the clock: of those that
\* ratelimit_check let through, the one under way is counted where it ends.
THEOREM HourlyLimitKept == Spec => []HourlyLimit
<1>1. IInv => HourlyLimit
  <2> SUFFICES ASSUME IInv PROVE HourlyLimit OBVIOUS
  <2>1. SinceHour \in Ages /\ calls \in [Ages -> Nat]
    BY RateLimitAssumption DEF SinceHour, Ages, IInv, ClockOK, LimiterOK
  <2>2. CallsWithin(calls)[SinceHour] \in Nat BY <2>1, CallsWithinDef
  <2>3. HourCount \in Nat /\ HourCount <= MaxPerHour
    BY RateLimitAssumption DEF HourCount, HourLimit, IInv, LimiterOK
  <2> QED BY <2>2, <2>3, RateLimitAssumption DEF IInv, HourLimit, HourlyLimit
<1> QED BY <1>1, Inductive, PTL

\* Between two settings of the clock at most twice the hourly limit is recorded in any
\* sixty minutes, wherever in the hours of the clock they begin.
THEOREM TwicePerHour == Spec => []TwicePerHourAtMost
<1>1. IInv => TwicePerHourAtMost
  <2> SUFFICES ASSUME IInv PROVE TwicePerHourAtMost OBVIOUS
  <2>1. SinceHour \in Ages /\ TicksPerHour - 1 \in Ages /\ calls \in [Ages -> Nat]
    BY RateLimitAssumption DEF SinceHour, Ages, IInv, ClockOK, LimiterOK
  <2>2. \A a \in Ages : CallsWithin(calls)[a] \in Nat BY <2>1, CallsWithinDef
  <2>3. HourCount \in Nat /\ HourCount <= MaxPerHour
    BY RateLimitAssumption DEF HourCount, HourLimit, IInv, LimiterOK
  <2> QED BY <2>1, <2>2, <2>3, RateLimitAssumption DEF IInv, HourLimit, TwicePerHourAtMost
<1> QED BY <1>1, Inductive, PTL

\* As long as flash is written, no more requests than the daily limit are recorded in a
\* day of the clock, restarts or not, and one is refused for the day only when the limit was reached.
THEOREM DailyLimit == Spec => []DailyLimitOverRestarts
<1>1. IInv => DailyLimitOverRestarts BY DEF IInv, Admitted, DailyLimitOverRestarts
<1> QED BY <1>1, Inductive, PTL

=============================================================================
