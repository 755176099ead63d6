----------------------------- MODULE CronProofs -----------------------------
(* Proofs about Cron, for every value of its constants. *)
EXTENDS Cron, TLAPS

-----------------------------------------------------------------------------
(* The inductive invariant *)

\* How far load_entries is with a slot: not begun, past it, between the two steps
\* in which it clears it, or still before it.
Where(i) == IF pc = "boot" THEN "out"
            ELSE IF Loaded(i) THEN "loaded"
            ELSE IF pc = "clear" /\ slot = i THEN "found empty" ELSE "ahead"

\* What holds of a slot at w, when r is its entry in RAM, f the one in flash, l
\* its log and c the call: an entry's id is the number of its slot; a one-shot
\* that ran is gone, and last_run is the time of the last firing. Before it is
\* loaded the slot in RAM is empty or holds what a call has put there.
SlotOk(w, i, r, f, l, c) ==
    /\ r \in Entry \cup {Empty} /\ f \in Entry \cup {Empty} /\ l \in LogEntry
    /\ r.id \in {0, i} /\ f.id \in {0, i}
    /\ l.copy # "kept" => l.ran = Never
    /\ l.ran # Never /\ f.id # 0 => f.type # "once" /\ f.last_run = l.ran
    /\ c.at = i => /\ c.old.id \in {0, i} /\ c.new.id \in {0, i}
                   /\ r = c.new \/ r = Empty \/ r = f
    /\ c.at # i =>
         /\ l.ran # Never /\ r.id # 0 => r.type # "once" /\ r.last_run = l.ran
         /\ l.copy # "torn" =>
              /\ w = "loaded" => r = IF l.copy = "cleared" THEN Empty ELSE f
              /\ w = "found empty" => r = f
              /\ w = "ahead" => r = f \/ r = Empty

TableInv ==
    /\ s_entries \in [Slots -> Entry \cup {Empty}]
    /\ nvs_entries \in [Slots -> Entry \cup {Empty}]
    /\ log \in [Slots -> LogEntry]
    /\ \A i \in Slots : SlotOk(Where(i), i, s_entries[i], nvs_entries[i], log[i], call)

\* The variables other than the table stay in their ranges, no call is under way
\* while a scan holds the mutex, and the scan has fired at most the slots it has
\* passed.
ControlInv ==
    /\ call \in Call /\ (call.at # 0 => pc \notin {"boot", "scan"})
    /\ s_timezone \in Timezones /\ nvs_timezone \in Timezones
    /\ s_time_synced \in BOOLEAN /\ real \in Times /\ clock \in 0..real
    /\ pc \in {"boot", "load", "clear", "zone", "ntp", "sleep", "lock", "scan", "send"}
    /\ slot \in Slots /\ now \in 0..real /\ timeinfo \in 0..(MinutesPerDay - 1)
    /\ s_pending_fires \in Seq(Slots) /\ Len(s_pending_fires) <= MaxEntries
    /\ pc = "scan" => Len(s_pending_fires) < slot
    /\ agent_queue \in 0..QueueLength /\ restarts \in 0..MaxRestarts

IInv == TableInv /\ ControlInv

-----------------------------------------------------------------------------
(* Changing one slot *)

\* A step that writes one slot, leaving it in order, and moves no other slot on,
\* leaves the table in order.
LEMMA OneSlot ==
    ASSUME TableInv, NEW i \in Slots, NEW r, NEW f, NEW l,
           SlotOk(Where(i)', i, r, f, l, call'),
           s_entries' = [s_entries EXCEPT ![i] = r],
           nvs_entries' = [nvs_entries EXCEPT ![i] = f],
           log' = [log EXCEPT ![i] = l],
           call' = call \/ (call.at \in {0, i} /\ call'.at \in {0, i}),
           \A j \in Slots \ {i} : Where(j)' = Where(j)
    PROVE  TableInv'
<1>1. /\ s_entries' \in [Slots -> Entry \cup {Empty}]
      /\ nvs_entries' \in [Slots -> Entry \cup {Empty}]
      /\ log' \in [Slots -> LogEntry]
  BY DEF TableInv, SlotOk
<1>2. ASSUME NEW j \in Slots
      PROVE  SlotOk(Where(j)', j, s_entries'[j], nvs_entries'[j], log'[j], call')
  <2>1. CASE j = i
    <3>1. s_entries'[j] = r /\ nvs_entries'[j] = f /\ log'[j] = l
      BY <2>1 DEF TableInv
    <3> QED
      BY <2>1, <3>1
  <2>2. CASE j # i
    <3>1. /\ s_entries'[j] = s_entries[j] /\ nvs_entries'[j] = nvs_entries[j]
          /\ log'[j] = log[j]
      BY <2>2 DEF TableInv
    <3>2. SlotOk(Where(j), j, s_entries[j], nvs_entries[j], log[j], call)
      BY DEF TableInv
    <3>3. SlotOk(Where(j), j, s_entries[j], nvs_entries[j], log[j], call')
      <4>1. CASE call' = call
        BY <3>2, <4>1
      <4>2. CASE call.at \in {0, i} /\ call'.at \in {0, i}
        <5>1. call.at # j /\ call'.at # j
          BY <2>2, <4>2, CronAssumption DEF Slots
        <5> QED
          BY <3>2, <5>1 DEF SlotOk
      <4> QED
        BY <4>1, <4>2
    <3> QED
      BY <2>2, <3>1, <3>3
  <2> QED
    BY <2>1, <2>2
<1> QED
  BY <1>1, <1>2 DEF TableInv

\* What TableInv says of one slot, and the tables written with one slot as it is.
LEMMA TheSlot ==
    ASSUME TableInv, NEW i \in Slots
    PROVE  /\ SlotOk(Where(i), i, s_entries[i], nvs_entries[i], log[i], call)
           /\ s_entries = [s_entries EXCEPT ![i] = s_entries[i]]
           /\ nvs_entries = [nvs_entries EXCEPT ![i] = nvs_entries[i]]
           /\ log = [log EXCEPT ![i] = log[i]]
BY DEF TableInv

\* A new entry in the first empty slot: the least id not in use is that slot's
\* number.
LEMMA NewIdIsSlot ==
    ASSUME TableInv, NEW i \in Slots, NEW id \in 1..MaxId,
           IsLeast(i, FreeSlots), NextId(id)
    PROVE  id = i
<1> USE CronAssumption DEF Slots
<1>1. \A j \in Slots : s_entries[j].id \in {0, j}
  BY DEF TableInv, SlotOk
<1>2. \A j \in Slots : j < i => s_entries[j].id = j
  BY <1>1 DEF IsLeast, FreeSlots, Used
<1>3. s_entries[i].id = 0
  BY DEF IsLeast, FreeSlots, Used
<1>4. i \in FreeIds
  <2>1. ASSUME NEW j \in Slots, s_entries[j].id = i
        PROVE  FALSE
    BY <1>1, <1>3, <2>1
  <2> QED
    BY <2>1 DEF FreeIds
<1>5. id <= i
  BY <1>4 DEF NextId, IsLeast
<1>6. ASSUME id < i
      PROVE  FALSE
  <2>1. id \in Slots /\ s_entries[id].id = id
    BY <1>2, <1>6
  <2> QED
    BY <2>1 DEF NextId, IsLeast, FreeIds
<1> QED
  BY <1>5, <1>6

\* A step that leaves table and call, and moves no slot on, keeps the table.
LEMMA SameTable ==
    ASSUME TableInv, UNCHANGED <<table, call>>, \A j \in Slots : Where(j)' = Where(j)
    PROVE  TableInv'
BY DEF TableInv, table

\* After load_entries every slot is loaded, and the steps of the cron task change
\* that no more.
LEMMA AllLoaded ==
    ASSUME pc \notin {"boot", "load", "clear"}, pc' \notin {"boot", "load", "clear"}
    PROVE  \A j \in Slots : Where(j) = "loaded" /\ Where(j)' = "loaded"
BY DEF Where, Loaded

-----------------------------------------------------------------------------
(* The tool calls *)

\* What a call puts into a slot is not saved yet.
LEMMA CallBeginsStep ==
    ASSUME IInv, NEW i \in Slots, NEW e \in Entry \cup {Empty}, e.id \in {0, i},
           CallBegins, InRam(i, e),
           call' = [at |-> i, old |-> s_entries[i], new |-> e]
           \/ call' = [at |-> i, old |-> Empty, new |-> e]
    PROVE  IInv'
<1>1. SlotOk(Where(i), i, s_entries[i], nvs_entries[i], log[i], call)
  BY TheSlot DEF IInv
<1>2. call'.at = i /\ call'.new = e /\ call'.old \in {s_entries[i], Empty}
  OBVIOUS
<1>3. Empty.id = 0
  BY DEF Empty
<1>4. SlotOk(Where(i)', i, e, nvs_entries[i], log[i], call')
  BY <1>1, <1>2, <1>3 DEF SlotOk
<1>5. call.at = 0
  BY DEF CallBegins, NoCall
<1>6. \A j \in Slots : Where(j)' = Where(j)
  BY DEF CallBegins, Where, Loaded
<1>7. TableInv'
  <2>1. nvs_entries' = [nvs_entries EXCEPT ![i] = nvs_entries[i]]
        /\ log' = [log EXCEPT ![i] = log[i]]
    BY TheSlot DEF IInv, CallBegins
  <2> QED
    BY <1>2, <1>4, <1>5, <1>6, <2>1, OneSlot DEF IInv, InRam
<1>8. call' \in Call /\ pc' \notin {"boot", "scan"}
  <2>1. i \in 0..MaxEntries
    BY CronAssumption DEF Slots
  <2>2. s_entries[i] \in Entry \cup {Empty}
    BY <1>1 DEF SlotOk
  <2> QED
    BY <2>1, <2>2 DEF Call, CallBegins
<1>9. ControlInv'
  BY <1>8 DEF IInv, ControlInv, CallBegins, zone, time, check
<1> QED
  BY <1>7, <1>9 DEF IInv

\* Creating a schedule.
LEMMA CreateStep ==
    ASSUME IInv, NEW s \in Schedules, cron_set(s)
    PROVE  IInv'
<1>1. PICK i \in Slots, id \in 1..MaxId :
        /\ IsLeast(i, FreeSlots) /\ NextId(id) /\ InRam(i, NewEntry(s, id))
        /\ call' = [at |-> i, old |-> Empty, new |-> NewEntry(s, id)]
  BY DEF cron_set
<1> DEFINE e == NewEntry(s, id)
<1>2. id = i
  BY <1>1, NewIdIsSlot DEF IInv
<1>3. e \in Entry /\ e.id = i
  <2>1. s.type \in Types /\ s.when \in Nat
    BY CronAssumption DEF ScheduleType
  <2>2. clock \in Times /\ 0 \in Times
    BY CronAssumption DEF IInv, ControlInv, Times
  <2> QED
    BY <1>2, <2>1, <2>2 DEF NewEntry, Entry
<1> HIDE DEF e
<1>4. InRam(i, e) /\ call' = [at |-> i, old |-> Empty, new |-> e] /\ CallBegins
  BY <1>1 DEF e, cron_set
<1> QED
  BY <1>3, <1>4, CallBeginsStep

\* Deleting a schedule.
LEMMA DeleteStep ==
    ASSUME IInv, NEW n \in DeleteRequests, cron_delete(n)
    PROVE  IInv'
<1>1. PICK i \in Slots :
        InRam(i, Empty) /\ call' = [at |-> i, old |-> s_entries[i], new |-> Empty]
  BY DEF cron_delete
<1>2. Empty.id = 0 /\ CallBegins
  BY DEF Empty, cron_delete
<1> QED
  BY <1>1, <1>2, CallBeginsStep

\* A call is over, and its slot is in order.
LEMMA CallEndsStep ==
    ASSUME IInv, CallEnds, NEW i \in Slots, call.at = i, NEW r, NEW f, NEW l,
           SlotOk(Where(i), i, r, f, l, NoCall),
           s_entries' = [s_entries EXCEPT ![i] = r],
           nvs_entries' = [nvs_entries EXCEPT ![i] = f],
           log' = [log EXCEPT ![i] = l]
    PROVE  IInv'
<1>2. \A j \in Slots : Where(j)' = Where(j)
  BY DEF CallEnds, Where, Loaded
<1>3. call' = NoCall /\ NoCall.at = 0
  BY DEF CallEnds, NoCall
<1>4. TableInv'
  BY <1>2, <1>3, OneSlot DEF IInv
<1>5. NoCall \in Call
  BY CronAssumption DEF NoCall, Call
<1>6. ControlInv'
  BY <1>3, <1>5 DEF IInv, ControlInv, CallEnds, zone, time, check
<1> QED
  BY <1>4, <1>6 DEF IInv

\* The slot of a call that ends.
LEMMA CallSlot == ASSUME IInv, CallEnds PROVE call.at \in Slots
<1>1. call \in Call /\ call.at # 0
  BY DEF IInv, ControlInv, CallEnds
<1>2. call.at \in 0..MaxEntries
  BY <1>1 DEF Call
<1> QED
  BY <1>1, <1>2, CronAssumption DEF Slots

\* A call saves its slot as load_entries has left it.
LEMMA SavesStep ==
    ASSUME IInv, CallSaves
    PROVE  IInv'
<1>0. PICK i \in Slots : call.at = i
  BY CallSlot DEF CallSaves
<1> DEFINE e == s_entries[i]
           l == IF e = call.new THEN Fresh ELSE [log[i] EXCEPT !.copy = "kept"]
<1>2. SlotOk(Where(i), i, e, nvs_entries[i], log[i], call)
  BY TheSlot DEF IInv
<1>3. /\ s_entries' = [s_entries EXCEPT ![i] = e]
      /\ nvs_entries' = [nvs_entries EXCEPT ![i] = e]
      /\ log' = [log EXCEPT ![i] = l]
  BY <1>0, TheSlot DEF IInv, CallSaves, Saved
<1>4. l \in LogEntry /\ l.copy = "kept" /\ (l.ran # Never => l.ran = log[i].ran /\ e # call.new)
  BY <1>2 DEF SlotOk, LogEntry, Fresh
<1>5. Empty.id = 0 /\ NoCall.at # i
  BY DEF Empty, NoCall, Slots
<1>6. SlotOk(Where(i), i, e, e, l, NoCall)
  <2> HIDE DEF e, l
  <2>2. l.ran # Never /\ e.id # 0 => e.type # "once" /\ e.last_run = l.ran
    BY <1>0, <1>2, <1>4, <1>5 DEF SlotOk
  <2> QED
    BY <1>0, <1>2, <1>4, <1>5, <2>2 DEF SlotOk
<1>7. CallEnds
  BY DEF CallSaves
<1> HIDE DEF e, l
<1> QED
  BY <1>0, <1>3, <1>6, <1>7, CallEndsStep

\* A call whose write fails puts back what it found.
LEMMA FailsStep ==
    ASSUME IInv, CallFails
    PROVE  IInv'
<1>0. PICK i \in Slots : call.at = i
  BY CallSlot DEF CallFails
<1>2. SlotOk(Where(i), i, s_entries[i], nvs_entries[i], log[i], call)
  BY TheSlot DEF IInv
<1>3. PICK f \in {nvs_entries[i], s_entries[i]} :
        nvs_entries' = [nvs_entries EXCEPT ![i] = f]
  BY <1>0, TheSlot DEF IInv, CallFails, NotSaved
<1>4. Torn \in LogEntry /\ Torn.copy = "torn" /\ Torn.ran = Never
  BY DEF Torn, LogEntry
<1>5. NoCall.at # i /\ call.old \in Entry \cup {Empty} /\ call.old.id \in {0, i}
  BY <1>0, <1>2 DEF NoCall, Slots, SlotOk, IInv, ControlInv, Call
<1>6. SlotOk(Where(i), i, call.old, f, Torn, NoCall)
  BY <1>2, <1>3, <1>4, <1>5 DEF SlotOk
<1> QED
  BY <1>0, <1>3, <1>6, CallEndsStep DEF CallFails, InRam

-----------------------------------------------------------------------------
(* The scan *)

\* Going on to the next slot, with at most one more firing than before.
LEMMA NextSlotStep ==
    ASSUME ControlInv, pc = "scan", NextSlot,
           s_pending_fires' \in Seq(Slots),
           Len(s_pending_fires') <= Len(s_pending_fires) + 1,
           slot < MaxEntries \/ Len(s_pending_fires') <= MaxEntries,
           UNCHANGED restarts
    PROVE  ControlInv'
<1>1. MaxEntries \in Nat \ {0}
  BY CronAssumption
<1>2. slot \in 1..MaxEntries /\ Len(s_pending_fires) < slot
  BY DEF ControlInv, Slots
<1>3. Len(s_pending_fires) \in Nat /\ Len(s_pending_fires') \in Nat
  BY DEF ControlInv
<1>4. slot' \in 1..MaxEntries /\ pc' \in {"scan", "send"}
  BY <1>1, <1>2 DEF NextSlot, ControlInv
<1>5. Len(s_pending_fires') <= MaxEntries
  BY <1>1, <1>2, <1>3
<1>6. pc' = "scan" => Len(s_pending_fires') < slot'
  BY <1>1, <1>2, <1>3 DEF NextSlot
<1>7. call' = call /\ call.at = 0
  BY DEF NextSlot, ControlInv
<1> QED
  BY <1>4, <1>5, <1>6, <1>7 DEF NextSlot, ControlInv, zone, time, Slots

\* A scan fires the entry it is at.
LEMMA FireStep ==
    ASSUME IInv, Fire
    PROVE  IInv'
<1>0. PICK i \in Slots : slot = i
  BY DEF IInv, ControlInv
<1> DEFINE e == s_entries[i]
           l == [ran |-> now, copy |-> "kept"]
<1>1. now \in Times /\ real \in Times
  BY CronAssumption DEF IInv, ControlInv, Times
<1>2. SlotOk(Where(i), i, e, nvs_entries[i], log[i], call)
  BY <1>1, TheSlot DEF IInv
<1>3. e \in Entry
  <2>1. ShouldFire(e)
    BY <1>0 DEF Fire
  <2>2. e.id # 0 /\ Empty.id = 0
    BY <2>1 DEF ShouldFire, Empty
  <2>3. e \in Entry \cup {Empty}
    BY <1>2 DEF SlotOk
  <2> QED
    BY <2>2, <2>3
<1>4. /\ AfterRun(e) \in Entry \cup {Empty} /\ AfterRun(e).id \in {0, i}
      /\ AfterRun(e).id # 0 => /\ AfterRun(e).type # "once"
                               /\ AfterRun(e).last_run = now
  <2>1. CASE e.type = "once"
    BY <2>1 DEF AfterRun, Empty
  <2>2. CASE e.type # "once"
    <3>1. AfterRun(e) = [e EXCEPT !.last_run = now]
      BY <2>2 DEF AfterRun
    <3>2. [e EXCEPT !.last_run = now] \in Entry
      BY <1>1, <1>3 DEF Entry
    <3> QED
      BY <1>2, <1>3, <2>2, <3>1, <3>2 DEF SlotOk, Entry
  <2> QED
    BY <2>1, <2>2
<1>5. l \in LogEntry /\ l.copy = "kept" /\ l.ran = now
  BY <1>1 DEF LogEntry
<1>6. Torn \in LogEntry /\ Torn.copy = "torn" /\ Torn.ran = Never
  BY DEF Torn, LogEntry
<1>7. pc = "scan" /\ pc' \in {"scan", "send"} /\ call' = call /\ call.at # i
  BY DEF Fire, NextSlot, IInv, ControlInv, Slots
<1>8. \A j \in Slots : Where(j) = "loaded" /\ Where(j)' = "loaded"
  BY <1>7, AllLoaded
<1>9. TableInv'
  <2> DEFINE after == AfterRun(e)
  <2>1. CASE Saved(i, after) /\ InRam(i, after) /\ log' = [log EXCEPT ![i] = l]
    <3> HIDE DEF l, after
    <3>1. SlotOk(Where(i)', i, after, after, l, call')
      BY <1>1, <1>4, <1>5, <1>7 DEF SlotOk, after
    <3> QED
      BY <1>1, <1>7, <1>8, <2>1, <3>1, OneSlot DEF IInv, InRam, Saved
  <2>2. CASE /\ NotSaved(i, after)
             /\ InRam(i, e) \/ InRam(i, after)
             /\ log' = [log EXCEPT ![i] = Torn]
    <3> HIDE DEF after
    <3>1. PICK f \in {nvs_entries[i], after} :
            nvs_entries' = [nvs_entries EXCEPT ![i] = f]
      BY <1>1, <2>2, TheSlot DEF IInv, NotSaved
    <3>2. PICK r \in {e, after} : s_entries' = [s_entries EXCEPT ![i] = r]
      BY <2>2 DEF InRam
    <3>3. SlotOk(Where(i)', i, r, f, Torn, call')
      BY <1>1, <1>2, <1>4, <1>6, <1>7, <3>1, <3>2 DEF SlotOk, after
    <3> QED
      BY <1>1, <1>7, <1>8, <2>2, <3>1, <3>2, <3>3, OneSlot DEF IInv
  <2>3. \/ /\ Saved(i, after) /\ InRam(i, after)
           /\ log' = [log EXCEPT ![i] = l]
        \/ /\ NotSaved(i, after)
           /\ InRam(i, e) \/ InRam(i, after)
           /\ log' = [log EXCEPT ![i] = Torn]
    BY <1>0 DEF Fire
  <2> QED
    BY <2>1, <2>2, <2>3
<1>10. ControlInv'
  <2>1. s_pending_fires' \in Seq(Slots) /\ Len(s_pending_fires') = Len(s_pending_fires) + 1
    BY DEF Fire, IInv, ControlInv
  <2>2. Len(s_pending_fires) < slot /\ Len(s_pending_fires) \in Nat /\ slot \in 1..MaxEntries
    BY DEF Fire, IInv, ControlInv, Slots
  <2>3. Len(s_pending_fires') <= MaxEntries
    BY <2>1, <2>2, CronAssumption
  <2>4. pc = "scan" /\ NextSlot
    BY DEF Fire
  <2>5. UNCHANGED restarts
    BY <2>4 DEF NextSlot
  <2>6. ControlInv
    BY DEF IInv
  <2> QED
    BY <2>1, <2>2, <2>3, <2>4, <2>5, <2>6, NextSlotStep
<1> QED
  BY <1>9, <1>10 DEF IInv

-----------------------------------------------------------------------------
(* Start-up and restarts *)

\* load_entries goes on to the next slot.
LEMMA LoadNextStep ==
    ASSUME IInv, pc \in {"load", "clear"}, LoadNext
    PROVE  /\ ControlInv' /\ call' = call /\ nvs_entries' = nvs_entries
           /\ \A j \in Slots : Where(j)' = IF j = slot THEN "loaded" ELSE Where(j)
<1>1. slot \in 1..MaxEntries /\ MaxEntries \in Nat
  BY CronAssumption DEF IInv, ControlInv, Slots
<1>2. slot' \in 1..MaxEntries /\ pc' \in {"load", "zone"}
  BY <1>1 DEF LoadNext
<1>3. ControlInv'
  BY <1>2 DEF IInv, ControlInv, LoadNext, zone, time, check, Slots
<1>4. ASSUME NEW j \in 1..MaxEntries
      PROVE  Where(j)' = IF j = slot THEN "loaded" ELSE Where(j)
  <2>1. CASE slot < MaxEntries
    <3>1. pc' = "load" /\ slot' = slot + 1
      BY <2>1 DEF LoadNext
    <3>2. Loaded(j)' <=> j <= slot
      BY <1>1, <3>1 DEF Loaded
    <3>3. Loaded(j) <=> j < slot
      BY <1>1 DEF Loaded
    <3>4. Where(j)' = IF Loaded(j)' THEN "loaded" ELSE "ahead"
      BY <3>1 DEF Where
    <3>5. j # slot => Where(j) = IF Loaded(j) THEN "loaded" ELSE "ahead"
      BY DEF Where
    <3> QED
      BY <1>1, <3>2, <3>3, <3>4, <3>5
  <2>2. CASE ~(slot < MaxEntries)
    <3>1. pc' = "zone" /\ j <= slot
      BY <1>1, <2>2 DEF LoadNext
    <3>2. Where(j)' = "loaded"
      BY <3>1 DEF Where, Loaded
    <3>3. j # slot => Where(j) = "loaded"
      BY <1>1, <3>1 DEF Where, Loaded
    <3> QED
      BY <3>2, <3>3
  <2> QED
    BY <2>1, <2>2
<1> QED
  BY <1>3, <1>4 DEF LoadNext, Slots

\* nvs_get_blob reads a slot from flash.
LEMMA LoadStep ==
    ASSUME IInv, LoadEntry
    PROVE  IInv'
<1>0. PICK i \in Slots : slot = i
  BY DEF IInv, ControlInv
<1> DEFINE f == nvs_entries[i]
           l == [log[i] EXCEPT !.copy = "kept"]
<1>1. SlotOk(Where(i), i, s_entries[i], f, log[i], call)
  BY TheSlot DEF IInv
<1>2. /\ s_entries' = [s_entries EXCEPT ![i] = f]
      /\ log' = [log EXCEPT ![i] = l]
  BY <1>0 DEF LoadEntry, InRam, IInv, TableInv
<1>3. /\ ControlInv' /\ call' = call /\ nvs_entries' = nvs_entries
      /\ \A j \in Slots : Where(j)' = IF j = i THEN "loaded" ELSE Where(j)
  BY <1>0, LoadNextStep DEF LoadEntry
<1>4. l \in LogEntry /\ l.copy = "kept" /\ l.ran = log[i].ran
  BY <1>1 DEF SlotOk, LogEntry
<1>5. SlotOk(Where(i)', i, f, f, l, call')
  <2> HIDE DEF f, l
  <2> QED
    BY <1>1, <1>3, <1>4 DEF SlotOk
<1>6. nvs_entries' = [nvs_entries EXCEPT ![i] = f]
  BY <1>3, TheSlot DEF IInv
<1>7. TableInv'
  BY <1>2, <1>3, <1>5, <1>6, OneSlot DEF IInv
<1> QED
  BY <1>3, <1>7 DEF IInv

\* A slot is found empty.
LEMMA NotFoundStep ==
    ASSUME IInv, EntryNotFound
    PROVE  IInv'
<1>0. PICK i \in Slots : slot = i
  BY DEF IInv, ControlInv
<1>1. SlotOk(Where(i), i, s_entries[i], nvs_entries[i], log[i], call)
  BY TheSlot DEF IInv
<1>2. Where(i) = "ahead" /\ Where(i)' = "found empty" /\ nvs_entries[i] = Empty
  BY <1>0, CronAssumption DEF EntryNotFound, Where, Loaded, Slots
<1>3. \A j \in Slots \ {i} : Where(j)' = Where(j)
  BY <1>0 DEF EntryNotFound, Where, Loaded
<1>4. SlotOk(Where(i)', i, s_entries[i], nvs_entries[i], log[i], call')
  BY <1>1, <1>2 DEF SlotOk, EntryNotFound
<1>5. TableInv'
  BY <1>3, <1>4, OneSlot, TheSlot DEF IInv, EntryNotFound, table
<1>6. ControlInv'
  BY DEF IInv, ControlInv, EntryNotFound, zone, time, check
<1> QED
  BY <1>5, <1>6 DEF IInv

\* It is cleared, with what may have been created there by then.
LEMMA ClearStep ==
    ASSUME IInv, ClearSlot
    PROVE  IInv'
<1>0. PICK i \in Slots : slot = i
  BY DEF IInv, ControlInv
<1> DEFINE r == s_entries[i]
           f == nvs_entries[i]
           l == IF r.id # 0 /\ call.at # i /\ log[i].copy = "kept" THEN Cleared ELSE log[i]
<1>1. SlotOk(Where(i), i, r, f, log[i], call)
  BY TheSlot DEF IInv
<1>2. /\ s_entries' = [s_entries EXCEPT ![i] = Empty]
      /\ log' = [log EXCEPT ![i] = l]
  BY <1>0 DEF ClearSlot, InRam, IInv, TableInv, Used
<1>3. /\ ControlInv' /\ call' = call /\ nvs_entries' = nvs_entries
      /\ \A j \in Slots : Where(j)' = IF j = i THEN "loaded" ELSE Where(j)
  BY <1>0, LoadNextStep DEF ClearSlot
<1>4. Where(i) = "found empty"
  BY <1>0, CronAssumption DEF ClearSlot, Where, Loaded, Slots
<1>5. /\ Empty \in Entry \cup {Empty} /\ Empty.id = 0
      /\ Cleared \in LogEntry /\ Cleared.copy = "cleared" /\ Cleared.ran = Never
  BY DEF Empty, Cleared, LogEntry
<1>6. r.id = 0 => r = Empty
  <2>1. r \in Entry \cup {Empty}
    BY <1>1 DEF SlotOk
  <2>2. \A x \in Entry : x.id # 0
    BY DEF Entry
  <2> QED
    BY <2>1, <2>2
<1>7. SlotOk(Where(i)', i, Empty, f, l, call')
  <2> HIDE DEF r, f
  <2>1. log[i].copy \in {"kept", "torn", "cleared"}
    BY <1>1 DEF SlotOk, LogEntry
  <2>2. CASE l = Cleared
    BY <1>1, <1>3, <1>5, <2>2 DEF SlotOk
  <2>3. CASE l = log[i] /\ (r.id = 0 \/ call.at = i \/ log[i].copy # "kept")
    <3> HIDE DEF l
    <3> QED
      BY <1>1, <1>3, <1>4, <1>5, <1>6, <2>1, <2>3 DEF SlotOk
  <2> QED
    BY <2>2, <2>3
<1>8. nvs_entries' = [nvs_entries EXCEPT ![i] = f]
  BY <1>3, TheSlot DEF IInv
<1>9. TableInv'
  <2> HIDE DEF l, f
  <2> QED
    BY <1>2, <1>3, <1>7, <1>8, OneSlot DEF IInv
<1> QED
  BY <1>3, <1>9 DEF IInv

\* Nothing is stored: what calls have put into RAM stays.
LEMMA NothingStoredStep ==
    ASSUME IInv, NothingStored
    PROVE  IInv'
<1>1. ASSUME NEW i \in Slots
      PROVE  SlotOk(Where(i)', i, s_entries[i], nvs_entries[i], log[i], call)
  <2>1. SlotOk(Where(i), i, s_entries[i], nvs_entries[i], log[i], call)
    BY TheSlot DEF IInv
  <2>2. Where(i) = "ahead" /\ Where(i)' = "loaded" /\ nvs_entries[i] = Empty
    BY CronAssumption DEF NothingStored, Where, Loaded, Slots
  <2> QED
    BY <2>1, <2>2 DEF SlotOk
<1>2. TableInv'
  BY <1>1 DEF IInv, TableInv, NothingStored, table
<1>3. ControlInv'
  BY DEF IInv, ControlInv, NothingStored, zone, time, check
<1> QED
  BY <1>2, <1>3 DEF IInv

\* The table in RAM is emptied, with no call under way and no slot loaded.
LEMMA EmptyTable ==
    ASSUME IInv, s_entries' = [i \in Slots |-> Empty], UNCHANGED <<nvs_entries, log>>,
           call'.at = 0,
           \A i \in Slots : Where(i)' \in {"out", "ahead"}
    PROVE  TableInv'
<1>1. ASSUME NEW i \in Slots
      PROVE  SlotOk(Where(i)', i, Empty, nvs_entries[i], log[i], call')
  <2>1. SlotOk(Where(i), i, s_entries[i], nvs_entries[i], log[i], call)
    BY TheSlot DEF IInv
  <2>2. Empty.id = 0 /\ call'.at # i /\ Where(i)' \in {"out", "ahead"}
    BY DEF Empty, Slots
  <2> QED
    BY <2>1, <2>2 DEF SlotOk
<1> QED
  BY <1>1 DEF IInv, TableInv

-----------------------------------------------------------------------------
(* Every step *)

\* The invariant holds when the device is first switched on.
LEMMA InitIInv == Init => IInv
<1> SUFFICES ASSUME Init PROVE IInv
  OBVIOUS
<1>1. ASSUME NEW i \in Slots
      PROVE  SlotOk(Where(i), i, Empty, Empty, Fresh, NoCall)
  BY DEF SlotOk, Empty, Fresh, LogEntry, NoCall, Slots
<1>2. TableInv
  BY <1>1 DEF Init, TableInv, SlotOk
<1>4. <<>> \in Seq(Slots) /\ Len(<<>>) = 0
  OBVIOUS
<1>5. MaxEntries \in Nat \ {0} /\ QueueLength \in Nat /\ MaxRestarts \in Nat
  BY CronAssumption
<1>6. DefaultTimezone \in Timezones /\ Epoch \in Times /\ Epoch \in Nat
      /\ MinutesPerDay \in Nat \ {0}
  BY CronAssumption DEF Times
<1>7. 1 \in Slots /\ 0 <= MaxEntries
  BY <1>5 DEF Slots
<1>8. ControlInv
  <2>1. /\ s_timezone \in Timezones /\ nvs_timezone \in Timezones
        /\ real \in Times /\ clock \in 0..real /\ now \in 0..real
        /\ timeinfo \in 0..(MinutesPerDay - 1)
        /\ agent_queue \in 0..QueueLength /\ restarts \in 0..MaxRestarts
    BY <1>5, <1>6 DEF Init
  <2>2. /\ s_pending_fires \in Seq(Slots) /\ Len(s_pending_fires) <= MaxEntries
        /\ slot \in Slots
    BY <1>4, <1>7 DEF Init
  <2>3. s_time_synced \in BOOLEAN /\ pc = "boot" /\ call \in Call /\ call.at = 0
    <3>1. NoCall \in Call /\ NoCall.at = 0
      BY <1>5 DEF NoCall, Call
    <3> QED
      BY <3>1 DEF Init
  <2> QED
    BY <2>1, <2>2, <2>3 DEF ControlInv
<1> QED
  BY <1>2, <1>8 DEF IInv

\* The steps that leave the table alone, and no slot newly loaded.
OtherStep == \/ LoadTimezone \/ StartTask
             \/ ReadClock \/ Lock \/ LockTimeout \/ PassOver \/ Send \/ Sleep
             \/ \E z \in Timezones : cron_set_timezone(z)
             \/ Tick \/ TimeSync \/ AgentTakes

\* The local time that check_entries reads is a minute of the day.
LEMMA LocalMinuteRange == ASSUME ControlInv PROVE LocalMinute(clock) \in 0..(MinutesPerDay - 1)
<1>1. clock \in Nat /\ s_timezone \in Nat
  BY CronAssumption DEF ControlInv, Times
<1>2. TicksPerMinute \in Nat \ {0} /\ MinutesPerDay \in Nat \ {0}
  BY CronAssumption
<1>3. Minute(clock) \in Int
  BY <1>1, <1>2 DEF Minute
<1>4. ASSUME NEW m \in Int
      PROVE  m % MinutesPerDay \in 0..(MinutesPerDay - 1)
  BY <1>2
<1> QED
  BY <1>1, <1>3, <1>4 DEF LocalMinute

\* The clock, the agent's queue, time sync and the steps of the scheduler that
\* leave the table alone.
LEMMA OtherStepIInv ==
    ASSUME IInv, OtherStep
    PROVE  IInv'
<1>1. UNCHANGED <<table, call>>
  BY DEF OtherStep, LoadTimezone, StartTask, ReadClock, Lock, LockTimeout, NextSlot,
         PassOver, Send, Sleep, ScanEnds, cron_set_timezone, Tick, TimeSync, AgentTakes
<1>2. \A j \in Slots : Where(j)' = Where(j)
  <2>1. CASE UNCHANGED <<pc, slot>>
    BY <2>1 DEF Where, Loaded
  <2>2. CASE pc \notin {"boot", "load", "clear"} /\ pc' \notin {"boot", "load", "clear"}
    BY <2>2, AllLoaded
  <2> QED
    BY <2>1, <2>2
    DEF OtherStep, LoadTimezone, StartTask, ReadClock, Lock, LockTimeout, NextSlot,
        PassOver, Send, Sleep, ScanEnds, cron_set_timezone, Tick, TimeSync, AgentTakes
<1>3. TableInv'
  BY <1>1, <1>2, SameTable DEF IInv
<1>4. ControlInv'
  <2>1. CASE LoadTimezone \/ StartTask \/ \E z \in Timezones : cron_set_timezone(z)
    BY <2>1 DEF IInv, ControlInv, LoadTimezone, StartTask, cron_set_timezone, zone, time,
                check
  <2>2. CASE ReadClock
    BY <2>2, LocalMinuteRange DEF IInv, ControlInv, ReadClock, zone, time
  <2>3. CASE Lock
    <3>1. <<>> \in Seq(Slots) /\ Len(<<>>) = 0
      OBVIOUS
    <3> QED
      BY <2>3, <3>1, CronAssumption DEF IInv, ControlInv, Lock, zone, time, Slots, NoCall
  <2>4. CASE PassOver
    <3>1. ControlInv /\ pc = "scan" /\ NextSlot /\ s_pending_fires' = s_pending_fires
      BY <2>4 DEF IInv, PassOver
    <3>2. UNCHANGED restarts
      BY <3>1 DEF NextSlot
    <3>3. /\ s_pending_fires' \in Seq(Slots)
          /\ Len(s_pending_fires') <= Len(s_pending_fires) + 1
          /\ Len(s_pending_fires') <= MaxEntries
      BY <3>1 DEF ControlInv
    <3> QED
      BY <3>1, <3>2, <3>3, NextSlotStep
  <2>5. CASE Send
    <3>1. /\ s_pending_fires' \in Seq(Slots)
          /\ Len(s_pending_fires') = Len(s_pending_fires) - 1
      BY <2>5 DEF IInv, ControlInv, Send
    <3>2. agent_queue' \in 0..QueueLength
      BY <2>5, CronAssumption DEF IInv, ControlInv, Send
    <3>3. Len(s_pending_fires') <= MaxEntries
      BY <3>1, CronAssumption DEF IInv, ControlInv
    <3> QED
      BY <2>5, <3>1, <3>2, <3>3 DEF IInv, ControlInv, Send, zone, time
  <2>6. CASE Tick
    BY <2>6, CronAssumption DEF IInv, ControlInv, Tick, zone, Times, check
  <2>7. CASE TimeSync
    BY <2>7, CronAssumption DEF IInv, ControlInv, TimeSync, zone, Times, check
  <2>8. CASE AgentTakes
    BY <2>8, CronAssumption DEF IInv, ControlInv, AgentTakes, zone, time, check
  <2>9. CASE LockTimeout \/ Sleep
    <3>1. real \in Nat /\ MinutesPerDay \in Nat \ {0}
      BY CronAssumption DEF IInv, ControlInv, Times
    <3>2. /\ pc' = "sleep" /\ now' = 0 /\ timeinfo' = 0
          /\ UNCHANGED <<table, call, zone, time, slot, restarts, s_pending_fires, agent_queue>>
      BY <2>9 DEF LockTimeout, Sleep, ScanEnds
    <3> QED
      BY <3>1, <3>2 DEF IInv, ControlInv, zone, time
  <2> QED
    BY <2>1, <2>2, <2>3, <2>4, <2>5, <2>6, <2>7, <2>8, <2>9 DEF OtherStep
<1> QED
  BY <1>3, <1>4 DEF IInv

\* Every step of the scheduler preserves the invariant.
LEMMA StepIInv ==
    ASSUME IInv, [Next]_vars
    PROVE  IInv'
<1>1. CASE CreateMutex
  <2>0. call' = call /\ call.at = 0
    BY <1>1 DEF IInv, ControlInv, CreateMutex
  <2>1. \A i \in Slots : Where(i)' = "ahead"
    BY <1>1 DEF CreateMutex, Where, Loaded, Slots
  <2>2. TableInv'
    BY <1>1, <2>0, <2>1, EmptyTable DEF CreateMutex
  <2>3. ControlInv'
    BY <1>1, <2>0, CronAssumption DEF IInv, ControlInv, CreateMutex, zone, time, check, Slots
  <2> QED
    BY <2>2, <2>3 DEF IInv
<1>2. CASE NothingStored \/ LoadEntry \/ EntryNotFound \/ ClearSlot
  BY <1>2, NothingStoredStep, LoadStep, NotFoundStep, ClearStep
<1>3. CASE \E s \in Schedules : cron_set(s)
  BY <1>3, CreateStep
<1>4. CASE \E n \in DeleteRequests : cron_delete(n)
  BY <1>4, DeleteStep
<1>9. CASE CallReturns
  BY <1>9, SavesStep, FailsStep DEF CallReturns
<1>5. CASE Fire
  BY <1>5, FireStep
<1>6. CASE Restart
  <2>0. NoCall.at = 0 /\ NoCall \in Call
    BY CronAssumption DEF NoCall, Call
  <2>1. TableInv'
    BY <1>6, <2>0, EmptyTable DEF Restart, Where
  <2>2. <<>> \in Seq(Slots) /\ Len(<<>>) = 0
    OBVIOUS
  <2>3. MaxEntries \in Nat \ {0} /\ QueueLength \in Nat /\ MaxRestarts \in Nat
        /\ MinutesPerDay \in Nat \ {0}
    BY CronAssumption
  <2>4. 1 \in Slots /\ 0 <= MaxEntries
    BY <2>3 DEF Slots
  <2>5. DefaultTimezone \in Timezones
    BY CronAssumption
  <2>6. real \in Nat
    BY CronAssumption DEF IInv, ControlInv, Times
  <2>7. restarts' \in 0..MaxRestarts
    BY <1>6, <2>3 DEF IInv, ControlInv, Restart
  <2>8. /\ s_timezone' \in Timezones /\ nvs_timezone' \in Timezones
        /\ real' \in Times /\ clock' \in 0..real' /\ now' \in 0..real'
        /\ timeinfo' \in 0..(MinutesPerDay - 1)
        /\ agent_queue' \in 0..QueueLength
    BY <1>6, <2>3, <2>5, <2>6 DEF IInv, ControlInv, Restart
  <2>9. /\ s_pending_fires' \in Seq(Slots) /\ Len(s_pending_fires') <= MaxEntries
        /\ slot' \in Slots
    BY <1>6, <2>2, <2>4 DEF Restart
  <2>10. s_time_synced' \in BOOLEAN /\ pc' = "boot" /\ call' \in Call /\ call'.at = 0
    BY <1>6, <2>0 DEF Restart
  <2>11. ControlInv'
    BY <2>7, <2>8, <2>9, <2>10 DEF ControlInv
  <2> QED
    BY <2>1, <2>11 DEF IInv
<1>7. CASE OtherStep
  BY <1>7, OtherStepIInv
<1>8. CASE UNCHANGED vars
  <2>1. TableInv'
    BY <1>8, SameTable DEF IInv, vars, Where, Loaded
  <2>2. ControlInv'
    BY <1>8 DEF IInv, ControlInv, vars, zone, time, check
  <2> QED
    BY <2>1, <2>2 DEF IInv
<1> QED
  BY <1>1, <1>2, <1>3, <1>4, <1>5, <1>6, <1>7, <1>8, <1>9
  DEF Next, StartUp, Check, ToolCall, OtherStep

\* The inductive invariant holds in every reachable state.
THEOREM Inductive == Spec => []IInv
<1>1. IInv /\ [Next]_vars => IInv'
  BY StepIInv
<1> QED
  BY InitIInv, <1>1, PTL DEF Spec

-----------------------------------------------------------------------------
(* The properties *)

\* Every variable of the scheduler stays in its range.
THEOREM TypeCorrect == Spec => []TypeOK
<1>1. IInv => TypeOK
  BY DEF IInv, TableInv, ControlInv, TypeOK
<1> QED
  BY <1>1, Inductive, PTL

\* Ids are unique in RAM and in flash, also for entries created while
\* load_entries runs: an entry's id is always the number of its slot.
THEOREM IdsUnique == Spec => []UniqueIds
<1>1. ASSUME IInv
      PROVE  UniqueIds
  <2>1. \A i \in Slots : s_entries[i].id \in {0, i} /\ nvs_entries[i].id \in {0, i}
    BY <1>1 DEF IInv, TableInv, SlotOk
  <2> QED
    BY <2>1 DEF UniqueIds
<1> QED
  BY <1>1, Inductive, PTL

\* RAM and flash hold the same schedules at every moment at which a restart may
\* come, also where calls and load_entries overtake one another, except for an
\* entry whose last write was reported as failed, and one that load_entries drops
\* from RAM because it was created while its slot was being found empty.
THEOREM FlashKept == Spec => []RamMatchesFlash
<1>1. ASSUME IInv, NEW i \in Slots, Settled(i), log[i].copy # "torn"
      PROVE  s_entries[i] = IF log[i].copy = "cleared" THEN Empty ELSE nvs_entries[i]
  <2>1. Where(i) = "loaded" /\ call.at # i
    BY <1>1 DEF Settled, Where, Loaded
  <2>2. SlotOk(Where(i), i, s_entries[i], nvs_entries[i], log[i], call)
    BY <1>1, TheSlot DEF IInv
  <2> QED
    BY <1>1, <2>1, <2>2 DEF SlotOk
<1>2. IInv => RamMatchesFlash
  BY <1>1 DEF RamMatchesFlash
<1> QED
  BY <1>2, Inductive, PTL

\* A one-shot that ran is in neither copy of the table.
THEOREM FiredOnceGone == Spec => []FiredOnceIsGone
<1>1. ASSUME IInv
      PROVE  FiredOnceIsGone
  BY <1>1 DEF IInv, TableInv, SlotOk, FiredOnceIsGone, Used
<1> QED
  BY <1>1, Inductive, PTL

\* A time before the start of a minute lies in another minute.
LEMMA EarlierMinute ==
    ASSUME NEW s \in Nat, NEW t \in Nat, s < MinuteStart(t)
    PROVE  Minute(s) # Minute(t)
<1> DEFINE T == TicksPerMinute
<1>1. T \in Nat \ {0}
  BY CronAssumption
<1> HIDE DEF T
<1>2. s = T * (s \div T) + (s % T) /\ s % T \in 0..(T - 1) /\ s \div T \in Int
  BY <1>1
<1>3. SUFFICES ASSUME s \div T = t \div T
               PROVE  FALSE
  BY DEF Minute, T
<1>4. s < (t \div T) * T
  BY DEF MinuteStart, Minute, T
<1>5. (t \div T) * T = T * (s \div T)
  BY <1>1, <1>2, <1>3
<1> QED
  BY <1>1, <1>2, <1>4, <1>5

\* A daily schedule fires at most once in a minute of the clock, over restarts
\* and changes of clock and timezone.
THEOREM DailyOnce == Spec => DailyOncePerMinute
<1>1. ASSUME IInv, NEW i \in Slots, Fires(i), s_entries[i].type = "daily",
             log[i].ran # Never
      PROVE  Minute(log[i].ran) # Minute(now)
  <2>1. slot = i /\ ShouldFire(s_entries[i]) /\ s_entries[i].id # 0
    BY <1>1 DEF Fires, Fire, ShouldFire
  <2>2. s_entries[i].last_run < MinuteStart(now)
    BY <1>1, <2>1 DEF ShouldFire
  <2>3. SlotOk(Where(i), i, s_entries[i], nvs_entries[i], log[i], call) /\ call.at # i
    BY <1>1, TheSlot DEF IInv, ControlInv, Fires, Fire, Slots
  <2>4. s_entries[i].last_run = log[i].ran
    BY <1>1, <2>1, <2>3 DEF SlotOk
  <2>5. log[i].ran \in Nat /\ now \in Nat
    <3>1. log[i] \in LogEntry
      BY <2>3 DEF SlotOk
    <3>2. log[i].ran \in Times
      BY <1>1, <3>1 DEF LogEntry
    <3> QED
      BY <1>1, <3>2, CronAssumption DEF Times, IInv, ControlInv
  <2> QED
    BY <2>2, <2>4, <2>5, EarlierMinute
<1>2. IInv /\ [Next]_vars
      => [\A i \in Slots :
            Fires(i) /\ s_entries[i].type = "daily"
              => log[i].ran = Never \/ Minute(log[i].ran) # Minute(now)]_vars
  BY <1>1
<1> QED
  BY <1>2, Inductive, PTL DEF Spec, DailyOncePerMinute

-----------------------------------------------------------------------------
(* What DueRuns rests on: each check ends, and none passes a due schedule over *)

\* The steps that start-up or a check may still take: a slot is passed in one
\* step and costs another when it fires, or is cleared.
StepsLeft ==
    CASE pc = "boot"  -> 2 * MaxEntries + 3
      [] pc = "load"  -> 2 * (MaxEntries - slot) + 4
      [] pc = "clear" -> 2 * (MaxEntries - slot) + 3
      [] pc = "zone"  -> 2
      [] pc = "ntp"   -> 1
      [] pc = "sleep" -> 0
      [] pc = "lock"  -> 2 * MaxEntries + 2
      [] pc = "scan"  -> 2 * (MaxEntries - slot + 1) + Len(s_pending_fires) + 1
      [] pc = "send"  -> Len(s_pending_fires) + 1

\* Until it sleeps, each step of the cron task takes one of the steps left, and
\* only a restart gives any back: tool calls, SNTP and a full queue do not.
EveryStepCounts ==
    [][/\ StepsLeft \in 0..(2 * MaxEntries + 4)
       /\ pc # "sleep" /\ (StartUp \/ Check) => StepsLeft' < StepsLeft
       /\ pc # "sleep" => Restart \/ StepsLeft' <= StepsLeft]_vars

\* A periodic schedule that check_entries, with the time it read, is to fire.
Overdue(e) == e.id # 0 /\ e.type = "periodic" /\ now - e.last_run >= e.when

\* When a scan ends, no periodic schedule is due by the time it read: each that
\* was due has fired, also where storing its last_run failed.
ScanLeavesNoneDue ==
    [][pc = "scan" /\ pc' = "send" => \A i \in Slots : ~Overdue(s_entries[i])']_vars

\* The same of the slots that a scan has passed; and what cron_set checked and
\* load_entries brings back: an interval is not zero.
PassedNoneDue == pc = "scan" => \A i \in 1..(slot - 1) : ~Overdue(s_entries[i])

HasInterval(e) == e.id # 0 /\ e.type = "periodic" => e.when >= 1

Intervals == /\ \A i \in Slots : HasInterval(s_entries[i]) /\ HasInterval(nvs_entries[i])
             /\ HasInterval(call.old)

\* A step that puts an entry with an interval into one slot, in RAM, in flash or
\* in both, leaves every entry with one.
LEMMA OneInterval ==
    ASSUME IInv, Intervals, NEW i \in Slots, NEW e, HasInterval(e),
           s_entries' \in {s_entries, [s_entries EXCEPT ![i] = e]},
           nvs_entries' \in {nvs_entries, [nvs_entries EXCEPT ![i] = e]},
           HasInterval(call.old)'
    PROVE  Intervals'
<1>1. s_entries \in [Slots -> Entry \cup {Empty}] /\ nvs_entries \in [Slots -> Entry \cup {Empty}]
  BY DEF IInv, TableInv
<1>2. ASSUME NEW j \in Slots
      PROVE  HasInterval(s_entries'[j]) /\ HasInterval(nvs_entries'[j])
  <2>1. s_entries'[j] \in {s_entries[j], e} /\ nvs_entries'[j] \in {nvs_entries[j], e}
    BY <1>1
  <2>2. HasInterval(s_entries[j]) /\ HasInterval(nvs_entries[j])
    BY DEF Intervals
  <2> QED
    BY <2>1, <2>2
<1> QED
  BY <1>2 DEF Intervals, HasInterval

\* A schedule that has just fired is not due, and has the interval it had.
LEMMA AfterRunNotDue ==
    ASSUME NEW e \in Entry, HasInterval(e), now \in Nat
    PROVE  HasInterval(AfterRun(e)) /\ ~Overdue(AfterRun(e))
<1>1. CASE e.type = "once"
  BY <1>1 DEF AfterRun, Empty, HasInterval, Overdue
<1>2. CASE e.type # "once"
  <2> DEFINE f == [e EXCEPT !.last_run = now]
  <2>1. AfterRun(e) = f
    BY <1>2 DEF AfterRun
  <2>2. f.id = e.id /\ f.type = e.type /\ f.when = e.when /\ f.last_run = now /\ e.when \in Nat
    BY DEF Entry
  <2>3. HasInterval(f)
    BY <2>2 DEF HasInterval
  <2>4. ~Overdue(f)
    BY <2>2 DEF Overdue, HasInterval
  <2> QED
    BY <2>1, <2>3, <2>4
<1> QED
  BY <1>1, <1>2

\* The entry a firing finds, and what it leaves of it.
LEMMA Fired ==
    ASSUME IInv, Intervals, Fire
    PROVE  /\ slot \in Slots /\ s_entries[slot] \in Entry
           /\ HasInterval(s_entries[slot]) /\ HasInterval(AfterRun(s_entries[slot]))
           /\ ~Overdue(AfterRun(s_entries[slot]))
<1>1. slot \in Slots /\ now \in Nat
  BY CronAssumption DEF IInv, ControlInv, Times
<1>2. s_entries[slot] \in Entry \cup {Empty} /\ HasInterval(s_entries[slot])
  BY <1>1 DEF IInv, TableInv, Intervals
<1>3. s_entries[slot] \in Entry
  BY <1>2 DEF Fire, ShouldFire, Empty
<1> QED
  BY <1>1, <1>2, <1>3, AfterRunNotDue

\* No way into the table makes an entry without an interval: cron_set has checked
\* it, loading finds what was stored, a firing keeps it.
LEMMA IntervalsKept == IInv /\ Intervals /\ [Next]_vars => Intervals'
<1> SUFFICES ASSUME IInv, Intervals, [Next]_vars
             PROVE  Intervals'
  OBVIOUS
<1>1. HasInterval(Empty)
  BY DEF HasInterval, Empty
<1>2. CASE CreateMutex \/ Restart
  <2>0. NoCall.old = Empty
    BY DEF NoCall
  <2>1. UNCHANGED nvs_entries /\ s_entries' = [i \in Slots |-> Empty]
        /\ (call' = call \/ call'.old = Empty)
    BY <1>2, <2>0 DEF CreateMutex, Restart
  <2>2. HasInterval(call'.old)
    BY <1>1, <2>1 DEF Intervals
  <2>3. ASSUME NEW i \in Slots
        PROVE  HasInterval(s_entries'[i]) /\ HasInterval(nvs_entries'[i])
    BY <1>1, <2>1 DEF Intervals
  <2> QED
    BY <2>2, <2>3 DEF Intervals, HasInterval
<1>3. CASE LoadEntry
  <2>1. slot \in Slots
    BY DEF IInv, ControlInv
  <2>2. HasInterval(nvs_entries[slot])
    BY <2>1 DEF Intervals
  <2>3. HasInterval(call.old)' /\ nvs_entries' = nvs_entries
    BY <1>3 DEF LoadEntry, LoadNext, Intervals, HasInterval
  <2> QED
    BY <1>3, <2>1, <2>2, <2>3, OneInterval DEF LoadEntry, InRam
<1>9. CASE ClearSlot
  <2>1. slot \in Slots
    BY DEF IInv, ControlInv
  <2>2. HasInterval(call.old)' /\ nvs_entries' = nvs_entries
    BY <1>9 DEF ClearSlot, LoadNext, Intervals, HasInterval
  <2> QED
    BY <1>1, <1>9, <2>1, <2>2, OneInterval DEF ClearSlot, InRam
<1>4. CASE \E s \in Schedules : cron_set(s)
  <2>1. PICK s \in Schedules : cron_set(s)
    BY <1>4
  <2>2. PICK i \in Slots, id \in 1..MaxId :
          /\ s_entries' = [s_entries EXCEPT ![i] = NewEntry(s, id)]
          /\ call' = [at |-> i, old |-> Empty, new |-> NewEntry(s, id)]
    BY <2>1 DEF cron_set, InRam
  <2>3. s.type # "daily" => s.when \in 1..MaxInterval
    BY <2>1 DEF cron_set, Valid
  <2>4. HasInterval(NewEntry(s, id))
    BY <2>3, CronAssumption DEF HasInterval, NewEntry
  <2>5. HasInterval(call.old)'
    BY <1>1, <2>2 DEF HasInterval
  <2>6. nvs_entries' = nvs_entries
    BY <2>1 DEF cron_set, CallBegins
  <2> QED
    BY <2>2, <2>4, <2>5, <2>6, OneInterval
<1>5. CASE \E n \in DeleteRequests : cron_delete(n)
  <2>1. PICK i \in Slots :
          /\ s_entries' = [s_entries EXCEPT ![i] = Empty]
          /\ call' = [at |-> i, old |-> s_entries[i], new |-> Empty]
    BY <1>5 DEF cron_delete, InRam
  <2>2. HasInterval(call.old)'
    BY <2>1 DEF Intervals, HasInterval
  <2>3. nvs_entries' = nvs_entries
    BY <1>5 DEF cron_delete, CallBegins
  <2> QED
    BY <1>1, <2>1, <2>2, <2>3, OneInterval
<1>10. CASE CallReturns
  <2>0. CallEnds
    BY <1>10 DEF CallReturns, CallSaves, CallFails
  <2>1. call.at \in Slots /\ call'.old = Empty
    BY <2>0, CallSlot DEF CallEnds, NoCall
  <2>2. HasInterval(call.old)'
    BY <1>1, <2>1 DEF HasInterval
  <2>3. HasInterval(call.old) /\ HasInterval(s_entries[call.at])
    BY <2>1 DEF Intervals
  <2>4. CASE CallSaves
    BY <2>1, <2>2, <2>3, <2>4, OneInterval DEF CallSaves, Saved
  <2>5. CASE CallFails
    <3> DEFINE i == call.at
               e == s_entries[i]
               mid == [nvs_entries EXCEPT ![i] = e]
    <3>1. s_entries \in [Slots -> Entry \cup {Empty}] /\ nvs_entries \in [Slots -> Entry \cup {Empty}]
      BY DEF IInv, TableInv
    <3>2. s_entries' = [s_entries EXCEPT ![i] = call.old] /\ nvs_entries' \in {nvs_entries, mid}
      BY <2>5 DEF CallFails, NotSaved, InRam
    <3>3. ASSUME NEW j \in Slots
          PROVE  HasInterval(s_entries'[j]) /\ HasInterval(nvs_entries'[j])
      <4>1. s_entries'[j] \in {s_entries[j], call.old} /\ nvs_entries'[j] \in {nvs_entries[j], e}
        BY <3>1, <3>2
      <4>2. HasInterval(s_entries[j]) /\ HasInterval(nvs_entries[j])
        BY DEF Intervals
      <4> QED
        BY <2>3, <4>1, <4>2
    <3> QED
      BY <2>2, <3>3 DEF Intervals, HasInterval
  <2> QED
    BY <1>10, <2>4, <2>5 DEF CallReturns
<1>6. CASE Fire
  <2> DEFINE e == s_entries[slot]
  <2>1. slot \in Slots /\ HasInterval(AfterRun(e)) /\ HasInterval(e)
    BY <1>6, Fired
  <2>2. [s_entries EXCEPT ![slot] = e] = s_entries
    BY <2>1 DEF IInv, TableInv
  <2>3. /\ s_entries' \in {s_entries, [s_entries EXCEPT ![slot] = AfterRun(e)]}
        /\ nvs_entries' \in {nvs_entries, [nvs_entries EXCEPT ![slot] = AfterRun(e)]}
    BY <1>6, <2>2 DEF Fire, InRam, Saved, NotSaved
  <2>4. HasInterval(call.old)'
    BY <1>6 DEF Fire, NextSlot, Intervals, HasInterval
  <2> QED
    BY <2>1, <2>3, <2>4, OneInterval
<1>7. CASE OtherStep \/ NothingStored \/ EntryNotFound \/ UNCHANGED vars
  <2>1. UNCHANGED <<s_entries, nvs_entries, call>>
    BY <1>7 DEF OtherStep, LoadTimezone, StartTask, ReadClock, Lock, LockTimeout, vars,
       PassOver, NextSlot, Send, Sleep, ScanEnds, cron_set_timezone, Tick, TimeSync,
       AgentTakes, NothingStored, EntryNotFound, table
  <2> QED
    BY <2>1 DEF Intervals, HasInterval
<1> QED
  BY <1>2, <1>3, <1>4, <1>5, <1>6, <1>7, <1>9, <1>10
  DEF Next, StartUp, Check, ToolCall, OtherStep

\* A step of the scan leaves its slot not due and touches no other slot.
LEMMA ScanStep ==
    ASSUME IInv, Intervals, PassOver \/ Fire
    PROVE  /\ slot \in Slots /\ now' = now /\ ~Overdue(s_entries'[slot])
           /\ \A j \in Slots \ {slot} : s_entries'[j] = s_entries[j]
<1>1. slot \in Slots /\ now' = now
  BY DEF IInv, ControlInv, PassOver, Fire, NextSlot
<1>2. CASE PassOver
  <2>1. ~Overdue(s_entries[slot])
    BY <1>2 DEF PassOver, ShouldFire, Overdue
  <2> QED
    BY <1>1, <1>2, <2>1 DEF PassOver, table
<1>3. CASE Fire
  <2> DEFINE e == s_entries[slot]
  <2>1. e \in Entry /\ ~Overdue(AfterRun(e))
    BY <1>3, Fired
  <2>2. s_entries \in [Slots -> Entry \cup {Empty}]
    BY DEF IInv, TableInv
  <2>3. \/ s_entries' = [s_entries EXCEPT ![slot] = AfterRun(e)]
        \/ e.type = "once" /\ s_entries' = [s_entries EXCEPT ![slot] = e]
    BY <1>3 DEF Fire, InRam
  <2>4. e.type = "once" => ~Overdue(e)
    BY DEF Overdue
  <2> QED
    BY <1>1, <2>1, <2>2, <2>3, <2>4
<1> QED
  BY <1>2, <1>3

\* The slots behind a scan have no due schedule: nobody else writes the table
\* while it holds the mutex.
LEMMA PassedKept == IInv /\ Intervals /\ PassedNoneDue /\ [Next]_vars => PassedNoneDue'
<1> SUFFICES ASSUME IInv, Intervals, PassedNoneDue, [Next]_vars, pc' = "scan",
                    NEW i \in (1..(slot - 1))'
             PROVE  ~Overdue(s_entries[i])'
  BY DEF PassedNoneDue
<1>0. slot \in 1..MaxEntries /\ MaxEntries \in Nat
  BY CronAssumption DEF IInv, ControlInv, Slots
<1>1. CASE PassOver \/ Fire
  <2>1. pc = "scan" /\ slot' = slot + 1
    BY <1>1 DEF PassOver, Fire, NextSlot
  <2>2. i \in Slots /\ (i = slot \/ i \in 1..(slot - 1))
    BY <1>0, <2>1 DEF Slots
  <2>3. ~Overdue(s_entries'[i]) /\ now' = now
    <3>1. CASE i = slot
      BY <1>1, <3>1, ScanStep
    <3>2. CASE i # slot
      BY <1>1, <2>1, <2>2, <3>2, ScanStep DEF PassedNoneDue
    <3> QED
      BY <3>1, <3>2
  <2> QED
    BY <2>3 DEF Overdue
<1>2. CASE Lock
  BY <1>2 DEF Lock
<1>3. CASE \/ Tick \/ TimeSync \/ AgentTakes \/ UNCHANGED vars
           \/ \E z \in Timezones : cron_set_timezone(z)
  <2>1. UNCHANGED <<s_entries, pc, slot, now>>
    BY <1>3 DEF Tick, TimeSync, AgentTakes, cron_set_timezone, vars, table, check
  <2> QED
    BY <2>1 DEF PassedNoneDue, Overdue
<1>4. CASE StartUp \/ ReadClock \/ LockTimeout \/ Send \/ Sleep \/ Restart
  BY <1>4 DEF StartUp, CreateMutex, NothingStored, LoadEntry, EntryNotFound, ClearSlot,
     LoadNext, LoadTimezone, StartTask, ReadClock, LockTimeout, Send, Sleep, ScanEnds, Restart
<1>5. CASE \/ \E s \in Schedules : cron_set(s)
           \/ \E n \in DeleteRequests : cron_delete(n)
           \/ CallReturns
  BY <1>5 DEF cron_set, cron_delete, CallBegins, CallReturns, CallSaves, CallFails, CallEnds,
     IInv, ControlInv
<1> QED
  BY <1>1, <1>2, <1>3, <1>4, <1>5 DEF Next, Check, ToolCall

\* Both hold in every reachable state.
LEMMA ScanInductive == Spec => [](Intervals /\ PassedNoneDue)
<1>1. Init => Intervals /\ PassedNoneDue
  <2>1. HasInterval(Empty) /\ NoCall.old = Empty
    BY DEF HasInterval, Empty, NoCall
  <2> QED
    BY <2>1 DEF Init, Intervals, PassedNoneDue
<1> QED
  BY <1>1, IntervalsKept, PassedKept, Inductive, PTL DEF Spec

\* Whatever tool calls, failed writes and a clock set by SNTP come between, a
\* scan fires every periodic schedule that is due by the time it read: for any
\* number of slots, intervals and restarts (check_entries).
THEOREM NoneLeftDue == Spec => ScanLeavesNoneDue
<1>1. ASSUME IInv, Intervals, PassedNoneDue, [Next]_vars, pc = "scan", pc' = "send",
             NEW i \in Slots
      PROVE  ~Overdue(s_entries[i])'
  <2>0. slot \in 1..MaxEntries /\ MaxEntries \in Nat
    BY <1>1, CronAssumption DEF IInv, ControlInv, Slots
  <2>1. PassOver \/ Fire
    <3>1. CASE StartUp \/ Restart \/ ReadClock \/ Lock \/ LockTimeout \/ Send \/ Sleep
      BY <1>1, <3>1 DEF StartUp, CreateMutex, NothingStored, LoadEntry, EntryNotFound,
         ClearSlot, LoadNext, LoadTimezone, StartTask, ReadClock, Lock, LockTimeout, Send,
         Sleep, ScanEnds, Restart
    <3>2. CASE ToolCall \/ CallReturns
      BY <1>1, <3>2 DEF ToolCall, cron_set, cron_delete, CallBegins, cron_set_timezone,
         CallReturns, CallSaves, CallFails, CallEnds
    <3>3. CASE Tick \/ TimeSync \/ AgentTakes \/ UNCHANGED vars
      BY <1>1, <3>3 DEF Tick, TimeSync, AgentTakes, vars
    <3> QED
      BY <1>1, <3>1, <3>2, <3>3 DEF Next, Check
  <2>2. slot = MaxEntries
    BY <1>1, <2>0, <2>1 DEF PassOver, Fire, NextSlot
  <2>3. i = slot \/ i \in 1..(slot - 1)
    BY <2>0, <2>2 DEF Slots
  <2>4. ~Overdue(s_entries'[i]) /\ now' = now
    <3>1. CASE i = slot
      BY <1>1, <2>1, <3>1, ScanStep
    <3>2. CASE i # slot
      BY <1>1, <2>1, <2>3, <3>2, ScanStep DEF PassedNoneDue
    <3> QED
      BY <3>1, <3>2
  <2> QED
    BY <2>4 DEF Overdue
<1>2. IInv /\ Intervals /\ PassedNoneDue /\ [Next]_vars =>
        (pc = "scan" /\ pc' = "send" => \A i \in Slots : ~Overdue(s_entries[i])')
  BY <1>1
<1> QED
  BY <1>2, Inductive, ScanInductive, PTL DEF Spec, ScanLeavesNoneDue

\* The steps left are a number within the range of EveryStepCounts.
LEMMA StepsLeftRange == ASSUME IInv PROVE StepsLeft \in 0..(2 * MaxEntries + 4)
<1>1. /\ slot \in 1..MaxEntries /\ MaxEntries \in Nat
      /\ Len(s_pending_fires) \in Nat /\ Len(s_pending_fires) <= MaxEntries
      /\ pc = "scan" => Len(s_pending_fires) < slot
  BY CronAssumption DEF IInv, ControlInv, Slots
<1>2. pc \in {"boot", "load", "clear", "zone", "ntp", "sleep", "lock", "scan", "send"}
  BY DEF IInv, ControlInv
<1>3. CASE pc \in {"boot", "load", "clear", "zone", "ntp"}
  <2>1. StepsLeft \in {2 * MaxEntries + 3, 2 * (MaxEntries - slot) + 4,
                       2 * (MaxEntries - slot) + 3, 2, 1}
    BY <1>3 DEF StepsLeft
  <2> QED
    BY <1>1, <2>1
<1>4. CASE pc \in {"sleep", "lock", "send"}
  <2>1. StepsLeft \in {0, 2 * MaxEntries + 2, Len(s_pending_fires) + 1}
    BY <1>4 DEF StepsLeft
  <2> QED
    BY <1>1, <2>1
<1>5. CASE pc = "scan"
  <2>1. StepsLeft = 2 * (MaxEntries - slot + 1) + Len(s_pending_fires) + 1
    BY <1>5 DEF StepsLeft
  <2> QED
    BY <1>1, <1>5, <2>1
<1> QED
  BY <1>2, <1>3, <1>4, <1>5

\* The steps of start-up and of the check.
LEMMA CheckCounts ==
    ASSUME IInv, pc # "sleep", StartUp \/ Check
    PROVE  StepsLeft' < StepsLeft
<1>1. /\ slot \in 1..MaxEntries /\ MaxEntries \in Nat
      /\ s_pending_fires \in Seq(Slots) /\ Len(s_pending_fires) \in Nat
  BY CronAssumption DEF IInv, ControlInv, Slots
<1>2. CASE StartUp
  <2>1. \/ pc = "boot" /\ pc' = "load" /\ slot' = 1
        \/ pc \in {"load", "clear"} /\ pc' = "load" /\ slot' = slot + 1
        \/ pc \in {"load", "clear"} /\ pc' = "zone"
        \/ pc = "load" /\ pc' = "clear" /\ slot' = slot
        \/ pc = "zone" /\ pc' = "ntp"
        \/ pc = "ntp" /\ pc' = "sleep"
    BY <1>2 DEF StartUp, CreateMutex, NothingStored, LoadEntry, EntryNotFound, ClearSlot,
       LoadNext, LoadTimezone, StartTask
  <2> QED
    BY <1>1, <2>1 DEF StepsLeft
<1>3. CASE Lock
  <2>1. /\ pc = "lock" /\ pc' = "scan" /\ slot' = 1 /\ Len(s_pending_fires') = 0
    BY <1>3 DEF Lock
  <2>2. StepsLeft = 2 * MaxEntries + 2
    BY <2>1 DEF StepsLeft
  <2>3. StepsLeft' = 2 * (MaxEntries - 1 + 1) + 0 + 1
    BY <2>1 DEF StepsLeft
  <2> QED
    BY <1>1, <2>2, <2>3
<1>4. CASE PassOver \/ Fire
  <2>1. /\ pc = "scan" /\ NextSlot
        /\ s_pending_fires' \in {s_pending_fires, Append(s_pending_fires, slot)}
    BY <1>4 DEF PassOver, Fire
  <2>2. Len(s_pending_fires') \in Nat /\ Len(s_pending_fires') <= Len(s_pending_fires) + 1
    BY <1>1, <2>1 DEF Slots
  <2>3. \/ pc' = "scan" /\ slot' = slot + 1
        \/ pc' = "send"
    BY <2>1 DEF NextSlot
  <2>4. StepsLeft = 2 * (MaxEntries - slot + 1) + Len(s_pending_fires) + 1
    BY <2>1 DEF StepsLeft
  <2>5. CASE pc' = "scan" /\ slot' = slot + 1
    <3>1. StepsLeft' = 2 * (MaxEntries - (slot + 1) + 1) + Len(s_pending_fires') + 1
      BY <2>5 DEF StepsLeft
    <3> QED
      BY <1>1, <2>2, <2>4, <3>1
  <2>6. CASE pc' = "send"
    <3>1. StepsLeft' = Len(s_pending_fires') + 1
      BY <2>6 DEF StepsLeft
    <3> QED
      BY <1>1, <2>2, <2>4, <3>1
  <2> QED
    BY <2>3, <2>5, <2>6
<1>5. CASE Send
  <2>1. /\ pc = "send" /\ pc' = "send"
        /\ Len(s_pending_fires') = Len(s_pending_fires) - 1
    BY <1>1, <1>5 DEF Send
  <2> QED
    BY <1>1, <2>1 DEF StepsLeft
<1>6. CASE Sleep
  <2>1. pc = "send" /\ pc' = "sleep"
    BY <1>6 DEF Sleep, ScanEnds
  <2> QED
    BY <1>1, <2>1 DEF StepsLeft
<1> QED
  BY <1>2, <1>3, <1>4, <1>5, <1>6 DEF Check, ReadClock

\* Start-up and each check of the table end within 2 * MaxEntries + 4 steps of the
\* cron task, however full the agent's queue is (check_entries, cron_task).
THEOREM ChecksAreBounded == Spec => EveryStepCounts
<1>1. IInv /\ [Next]_vars =>
        /\ StepsLeft \in 0..(2 * MaxEntries + 4)
        /\ pc # "sleep" /\ (StartUp \/ Check) => StepsLeft' < StepsLeft
        /\ pc # "sleep" => Restart \/ StepsLeft' <= StepsLeft
  <2> SUFFICES ASSUME IInv, [Next]_vars
               PROVE  /\ StepsLeft \in 0..(2 * MaxEntries + 4)
                      /\ pc # "sleep" /\ (StartUp \/ Check) => StepsLeft' < StepsLeft
                      /\ pc # "sleep" => Restart \/ StepsLeft' <= StepsLeft
    OBVIOUS
  <2>1. StepsLeft \in 0..(2 * MaxEntries + 4) /\ MaxEntries \in Nat
    BY StepsLeftRange, CronAssumption
  <2>2. StepsLeft' \in Nat
    <3>1. IInv'
      BY StepIInv
    <3>2. /\ slot' \in 1..MaxEntries /\ Len(s_pending_fires') \in Nat
          /\ pc' \in {"boot", "load", "clear", "zone", "ntp", "sleep", "lock", "scan", "send"}
      BY <3>1 DEF IInv, ControlInv, Slots
    <3>3. CASE pc' \in {"boot", "load", "clear", "zone", "ntp"}
      <4>1. StepsLeft' \in {2 * MaxEntries + 3, 2 * (MaxEntries - slot') + 4,
                            2 * (MaxEntries - slot') + 3, 2, 1}
        BY <3>3 DEF StepsLeft
      <4>2. ASSUME NEW M \in Nat, NEW i \in 1..M
            PROVE  {2 * M + 3, 2 * (M - i) + 4, 2 * (M - i) + 3, 2, 1} \subseteq Nat
        OBVIOUS
      <4> QED
        BY <2>1, <3>2, <4>1, <4>2
    <3>4. CASE pc' \in {"sleep", "lock", "scan", "send"}
      <4>1. StepsLeft' \in {0, 2 * MaxEntries + 2, Len(s_pending_fires') + 1,
                            2 * (MaxEntries - slot' + 1) + Len(s_pending_fires') + 1}
        BY <3>4 DEF StepsLeft
      <4>2. ASSUME NEW M \in Nat, NEW i \in 1..M, NEW n \in Nat
            PROVE  {0, 2 * M + 2, n + 1, 2 * (M - i + 1) + n + 1} \subseteq Nat
        OBVIOUS
      <4> QED
        BY <2>1, <3>2, <4>1, <4>2
    <3> QED
      BY <3>2, <3>3, <3>4
  <2>3. ASSUME pc # "sleep", StartUp \/ Check
        PROVE  StepsLeft' < StepsLeft
    BY <2>3, CheckCounts
  <2>4. CASE ToolCall \/ CallReturns \/ Tick \/ TimeSync \/ AgentTakes \/ UNCHANGED vars
    <3>1. UNCHANGED <<pc, slot, s_pending_fires>>
      BY <2>4 DEF ToolCall, cron_set, cron_delete, CallBegins, cron_set_timezone, CallReturns,
         CallSaves, CallFails, CallEnds, Tick, TimeSync, AgentTakes, vars, check
    <3>2. StepsLeft' = StepsLeft
      BY <3>1 DEF StepsLeft
    <3> QED
      BY <2>1, <2>3, <3>2
  <2>5. CASE LockTimeout
    <3>1. StepsLeft' = 0
      BY <2>5 DEF LockTimeout, ScanEnds, StepsLeft
    <3> QED
      BY <2>1, <2>3, <3>1
  <2>6. CASE StartUp \/ Check
    BY <2>1, <2>2, <2>3, <2>6
  <2> QED
    BY <2>1, <2>3, <2>4, <2>5, <2>6 DEF Next
<1> QED
  BY <1>1, Inductive, PTL DEF Spec, EveryStepCounts

=============================================================================
