-------------------------------- MODULE Cron --------------------------------
(***************************************************************************)
(* The scheduler of main/cron.c: the table of schedules in RAM and its copy *)
(* in flash, the cron task that scans it, the tool calls of the agent that  *)
(* change it, the clock that SNTP sets, and restarts.                       *)
(*                                                                          *)
(* Slot i here is index i - 1 of s_entries. Time is counted in ticks;       *)
(* "real" is the true time, "clock" what time() returns, which is the time  *)
(* since power-up until SNTP sets it. The text of an action is left out.    *)
(***************************************************************************)
EXTENDS Integers, Sequences, FiniteSets

CONSTANTS
    MaxEntries,       \* CRON_MAX_ENTRIES
    MaxId,            \* the largest uint8_t
    Schedules,        \* what the agent may ask for, see ScheduleType
    DeleteRequests,   \* the numbers cron_delete may be called with
    Timezones,        \* offsets of local time, in minutes
    DefaultTimezone,  \* DEFAULT_TIMEZONE_POSIX
    MaxInterval,      \* the longest interval or delay, 1440 minutes, in ticks
    TicksPerMinute,
    MinutesPerDay,
    Epoch,            \* the true time at the first power-up
    MaxTime,          \* bound: the true time stops there
    MaxRestarts,      \* bound: restarts
    MaxTorn,          \* bound: entries whose last write failed, at a time
    QueueLength,      \* INPUT_QUEUE_LENGTH
    Never             \* no time

Slots == 1..MaxEntries
Types == {"periodic", "once", "daily"}

\* "when" is the interval or delay in ticks, or the minute of the day.
ScheduleType == [type : Types, when : Nat]

ASSUME CronAssumption ==
    /\ MaxEntries \in Nat \ {0} /\ MaxId \in Nat /\ MaxEntries <= MaxId
    /\ Schedules \subseteq ScheduleType
    /\ DeleteRequests \subseteq Nat
    /\ Timezones \subseteq Nat /\ DefaultTimezone \in Timezones
    /\ MaxInterval \in Nat /\ TicksPerMinute \in Nat \ {0}
    /\ MinutesPerDay \in Nat \ {0}
    /\ Epoch \in Nat /\ MaxTime \in Nat /\ Epoch <= MaxTime
    /\ MaxRestarts \in Nat /\ MaxTorn \in Nat /\ QueueLength \in Nat /\ Never \notin Nat

VARIABLES
    s_entries, nvs_entries,    \* the table in RAM and in flash
    s_timezone, nvs_timezone,
    s_time_synced, clock, real,
    call,                      \* the agent's call that holds the mutex, see Call
    pc,                        \* where start-up, then the cron task, is
    slot,                      \* the slot that load_entries or the scan is at
    now, timeinfo,             \* the time check_entries read, and its local minute
    s_pending_fires,           \* slots of the entries that fired in this scan
    agent_queue,               \* messages waiting in the agent's input queue
    restarts,
    log                        \* of each slot's last entry, see LogEntry

table == <<s_entries, nvs_entries, log>>
zone == <<s_timezone, nvs_timezone>>
time == <<s_time_synced, clock, real>>
check == <<now, timeinfo, s_pending_fires>>
vars == <<table, call, zone, time, pc, slot, check, agent_queue, restarts>>

Times == 0..MaxTime
Empty == [id |-> 0, type |-> "periodic", when |-> 0, last_run |-> 0]
Entry == [id : 1..MaxId, type : Types, when : Nat, last_run : Times]

\* A call that has changed its slot in RAM and is about to save it: "old" is what
\* it puts back should the write fail, "new" what it has put there.
Call == [at : 0..MaxEntries, old : Entry \cup {Empty}, new : Entry \cup {Empty}]
NoCall == [at |-> 0, old |-> Empty, new |-> Empty]

\* History of a slot's entry: the value of "now" when it last fired, and what is
\* known of its copy in flash: the same, not known since a write of it failed, or
\* only there because load_entries emptied the slot after it was created.
LogEntry == [ran : Times \cup {Never}, copy : {"kept", "torn", "cleared"}]
Fresh == [ran |-> Never, copy |-> "kept"]
Torn == [ran |-> Never, copy |-> "torn"]
Cleared == [ran |-> Never, copy |-> "cleared"]

-----------------------------------------------------------------------------
(* Helpers *)

Used(i) == s_entries[i].id # 0
IsLeast(x, S) == x \in S /\ \A y \in S : x <= y

FreeSlots == {i \in Slots : ~Used(i)}
FreeIds == (1..MaxId) \ {s_entries[i].id : i \in Slots}

\* Mutant: the next id follows from the number of entries.
IdFromCount(id) == id = 1 + Cardinality({i \in Slots : Used(i)})

\* cron_next_entry_id returns id.
NextId(id) == IsLeast(id, FreeIds)

Minute(t) == t \div TicksPerMinute

\* Mutant: the seconds are not subtracted.
NoSecondsSubtracted(t) == t

MinuteStart(t) == Minute(t) * TicksPerMinute

\* localtime_r, in the timezone of the moment.
LocalMinute(t) == (Minute(t) + s_timezone) % MinutesPerDay

\* Whether check_entries fires the entry.
ShouldFire(e) ==
    /\ e.id # 0
    /\ CASE e.type = "periodic" -> now - e.last_run >= e.when
         [] e.type = "once"     -> now >= e.last_run /\ now - e.last_run >= e.when
         [] e.type = "daily"    -> /\ s_time_synced
                                   /\ timeinfo = e.when
                                   /\ e.last_run < MinuteStart(now)

\* The outcomes of save_entry: flash takes the entry, or an error is reported
\* and, when it was the commit's, flash may have taken it all the same.
Saved(i, e) == nvs_entries' = [nvs_entries EXCEPT ![i] = e]
NotSaved(i, e) == /\ Cardinality({j \in Slots \ {i} : log[j].copy = "torn"}) < MaxTorn
                  /\ nvs_entries' \in {nvs_entries, [nvs_entries EXCEPT ![i] = e]}

InRam(i, e) == s_entries' = [s_entries EXCEPT ![i] = e]

-----------------------------------------------------------------------------
Init == /\ s_entries = [i \in Slots |-> Empty]
        /\ nvs_entries = [i \in Slots |-> Empty]
        /\ log = [i \in Slots |-> Fresh] /\ call = NoCall
        /\ s_timezone = DefaultTimezone /\ nvs_timezone = DefaultTimezone
        /\ s_time_synced = FALSE /\ clock = 0 /\ real = Epoch
        /\ pc = "boot" /\ slot = 1 /\ now = 0 /\ timeinfo = 0
        /\ s_pending_fires = <<>> /\ agent_queue = 0 /\ restarts = 0

(* The world around the scheduler *)

Tick == /\ real < MaxTime
        /\ real' = real + 1 /\ clock' = clock + 1
        /\ UNCHANGED <<table, call, zone, s_time_synced, pc, slot, check,
                       agent_queue, restarts>>

\* time_sync_notification_cb: SNTP has set the clock. It runs from the start of
\* the SNTP client on, again and again.
TimeSync == /\ pc \notin {"boot", "load", "clear", "zone"}
            /\ s_time_synced' = TRUE /\ clock' = real
            /\ UNCHANGED <<table, call, zone, real, pc, slot, check, agent_queue,
                           restarts>>

\* The agent takes a message from its queue.
AgentTakes == /\ agent_queue > 0
              /\ agent_queue' = agent_queue - 1
              /\ UNCHANGED <<table, call, zone, time, pc, slot, check, restarts>>

\* A restart loses what is in RAM. The clock survives a software restart and
\* starts over after a loss of power.
Restart == /\ restarts < MaxRestarts
           /\ restarts' = restarts + 1
           /\ s_entries' = [i \in Slots |-> Empty] /\ call' = NoCall
           /\ s_timezone' = DefaultTimezone
           /\ s_time_synced' = FALSE /\ clock' \in {clock, 0}
           /\ pc' = "boot" /\ slot' = 1 /\ now' = 0 /\ timeinfo' = 0
           /\ s_pending_fires' = <<>> /\ agent_queue' = 0
           /\ UNCHANGED <<nvs_entries, log, nvs_timezone, real>>

-----------------------------------------------------------------------------
(* cron_init. The agent task runs already, and load_entries takes no lock: a
   call of the agent may come between any two of its steps. *)

CreateMutex == /\ pc = "boot"
               /\ s_entries' = [i \in Slots |-> Empty]
               /\ pc' = "load" /\ slot' = 1
               /\ UNCHANGED <<nvs_entries, log, call, zone, time, check,
                              agent_queue, restarts>>

\* Before the first write the namespace may be missing: nothing is loaded.
NothingStored == /\ pc = "load" /\ slot = 1
                 /\ \A i \in Slots : nvs_entries[i] = Empty
                 /\ pc' = "zone"
                 /\ UNCHANGED <<table, call, zone, time, slot, check, agent_queue,
                                restarts>>

LoadNext == /\ IF slot < MaxEntries
               THEN slot' = slot + 1 /\ pc' = "load"
               ELSE slot' = 1 /\ pc' = "zone"
            /\ UNCHANGED <<nvs_entries, call, zone, time, check, agent_queue,
                           restarts>>

\* nvs_get_blob reads straight into the slot.
LoadEntry == /\ pc = "load" /\ nvs_entries[slot] # Empty
             /\ InRam(slot, nvs_entries[slot])
             /\ log' = [log EXCEPT ![slot].copy = "kept"]
             /\ LoadNext

EntryNotFound == /\ pc = "load" /\ nvs_entries[slot] = Empty
                 /\ pc' = "clear"
                 /\ UNCHANGED <<table, call, zone, time, slot, check, agent_queue,
                                restarts>>

\* Only then is the slot's id set to zero, whatever it is by now.
ClearSlot == /\ pc = "clear"
             /\ InRam(slot, Empty)
             /\ log' = [log EXCEPT ![slot] =
                           IF Used(slot) /\ call.at # slot /\ @.copy = "kept"
                           THEN Cleared ELSE @]
             /\ LoadNext

LoadTimezone == /\ pc = "zone"
                /\ s_timezone' = nvs_timezone
                /\ pc' = "ntp"
                /\ UNCHANGED <<table, call, nvs_timezone, time, slot, check,
                               agent_queue, restarts>>

\* The wait for SNTP ends when it has set the clock, or after ten seconds.
StartTask == /\ pc = "ntp"
             /\ pc' = "sleep"
             /\ UNCHANGED <<table, call, zone, time, slot, check, agent_queue,
                            restarts>>

-----------------------------------------------------------------------------
(* Tool calls of the agent; while the scan holds the mutex they wait or fail *)

CallBegins == /\ pc \notin {"boot", "scan"} /\ call = NoCall
              /\ UNCHANGED <<nvs_entries, log, zone, time, pc, slot, check,
                             agent_queue, restarts>>

NewEntry(s, id) == [id |-> id, type |-> s.type, when |-> s.when,
                    last_run |-> IF s.type = "once" THEN clock ELSE 0]

\* The tool call passes the checks of its arguments.
Valid(s) == s.when \in IF s.type = "daily" THEN 0..(MinutesPerDay - 1) ELSE 1..MaxInterval

\* The first empty slot takes the entry, under the least id not in use.
cron_set(s) ==
    /\ CallBegins /\ Valid(s)
    /\ \E i \in Slots, id \in 1..MaxId :
          /\ IsLeast(i, FreeSlots) /\ NextId(id)
          /\ InRam(i, NewEntry(s, id))
          /\ call' = [at |-> i, old |-> Empty, new |-> NewEntry(s, id)]

\* cron_delete finds slot i for the number n, which is cast to uint8_t. An empty
\* slot has id 0.
Found(n, i) == IsLeast(i, {j \in Slots : s_entries[j].id = n % (MaxId + 1)})

cron_delete(n) ==
    /\ CallBegins
    /\ \E i \in Slots :
          /\ Found(n, i) /\ InRam(i, Empty)
          /\ call' = [at |-> i, old |-> s_entries[i], new |-> Empty]

CallEnds == /\ call.at # 0 /\ call' = NoCall
            /\ UNCHANGED <<zone, time, pc, slot, check, agent_queue, restarts>>

\* Mutant: a slot that is free again is not erased.
EraseLeftOut ==
    /\ CallEnds
    /\ nvs_entries' = IF Used(call.at)
                      THEN [nvs_entries EXCEPT ![call.at] = s_entries[call.at]]
                      ELSE nvs_entries
    /\ log' = [log EXCEPT ![call.at] = Fresh]
    /\ UNCHANGED s_entries

\* save_entry stores the slot as it is by now: load_entries may have changed it.
CallSaves ==
    /\ CallEnds
    /\ Saved(call.at, s_entries[call.at])
    /\ log' = [log EXCEPT ![call.at] = IF s_entries[call.at] = call.new THEN Fresh
                                       ELSE [@ EXCEPT !.copy = "kept"]]
    /\ UNCHANGED s_entries

CallFails ==
    /\ CallEnds
    /\ NotSaved(call.at, s_entries[call.at]) /\ InRam(call.at, call.old)
    /\ log' = [log EXCEPT ![call.at] = Torn]

\* apply_timezone takes effect before it is stored.
cron_set_timezone(z) ==
    /\ call = NoCall
    /\ s_timezone' = z
    /\ nvs_timezone' \in {nvs_timezone, z}
    /\ UNCHANGED <<table, call, time, pc, slot, check, agent_queue, restarts>>

-----------------------------------------------------------------------------
(* The cron task: check_entries *)

ReadClock == /\ pc = "sleep"
             /\ now' = clock /\ timeinfo' = LocalMinute(clock)
             /\ pc' = "lock"
             /\ UNCHANGED <<table, call, zone, time, slot, s_pending_fires,
                            agent_queue, restarts>>

Lock == /\ pc = "lock" /\ call = NoCall
        /\ pc' = "scan" /\ slot' = 1 /\ s_pending_fires' = <<>>
        /\ UNCHANGED <<table, call, zone, time, now, timeinfo, agent_queue, restarts>>

\* check_entries returns, and what it read is gone.
ScanEnds == /\ pc' = "sleep" /\ now' = 0 /\ timeinfo' = 0
            /\ UNCHANGED <<table, call, zone, time, slot, restarts>>

\* The agent held the mutex for a second, in one of these calls or in cron_list.
LockTimeout == /\ pc = "lock"
               /\ ScanEnds
               /\ UNCHANGED <<s_pending_fires, agent_queue>>

\* Mutant: the scan runs one slot too far.
NextSlotPastEnd ==
    /\ IF slot <= MaxEntries
       THEN slot' = slot + 1 /\ UNCHANGED pc
       ELSE slot' = 1 /\ pc' = "send"
    /\ UNCHANGED <<call, zone, time, now, timeinfo, agent_queue, restarts>>

NextSlot == /\ IF slot < MaxEntries
               THEN slot' = slot + 1 /\ UNCHANGED pc
               ELSE slot' = 1 /\ pc' = "send"
            /\ UNCHANGED <<call, zone, time, now, timeinfo, agent_queue, restarts>>

PassOver == /\ pc = "scan"
            /\ ~ShouldFire(s_entries[slot])
            /\ NextSlot
            /\ UNCHANGED <<table, s_pending_fires>>

\* Mutants: a one-shot stays, with a new last_run; last_run stays.
AfterRunKeepsOnce(e) == [e EXCEPT !.last_run = now]
AfterRunKeepsTime(e) == IF e.type = "once" THEN Empty ELSE e

\* The entry that remains after a firing: none, or one with a new last_run.
AfterRun(e) == IF e.type = "once" THEN Empty ELSE [e EXCEPT !.last_run = now]

Fire == /\ pc = "scan"
        /\ ShouldFire(s_entries[slot])
        /\ s_pending_fires' = Append(s_pending_fires, slot)
        /\ LET e == s_entries[slot]
           IN \/ /\ Saved(slot, AfterRun(e)) /\ InRam(slot, AfterRun(e))
                 /\ log' = [log EXCEPT ![slot] = [ran |-> now, copy |-> "kept"]]
              \/ /\ NotSaved(slot, AfterRun(e))
                 /\ InRam(slot, IF e.type = "once" THEN e ELSE AfterRun(e))
                 /\ log' = [log EXCEPT ![slot] = Torn]
        /\ NextSlot

\* A message that finds the queue full is dropped.
Send == /\ pc = "send" /\ s_pending_fires # <<>>
        /\ s_pending_fires' = Tail(s_pending_fires)
        /\ agent_queue' = IF agent_queue < QueueLength THEN agent_queue + 1
                          ELSE agent_queue
        /\ UNCHANGED <<table, call, zone, time, pc, slot, now, timeinfo, restarts>>

Sleep == /\ pc = "send" /\ s_pending_fires = <<>>
         /\ ScanEnds
         /\ UNCHANGED <<s_pending_fires, agent_queue>>

-----------------------------------------------------------------------------
StartUp == \/ CreateMutex \/ NothingStored \/ LoadEntry \/ EntryNotFound \/ ClearSlot
           \/ LoadTimezone \/ StartTask
Check == ReadClock \/ Lock \/ PassOver \/ Fire \/ Send \/ Sleep
ToolCall == \/ \E s \in Schedules : cron_set(s)
            \/ \E n \in DeleteRequests : cron_delete(n)
            \/ \E z \in Timezones : cron_set_timezone(z)
CallReturns == CallSaves \/ CallFails

Next == \/ StartUp \/ Check \/ LockTimeout \/ ToolCall \/ CallReturns
        \/ Tick \/ TimeSync \/ AgentTakes \/ Restart

Spec == Init /\ [][Next]_vars

\* Start-up and the cron task run. The agent does not hold the mutex for a whole
\* second at every check: a call that a check waits for returns in time, and the
\* check is not always too late.
FairSpec == Spec /\ WF_vars(StartUp) /\ WF_vars(Check)
                 /\ SF_vars(pc = "lock" /\ CallReturns) /\ SF_vars(Lock)

-----------------------------------------------------------------------------
(* Properties *)

\* Every variable stays in its range.
TypeOK ==
    /\ s_entries \in [Slots -> Entry \cup {Empty}]
    /\ nvs_entries \in [Slots -> Entry \cup {Empty}]
    /\ log \in [Slots -> LogEntry]
    /\ call \in Call /\ (call.at # 0 => pc \notin {"boot", "scan"})
    /\ s_timezone \in Timezones /\ nvs_timezone \in Timezones
    /\ s_time_synced \in BOOLEAN /\ real \in Times /\ clock \in 0..real
    /\ pc \in {"boot", "load", "clear", "zone", "ntp", "sleep", "lock", "scan", "send"}
    /\ slot \in Slots /\ now \in 0..real
    /\ timeinfo \in 0..(MinutesPerDay - 1)
    /\ s_pending_fires \in Seq(Slots) /\ Len(s_pending_fires) <= MaxEntries
    /\ agent_queue \in 0..QueueLength /\ restarts \in 0..MaxRestarts

\* Two schedules never have the same id, in RAM or in flash, whatever was
\* created, deleted, fired, lost in a failed write, or created while
\* load_entries was still filling the table: an id the user reads from cron_list
\* names one schedule.
UniqueIds ==
    \A e \in {s_entries, nvs_entries} : \A i, j \in Slots :
        e[i].id # 0 /\ e[i].id = e[j].id => i = j

Loaded(i) == pc # "boot" /\ (pc \in {"load", "clear"} => i < slot)

\* load_entries is past the slot, and no call is between changing and saving it.
Settled(i) == Loaded(i) /\ call.at # i

\* A schedule in RAM is in flash and the other way round, also between the steps
\* of a scan, but for two cases: the last write of it was reported as failed, or
\* it was created between the two steps in which load_entries finds its slot empty
\* and clears it. Such a one is stored and does not run before the next restart.
RamMatchesFlash ==
    \A i \in Slots : Settled(i) /\ log[i].copy # "torn" =>
        s_entries[i] = IF log[i].copy = "cleared" THEN Empty ELSE nvs_entries[i]

\* A one-shot that has fired is in neither copy of the table, so no restart runs
\* it again, unless erasing it failed. (A slot that a call is about to save may
\* hold a new one.)
FiredOnceIsGone ==
    \A i \in Slots : log[i].ran # Never =>
        /\ Used(i) /\ call.at # i => s_entries[i].type # "once"
        /\ nvs_entries[i].id # 0 => nvs_entries[i].type # "once"

Fires(i) == Fire /\ slot = i

\* A daily schedule fires at most once in a minute although it is checked every
\* ten seconds, and across restarts, clock changes and changes of timezone,
\* unless storing last_run failed.
DailyOncePerMinute ==
    [][\A i \in Slots :
         Fires(i) /\ s_entries[i].type = "daily"
           => log[i].ran = Never \/ Minute(log[i].ran) # Minute(now)]_vars

PeriodicDue(i) == /\ Used(i) /\ s_entries[i].type = "periodic"
                  /\ clock - s_entries[i].last_run >= s_entries[i].when

\* A periodic schedule that is due by the clock runs, and is not due again at
\* once, whatever else is scheduled and however full the agent's queue is.
DueRuns == \A i \in Slots : PeriodicDue(i) ~> ~PeriodicDue(i)

=============================================================================
