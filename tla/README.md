# zclaw in TLA+

zclaw is an AI assistant for ESP32 boards. A FreeRTOS task, the agent, takes
messages from the serial console, from Telegram and from a scheduler, talks to
an LLM over HTTPS, and runs the tools that the LLM calls. Schedules, tools that
users define, settings and credentials live in the NVS partition of the flash.

This directory models the concurrent and the persistent parts of the firmware
in `src/main`, checks them with TLC on small instances, and proves the most
important facts with TLAPS for instances of every size.

    tlc -config MCAgentHistory.cfg MCAgent     # one of the runs below
    tlapm AgentProofs.tla                      # the proofs about one module

## 1. The system

### Components, their state and their operations

| Component | Code | State | Operations | Module |
|---|---|---|---|---|
| Agent loop | `agent.c`, `agent_commands.c`, `json_util.c` | history (RAM), pause flag, the last answered text and its time, queues | process a message: command, or a turn of LLM requests and tool calls | `Agent` |
| Persona | `tools_persona.c` | persona (RAM and flash) | set, load at start | `Agent` |
| Scheduler | `cron.c`, `cron_utils.c`, `tools_cron.c` | table of 16 schedules (RAM and flash), timezone, clock, mutex | load, check every 10 s, fire, create, delete, set timezone, SNTP callback | `Cron` |
| Telegram channel | `telegram.c`, `telegram_*.c` | last update id, stale streak, pause count | poll, flush, resynchronise, deliver, send | `Telegram`, `Mailbox` |
| HTTP gate | `http_gate.c` | one binary semaphore | acquire with a timeout, release | `Telegram`, `LlmRequests` |
| User tools | `user_tools.c` | table of 8 tools (RAM and flash) | create, delete, save key by key, load | `UserTools`, `ToolTable` |
| Start-up and safe mode | `main.c`, `boot_guard.c` | boot counter (flash), safe mode, the task that confirms a boot | `app_main`, factory reset, confirmation | `Boot` |
| WiFi, local admin | `local_admin.c`, `wifi_credentials.c` | event bits, retry count, connecting flag | connect, event handler, `/reboot`, `/factory-reset` | `Boot` |
| NVS | `memory.c` | the partition | read, write, erase | in each of its users |
| Rate limiter | `ratelimit.c` | counts per hour (RAM) and day (RAM and flash), the windows they belong to | load, check, record | `RateLimit`; a free verdict in `Agent` |
| Serial channel, LLM bridge | `channel.c`, `qemu_live_llm_bridge.py` | line buffer, held bytes, answer buffer, queues | read, edit, write, exchange a request with a host | `Serial`; the queues in `Agent` |
| LLM client | `llm.c`, `llm_auth.c`, `json_util.c` | backend, key | one request, its retries | `LlmRequests`; its outcomes in `Agent` |
| GPIO mappings, GPIO tools | `gpio_mapping.c`, `tools_gpio.c`, `gpio_policy.c` | a key per device and a list (flash), the pins | save, delete, write, read, delay | `GpioMapping`, `Mappings`; pin policy and delay in `Board` |
| I2C, DHT tools | `tools_i2c.c`, `tools_dht.c` | time of the last read of each pin, the I2C driver | capture, scan, transfer | `Board` |
| Memory and system tools | `tools_memory.c`, `tools_system.c`, `security.c`, `text_buffer.c` | – | single calls | `memory_set`, `memory_delete` in `GpioMapping` |
| OTA state | `ota.c` | image state | mark valid | not modelled |
| Web relay | `scripts/web_relay.py` | one serial port | exchange a message | not modelled |
| Install and flash scripts | `install.sh`, `scripts/*.sh` | – | – | only the effect of provisioning, in `Boot` |

### How they interact

    serial console --> channel_read --+                +--> channel_write --> serial
    Telegram poll task ---------------+--> input queue --> AGENT --> Telegram send task
    cron task (check_entries) --------+        |   ^            \--> Telegram
                                               |   |
                          tool calls (cron_*,  |   |  LLM request
                          user tools, persona) v   v
                                    NVS flash       http_gate <-- polls, flushes, sends

* **Queues.** Producers queue messages for the agent; console and Telegram give
  up after a short wait, so a message may be lost to a full queue. Each answer
  goes to both output queues and may be lost there.
* **Shared memory.** The agent's tools call into the scheduler, which guards its table
  with a mutex, which `load_entries` does not take while it fills it. The poll pause is a
  counter that the agent raises and the poll task reads.
* **The gate.** Every HTTPS request holds one semaphore, as the heap has room for
  one TLS session.
* **Callbacks.** SNTP sets the clock and a flag; WiFi events run in the event task.
* **Flash** is what survives. A restart can come between any two writes.

### What is hard, and what makes each part correct

* *Agent:* a dozen ways out of a turn, each of which must resume polling, undo
  the history and answer once; a bounded history that must stay a legal request
  after old entries were dropped and failed turns cut off; redelivered messages.
* *Scheduler:* tool calls during loading and between the steps of a scan,
  writes that fail after they changed flash, restarts between a firing and its
  record, three clocks (true time, time since power-up, local time). No schedule
  may be lost, run again, or share its id with another, and due ones must run.
* *Telegram:* the server forgets what a poll acknowledges; it may return stale
  updates; polls race with the beginning of a turn; restarts lose the offset.
  Nothing may be read twice, lost silently, or block what is behind it.
* *User tools:* one save is up to ten writes. What a restart finds between two of
  them must be a table that was there.
* *GPIO mappings:* the key of a device and the list of devices are two writes. No
  mapping may get lost, and no two devices share a pin, whatever was torn.
* *Rate limiter:* three keys in flash for one count, a clock that starts in 1970
  with each restart. The daily limit must be exact over restarts all the same.
* *LLM requests:* seven ways out of one attempt, each of which must give the gate
  back; timeouts within a loop that has a budget of its own.
* *Serial line:* typing, output and answers of the bridge share it byte by byte. A
  line must arrive as it was typed, unless an answer cuts it in two, and an answer at
  the request it belongs to.
* *DHT and I2C:* edges of microseconds seen by code that may be late; a driver that
  every way out of a tool must delete.
* *Start-up:* a counter in flash must stop boot loops of every cause, must not
  stop a healthy board, and every start-up must come to an end.

`PROJECT.json` lists these hazards at their lines, with the properties for each.

## 2. Modules

Names of actions and variables are those of the code where there is a function
or variable to name; `PROJECT.json` maps each definition to its lines. Every
module has a `TypeOK`, and each constant that is a bound of the model rather than
of the program is marked "bound" where it is declared. The definitions marked
*Mutant* are plausible bugs: each property is violated when the definition named
in `PROJECT.json` is replaced by one of them.

### Agent

One FreeRTOS task, so `pc` runs through `process_message`: `Take` (dequeue), one
of the routes (`Resume`, `Settings`, `LocalAdmin`, `PausedDrop`, `Help`, `Stop`,
`Start`, `SuppressReplay`, `BeginTurn`, in the order of the code's tests), and for
a turn the loop `BuildRequest`, `CheckRate`, `Request` (retries included),
`ParseError`, `CallTool`, `TextReply`, `MaxRounds`, then `SendChannel`,
`SendTelegram`, `Finish`. `Receive`, `Deliver` and `Tick` are the other tasks and
time; `Crash` and `Perform` restart the device, and reload the persona.

A history entry is its kind and the id of its tool call. `history_add` drops one
entry of a full buffer and `history_rollback_to` cuts to a length, as the code
does; `RequestEntries` is the filter of `build_anthropic_request`. Times are
ages that saturate at `MaxAge`; the casts to 32 bits are `% MsWrap`. The rate
limiter, the API and memory may refuse at any time. Ids of tool calls that the LLM
sends are taken to be non-empty.

### Cron

Start-up loads the table slot by slot without the mutex, while the agent may already
make tool calls. Loading a slot is one step when its key is found (`LoadEntry`), and two
when it is not: `EntryNotFound`, and then `ClearSlot`, which sets the slot's id to zero
whatever has come into it since (`cron.c:267`). A call that changes a schedule is two
steps as well: `cron_set` or `cron_delete` changes the slot in RAM, and `CallSaves` or
`CallFails` ends it, which writes to flash what the slot holds by then; `call` is the one
that is under way, and holds the mutex. A step of loading may come between the two. A
check reads the clock and its local minute (`ReadClock`), gets the mutex or gives up
(`Lock`, `LockTimeout`), scans slot by slot under it (`PassOver`, `Fire`), and sends the
collected firings after it (`Send`), where a full queue loses one. `real` is the true
time and `clock` what the device believes: it starts over with each restart until
`TimeSync`. `save_entry` may succeed, fail, or report a failure although flash has changed
(`NotSaved`). `log` remembers of each slot's last entry when it ran, and how its copies may
differ: by a write that failed (`torn`), or because loading cleared it (`cleared`).

### Telegram

The Bot API is `updates` and `forgotten`. The poll task is `task`: the start-up
flush, then pause check, gate, request, answer (`NoUpdate`, `Truncated`,
`SkipStale`, `Accept`), and a resynchronising flush after a streak of stale
answers. `s_last_update_id` is the offset. The agent is reduced to its turns and
their requests (`TurnBegins`, `LlmRequest`, `LlmResponse`, `TurnEnds`) and the
send task to its use of the gate. A poll or a flush whose response is lost may have
made the server forget what it acknowledged all the same (`PollFails`, `FlushFails`).
`read`, `excused` and `synced` record the fate
of each update.

### Mailbox

What the Telegram channel promises the agent, without polls, offsets, gates or queues:
messages are posted, wanted ones delivered in order and at most once between two restarts,
and none is removed that was neither delivered nor dropped. `Telegram` implements it
(`ImplementsMailbox`) with `updates`, `forgotten`, `read`, `read_now` and `excused` for
its variables: a poll and an answer are steps that change nothing there, `Accept` is a
delivery, an acknowledging poll a removal, a flush clears it, or a part of it when its
response is lost.

### RateLimit and LlmRequests

`RateLimit` has the counts, their windows, the three keys in flash and the clock
they are read by. `update_time_window` is `CountInWindow` with `Persist`, whose writes
fail one by one; `LimiterRestarts` loads what it finds and sets the clock back.
`made`, `intact` and `calls` remember what the properties need; they count what
the code counts, requests that were answered and recorded. `LlmRequests` extends
it by what a turn does with its verdict: `Attempt`, the gate (`GateTaken`,
`GateTimesOut`), the client (`ClientInitFails`, `Perform`), `AfterFailure` with its
delays, `Record`, `Parse`. Seconds count in `elapsed`; what happens between two
seconds does not matter to the code.

### Serial

`wire` is the line to the device, byte by byte. The device's end is the loop of
`channel_read_task`: `LineByte`, `Backspace`, `EndLine`, and, while the bytes of a
line may still be the prefix of an answer, `PrefixByte`, with the held bytes of
`held_echo_len`; then `BridgeByte` and `EndBridgeLine`. The agent's end is
`channel_llm_bridge_exchange`: `Begin`, `SendRequest`, `SendEnd`, `Timeout`,
`Receive`, `Copy`. The host's end is the script: what it sees of the device's output
(`PrintText`, `PrintNewline`, `PrintPrefix`), `TakeRequest`, `Answer`, and the user's
typing. A byte remembers the request it answers. The prefix has two bytes. `typed` is the
user's line as a line editor would have it, from one newline of the user's to the next, in
the order in which the bytes reach the device; `spoilt` says that the line was longer than
the buffer, or that the newline of an answer ended a part of it (`AnswerEnds`). `Copy` is
the `memcpy` at once and without its terminator.

### Board

One tool call at a time. For DHT: `CallDht`, the interval, the start signal, the wait for
each level, `Sample`, `Fell`, the checksum, retries; a sensor is a pulse train in
microseconds (`Low`), right, with a wrong bit, hung or absent. Each step of the capture
may come up to 10 us late (`Comes`); in a capture in which one comes later (`Slip`) the
bits may be anything, as interrupts stay on and nothing bounds them. `punctual` tells the
two apart. For I2C: the driver of a call and each way out of it. `Allowed` is the pin
policy, and `delay` the delay tool. Time is in ticks of the scheduler outside a capture
and in units of 10 us within one.

### UserTools

`s_tools` in RAM, `ut_count` and `ut` in flash. `save_to_nvs` is one action per
write (`SaveCount`, `SaveSlot`, `EraseSlot`, then `SaveDone`), any of which may
fail (`SaveFails`, which puts RAM back, not flash). `Restart` loads what it finds.
The NVS library of ESP-IDF stores each write at once, so a commit adds nothing.
`torn` remembers that a delete was cut short or a save failed.

### ToolTable

What the user tools promise, without flash and its keys: a call begins, and changes the
table in one step or not at all. A restart while a tool is created finds it there or not,
and all others there; while one is deleted, it finds the tools behind it moved as far as
some slot (`CutDelete`). Nothing is promised of a restart after a failed save, or of a
delete cut short again before a call succeeded (`Lost`). `UserTools` implements it
(`ImplementsToolTable`) with `Base`, the table as the last call that ended left it, for
`table`.

### GpioMapping

`nvs` has a key for each device and one for the list. A text is the sequence of
its words between commas, so the scan of the list (`Listed`, `Taken`, `Without`) and a
name with a comma are what they are in the code. `SaveKey` and `SaveList`, `DeleteKey`
and `DeleteFromList` are the two writes of a call; each has a form that fails, and
`Restart` may come between them and start a firmware that allows other pins. Reads of
flash do not fail. `Drive` and `WriteByName` are `gpio_write`. `MemorySet` and
`MemoryDelete` are the memory tools, whose keys may be those of mappings.

### Mappings

What the mappings promise: devices with a pin each, no two with the same; a step maps a
device to a pin that no other has, or forgets one device, or all. `GpioMapping` implements
it (`ImplementsMappings`) with the devices whose last save was reported as a success and
that nothing has deleted since, and the pin in their keys, for `pin`: the writes of a
call, those that fail and restarts are steps that change nothing there, or forget.

### Boot

`app_main` step by step (`MemoryInit`, `FactoryResetButton`, `GuardBoot`,
`StartTasks`, `Connect`, `WifiWaitEnds`, `StartServices`, `EspRestart`), the
`boot_ok` task (`ClearBootCount`), the WiFi event handler (`GotIp`, `Retry`,
`GiveUp`), the access point coming and going, crashes at any point, the user's
commands, and provisioning. `unstable`, `unwritten`, `clear_failed` and `online`
record the history the properties are about. The emulator build is left out.

### Which code stands behind what is shared

Each module has the neighbours it needs in reduced form: Agent has a counter for
Telegram's pause and a free verdict for the rate limiter, Telegram has turns for the
agent, Cron has a queue for it, LlmRequests may find the gate taken for longer than it
waits. That these agree is a matter of review.

## 3. Runs

| Run | Question | Result |
|---|---|---|
| `agent_history` | Do long turns with failures keep requests well-formed, polling paused exactly in turns, earlier turns untouched, and does each message end? | holds |
| `agent_commands` | With every command, pause, restart and the clock: one answer each, no second answer in the replay window? | holds |
| `agent_rollback_trace` | Does a failed turn leave nothing behind (a host test says so)? | violated |
| `cron_table` | With creations and deletes, also between the steps of loading, firings, failed writes and a restart: unique ids, RAM as in flash, no one-shot twice, a daily schedule once in its minute, due schedules run? | holds |
| `telegram` | Is the channel a `Mailbox` that reads each update in order and once and forgets none unread; is none blocked, none read again after a flush, and a turn disturbed at most once? | holds |
| `user_tools` | Is the table a `ToolTable`, changed by each call in one step whatever restart cuts it short, and does a restart between calls find the table that was there? | holds |
| `user_tools_reboot` | Do tools survive reboots in the middle of a delete (the docs say so)? | violated |
| `boot` | Are loops stopped, healthy boards not, and does each start-up end? | holds |
| `gpio_mapping` | Are the saved mappings `Mappings`, on pins of their own that are allowed; do they stay, and do deleted ones go? | holds |
| `llm_requests` | Are the limits of the clock's hours and days kept, the day's over restarts, the gate always given back, the retry budget kept? | holds |
| `serial` | Do lines arrive as typed among answers, but for those an answer cuts in two, and answers at their request, but for as many as timed out? | holds |
| `board` | Is the reading of a punctual capture the sensor's, are captures spaced, does each call delete its I2C driver? | holds |

### Bounds, and why they are enough

* `MCAgentHistory`: 6 history entries, 3 tool rounds, 2 attempts per request, one
  message kind, two tool ids. A turn of 3 rounds adds 8 entries at most, so turns
  wrap the buffer from every even length, and fail after wrapping; the
  code has 24 entries and 5 rounds, where the same happens with more turns. Two
  ids make a result that follows the wrong call distinguishable.
* `MCAgentCommands`: all commands and all three sources, history 2, one round,
  cooldowns of 2 ticks, ages up to 2, three texts (one per kind of message). Two
  ticks tell "inside" from "at the end of" the window. `MsWrap` is beyond `MaxAge`:
  the wrap of the 32-bit cast is out of the bounds of this run (section 5).
* `MCAgentTrace`: history 4 and 2 rounds, the smallest that wraps within a turn.
* `MCCronTable`: 2 slots and ids 1 to 3, so that the lowest free id and the slot
  number could differ; deletes of 5, which is 1 when narrowed to the id's range; a
  schedule of each type and two refused ones; a clock that may be wrong until
  SNTP sets it to a minute of two ticks; one restart; and one entry at a time whose last
  write failed. Deletes, failures and the steps of loading interleave with each other;
  more time adds repetitions. Other timezones and more failures are left to the proofs.
* `MCTelegram`: 2 updates of three kinds ("other" behaves as "foreign"), 2
  replays, a streak of 2, a queue of 2, one restart. Two updates are needed for one
  to block, overtake or acknowledge the other. Two do not fill the queue: that a full one
  loses a message and no more is left to the theorem `Refinement`.
* `MCUserTools`: 4 tools for 3 slots, 3 restarts, symmetric tools. Three slots
  give a delete a first, a middle and a last; a fourth tool is turned away.
* `MCGpioMapping`: 3 devices and 3 pins, a list with room for 2, 2 restarts, and a
  firmware that allows 2 of the pins. With three devices the one that a torn call
  left out of the list, or in it, meets two others. Memory tools write a pin or a
  list of two devices to any key.
* `MCLlmRequests`: a day of 2 hours of 2 ticks and a year of 2 days, so that hours
  and days repeat; limits of 2 an hour and 3 a day; 4 ticks, before and after SNTP has set
  the clock to the last day of a year; one restart. The delays, the budget (45 s), the
  wait for the gate (21 s) and the timeout of a request (20 s) are the code's own.
* `MCSerial`: a line of 2 bytes, answers of 1 and 3 bytes for a buffer of 2, so that one
  overflows; 2 requests, so that one's answer may meet the other; 3 typed keys among
  them backspace and the bytes of the prefix; one output of the device. The run may
  stop when all of these are spent, so deadlock is not checked.
* `MCBoard`: frames of 5 bytes of one bit, the last of which is the checksum; every right
  frame, each with every wrong bit, and every point to hang at; each step of a capture on
  time or 10 us late, and captures that slip and give any bits; pins 4 to 6, of which 6 is
  a flash pin; 2 attempts; intervals of 1 and 2 ticks in a time of 3; 2 addresses to scan.
* `MCBoot*`: `MAX_BOOT_FAILURES` is the code's own 4, 2 WiFi retries, one boot
  that cannot store the counter, two crashes or other troubles beside the failed
  connections, which are not bounded.

### Fairness, and why the code justifies it

* *Agent:* weak fairness of the agent's own steps. Every call of the task
  returns: HTTP has timeouts, queue sends have timeouts, delays end.
* *Cron:* weak fairness of start-up and of the check; strong fairness of `Lock`, and of
  the return of a call that a check waits for: the agent holds the mutex for one table
  operation, so it does not keep it for the whole second of the wait at each check.
* *Telegram:* weak fairness of the poll task, answers and sends; strong fairness
  of getting an answer to a poll at all (a network that fails for ever
  delivers nothing), of ending a turn (`TurnEnds` of Agent shows it) and of taking
  the gate. `PollsMeetFreeGate` says that tries 100 ms apart do not for ever miss the
  moments at which the gate is free.
* *Boot:* weak fairness of `app_main` and of WiFi events: the driver ends each
  attempt with an address or a disconnect.
* *The others:* none; their properties are about safety. Deadlock is checked in every
  run but `serial`.

## 4. Proofs

The theorems hold for all values of the constants that satisfy the assumption named in
each module (`AgentAssumption`, `SerialAssumption`, ...), which TLC evaluates in the runs.
They say that lengths and limits are positive, that the history buffer is even
(`MAX_HISTORY_TURNS * 2`), that there are no more slots than ids, that timeouts have a
maximum, and that special values differ from the others; nothing about behaviour is
assumed. Two modules have theorems with a hypothesis beyond that, stated below with the
code that needs it. Where a property is not inductive, `IInv` is the invariant that is:
`Init => IInv`, one lemma per action or group of actions for `IInv /\ [Next]_vars =>
IInv'`, and the property from `IInv`. TLC has checked each `IInv` on the instance of the
module's run. Each module with proofs has `TypeCorrect`, and these:

* **`AgentProofs`**: `RequestWellFormed`, `PausedExactlyInTurn`,
  `AnsweredOnce`, `RollbackSparesEarlierTurns`, `PersonaFollowsStore` (which no run
  checks) and `SameAnswerOncePerWindow`. `RequestWellFormed` is not inductive: a request is
  built from what earlier turns, drops and rollbacks left. `IInv` adds that the
  history is *paired* (a `tool_use` is followed by its result, a result is preceded
  by its call unless it is the oldest entry), that the length at the start of a
  turn is even, and the *shape* of the turn: how many entries it has added, of
  which kinds, and whether the buffer wrapped since it began. Cutting back to an
  even length then never parts a call from its result. `AnswerInv` ties the
  number of answers to the control point. The lemmas `AddResult`, `CallResult`,
  `RollbackResult` and `PairedRequest` say what the history operators do.
  `TurnsAreBounded` is the part of `TurnEnds` that needs no fairness: `StepsLeft` counts
  the rounds, retries and steps that a message may still take, each step of the agent
  lowers it, and no other task raises it.
* **`CronProofs`**: `UniqueIds`, `RamMatchesFlash`, `FiredOnceIsGone` and
  `DailyOncePerMinute`. The key is `SlotOk`: the id of an entry
  *is* the number of its slot. `cron_set` takes the first free slot and the lowest
  free id, and these go together although ids are reused and the table is filled
  by `load_entries` while others change it; `UniqueIds` follows. `SlotOk` also
  relates a slot's entries in RAM and in flash to its log and to the call that is under
  way, by how far loading is with the slot (`Where`): ahead of it, between finding it empty
  and clearing it, or past it. That gives the others.
  Under `DueRuns` are two more: each check ends (`ChecksAreBounded`, again by a measure),
  and when a scan ends, no periodic schedule is due by the time it read (`NoneLeftDue`).
  That needs `Intervals`, that no way into the table makes an entry with an interval of
  zero, and `PassedNoneDue`, the same fact for the slots the scan has passed.
* **`DeviceProofs`** is about two components, `Boot` and `Board`, whose names are kept
  apart. For `Boot`: `SafeModeOnlyAfterUnstable`, `LoopsAreStopped` and
  `StableOnlyOnline`. `Counted` bounds the counter in flash by the history of boots from
  both sides; `Phases` says which tasks run where in `app_main`. Under `BootEnds` are
  `WaitsAnswered`, that `app_main` waits for the event bits, which has no timeout, only
  while an attempt to connect is under way, and `StartUpsAreBounded`: until the board
  works or halts, each step of `app_main` and of the driver lowers what is left, compared
  in the order troubles, provisioning, stage, boots, steps. That boots run out is
  `LoopsAreStopped`. For `Board`: `BoardTypeOK`, `ReadsSpaced` and `ReadingIsTheSensors`.
  `TimeInv` ties the clock to the times kept of captures, the frame to the place in the
  capture, and the driver to the place in an I2C call. A reading needs `Follows`: the
  capture is, at each place, at the edge of the signal it takes itself to be at, or a few
  units behind it, so the sample of each bit falls on the right side of the end of its
  pulse. `Falls`, when the line falls for each bit, is a recursive function, unrolled over
  the five bits of a frame. The theorem is about captures whose every step came within 10
  us of its time, among others that slipped. Of those nothing can be claimed (section 5).
* **`TelegramProofs`**: `OneArrivalPerTurn`, `NoBacklogAfterSync`, and `Refinement`, that
  the channel implements `Mailbox`. `Asked` says which update a response can be, given the
  offset it was asked with; `Acknowledged` that neither the server nor the offset is past
  a text that was not read or excused; `LatePoll` that a poll begun before a turn finds it
  undisturbed. They hold also where the server forgets and its response is lost. For each
  action there is one step of `Mailbox` or none. `Refinement` has the hypothesis `"long"
  \notin Replayed`: a long update that the server replayed after it forgot it would move
  the offset back (`telegram.c:412`), after which updates are read out of order. The Bot
  API does not do that; where it replays at all is a race of its own, which the other
  kinds stand for.
* **`LlmRequestsProofs`**: `RetryBudgetKept`, `DailyLimitOverRestarts`, `HourlyLimit`
  and `TwicePerHourAtMost` (which no run checks; `config.h:327` promises half of it, see
  section 5). `Budget` bounds the time taken at each place of the loop. `InSync`
  says that while no write of the day failed, RAM and flash agree on the day and its count,
  with the keys written one by one. `HourLimit` splits the last sixty minutes at the
  beginning of the clock's hour: at most `MaxPerHour` requests on either side. The sums
  over ages are a recursive function.
* **`UserToolsProofs`**: `RestartKeepsTable`, `CreateLosesNothing` (which no run checks, as
  the refinement says more) and `Refinement`, that the table is a `ToolTable`. What a
  restart loads skips empty slots, and a save that was cut short or failed may leave some. A
  save looks only one slot past the table, so the theorems need that such holes do not add
  up: `OneHole`, at most one below a tool that a load can reach. `Written` and `Ahead` say
  what flash holds in front of the next write and behind it. `Whole`, for the refinement:
  as long as nothing was torn, the slots not yet written hold the table of before, and
  those behind it are empty.
* **`GpioMappingProofs`**: `SavedIsKept`, `SavedPinsDiffer` (which no run checks, as it is a
  part of the refinement), `DeletedIsGone` and `Refinement`, that saved mappings are
  `Mappings`, for `OneWordNames`: no device name has a comma or is "list". The code takes both
  (`gpio_mapping.c:427`, `:279`), and then the properties do not hold (section 5).
  `TypeCorrect`, with the pin policy and the buffer of the list, needs no such condition.
  `SaveBegun` and `DeleteBegun` say what holds between the two writes of a call.
* **`SerialProofs`**: `LinesArriveAsTyped` and `AnswersLagByTimeouts`. `Shape` says that
  answers are whole on the wire, but for one the reader is inside of; so nothing typed comes
  between the bytes of an answer, and `Clean` can say that whenever the next byte is the
  user's, the reader is in no answer and its line with the held bytes is the one typed.
  Without `PrefixIsAnswers` the second byte of a prefix could complete one that the user
  began. An answer that comes while a part of a line is typed ends that part, and the line
  is `spoilt`. `OrderInv` says that requests are printed, read, answered and received in
  order, each at most once; `LaterThanTaken` that what is still outstanding is later than
  `Low`, the number of exchanges that took an answer. As each exchange that takes none is a
  timeout, an answer is no older than that.

Induction over data (`ToolsIn`, `Copied`, `CallsWithin`) is by the smallest
counterexample: the lemma `Smallest` says that a set of natural numbers has a least member,
from the library's theorems on well-founded relations, and a lemma shows for the set of
counterexamples that its least member is none.

Only model-checked are the liveness properties `TurnEnds`, `DueRuns`, `EveryUpdateTaken` and
`BootEnds`, as the provers do not reason about fairness. For three of them the theorems above
show the part that is safety: that the steps are bounded, and what they bring about. What is
left to TLC is that a step is always to be had and, by fairness, taken. `EveryUpdateTaken`
depends on the server and the network at every poll, and has no such measure.

The invariants and action properties named here that no run lists were checked by TLC in the
same way as each `IInv`, on the instance of the module's run.

## 5. What the models show of the code

Two statements of the repository do not hold, each with a run that shows it:

1. **A failed turn may stay in the history** (`agent.c:131`). The marker of
   `history_rollback_to` is a length. After an append of the turn has dropped an
   older entry, the length no longer marks where the turn began. With a full
   history nothing is removed, contrary to what `test_agent.c:222` asserts. The
   proofs show that it does no more harm than that: requests stay well-formed.
2. **A restart during a delete may lose another tool** (`user_tools.c:94`).

Two more do not hold, for which the runs and theorems show what the code keeps instead:

3. **More than the hourly limit may pass within sixty minutes.** `config.h:327` says "At
   most 100 LLM API calls in any 60-minute window". The windows are the hours of the clock
   (`ratelimit.c:79`): the limit may be used up at the end of one and again at the
   beginning of the next. `HourlyLimit` is the limit by the hours of the clock, and the
   theorem `TwicePerHour` gives the bound for any sixty minutes. With
   `CallsWithin(calls)[TicksPerHour - 1] <= MaxPerHour`, the sentence of `config.h`, as an
   invariant of `MCLlmRequests.cfg`, TLC finds a violation. And only answered requests are
   counted (`agent.c:762`): an attempt that fails is a call too, and a request makes up to
   three.
4. **More than the daily limit may pass within 24 hours.** `config.h:328` says "any 24-hour
   window"; the windows are the days of the clock, with the same consequence. After a
   restart the day is one in 1970 until SNTP answers, and a request before that starts
   the count over twice (`ratelimit.c:92`). A request that a restart cuts off before it is
   recorded is not counted. `DailyLimitOverRestarts` is what is left: exact in each
   day that the limiter sees, for the requests it records.

Known behaviours the models include, or that were met on the way, and that no
property forbids because nothing is promised:

* A link that is lost after start-up is never tried again (`local_admin.c:141`), though
  `config.h:210` speaks of ten attempts.
* A device name with a comma is two words of the list (`gpio_mapping.c:427`), so another
  device may be saved on the same pin.
* The memory tools may write the keys of mappings, as these have the prefix of user keys
  (`memory_keys.c:14`): the list and the keys then say different things.
* The hour of a count is not tied to a day (`ratelimit.c:86`): if nothing is asked until the
  same hour of the next day, that hour takes up the count of the first, and may refuse
  requests. The count per hour is not in flash. `ratelimit_reset_daily` is not called by
  anything.
* The retry loop may last the budget and one attempt more (`agent.c:684`): 86 s if the
  attempt ends with the client's timeout. That timeout is for each operation on
  the socket, so a server that sends its answer slowly may take longer.
* `load_entries` takes no lock and clears a slot it finds empty in a second step
  (`cron.c:267`), when the agent already runs (`main.c:345`). A schedule that is created
  between the two is stored, and does not run before the next restart. One that is
  created before its slot is loaded replaces the schedule that flash holds there, or, when
  it is not yet saved, is replaced by that; a delete of it in that time may be
  undone. All are reported as done. `RamMatchesFlash` names the case in which RAM
  and flash differ without a failed write. The fields of an entry are taken to be
  read and written at once.
* An API error with status 200 is answered to the user like a text (`json_util.c`); of
  several tool calls in one message the last is made with Anthropic, the first with OpenAI.
* A request of the bridge that times out takes 50 s of a budget of 45 s, so its late answer
  goes to the next turn's request (`channel.c:396`). An answer that comes while a line is
  half typed is appended to it, and its newline ends the line (`channel.c:250`, `:277`): the
  agent gets the first part with the answer, and the rest as a line of its own. The request
  goes unanswered. `LinesArriveAsTyped` leaves such a line out by name (`spoilt`).
* Bytes that are typed while the bridge flushes what it held back may overtake those
  (`qemu_live_llm_bridge.py`), so a line arrives as the bytes reached the device, which is
  not always as they were typed.
* A capture of a DHT sensor polls the pin with interrupts enabled (`tools_dht.c:65`). Where
  a step slips by more than 10 us, the bits may be wrong, and with a checksum that
  matches by chance they are returned as a reading.
* A DHT read that failed does not count for the interval of the next call
  (`tools_dht.c:119`). A scan of a stuck I2C bus finds "no devices" (`tools_i2c.c:363`).
* After a loss of power the clock starts over while `last_run` in flash is true time,
  so a periodic schedule that has run before waits for SNTP (`cron.c:794`), although
  `cron.c:370` says that periodic schedules still work without.
* Nothing in safe mode clears the boot counter (`main.c:351`), so a board stays in it
  over every restart until its flash is erased or written anew.
* A save of a mapping that fails half-way leaves a name that `gpio_write` resolves
  and no list shows; its pin may be given to another device. A delete that fails
  half-way leaves the name in the list: another delete ends at
  `gpio_mapping.c:534`, as `memory_delete` reports `ESP_ERR_NVS_NOT_FOUND` there.
* The device name "list" has the key of the list itself (`gpio_mapping.c:279`).
* 49.7 days after an answer the truncated age (`agent.c:609`) is small again, so
  one text may be taken for a replay for a window's length.
* A cron trigger with the text of the last answered message is suppressed as a
  replay of it (`agent.c:604`).
* A one-shot that is created before the clock is set fires as soon as it is set
  (`cron.c:556`).
* `cron_delete` narrows its number to 8 bits (`tools_cron.c:373`).
* A check that read the clock just before SNTP set it matches daily schedules
  once against the old time (`cron.c:771`).
* Firings that meet a full queue, or a paused agent, are lost (`cron.c:867`).
* `WIFI_RETRY_DELAY_MS` (`config.h:211`) is not used by anything.

## 6. Not modelled, and the plan

Left out for good: the wording of prompts and answers, headers, URLs and the two JSON
formats, listings, the emulator build, encryption of NVS, OTA (`ota.c`: nothing in the
firmware installs an image, so none is ever pending), the web relay, which is a program
of its own on the other end of the serial line, and the shell scripts. The server is not
assumed to replay a long update: `Truncated` would move the offset back, which the hazards
list. Names with a comma are in the module but not in the run `gpio_mapping`, as its
properties do not hold for them.

What could be added: an abstract specification of the scheduler, as a set of schedules
with their next times, and of the serial line, as two queues; and a model of the relay.

A dozen runs is what the project can afford to repeat after each change; new
components take the place of runs that answer a settled question.
