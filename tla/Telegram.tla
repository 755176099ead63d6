------------------------------ MODULE Telegram ------------------------------
(***************************************************************************)
(* The Telegram channel of main/telegram.c: the poll task that asks the     *)
(* Bot API for updates, the acknowledgement of updates by offset, the flush *)
(* of the backlog, the pause that the agent puts on polling during a turn,  *)
(* and the one gate (main/http_gate.c) through which every HTTPS request of *)
(* the device passes: polls, flushes, sent messages and LLM requests.       *)
(*                                                                          *)
(* The Bot API numbers updates from 1; update i is of kind updates[i]:      *)
(*   "text"     a text from an authorised chat                              *)
(*   "foreign"  a text from any other chat                                  *)
(*   "other"    an update without a text                                    *)
(*   "long"     one that overflows the response buffer                      *)
(***************************************************************************)
EXTENDS Integers, Sequences, FiniteSets

CONSTANTS
    Kinds,         \* the kinds of updates that people send
    Replayed,      \* the kinds that the Bot API may return after it forgot them
    ResyncStreak,  \* TELEGRAM_STALE_POLL_RESYNC_STREAK
    QueueLength,   \* INPUT_QUEUE_LENGTH
    MaxUpdates,    \* bound: updates sent
    MaxReplays,    \* bound: replays by the Bot API
    MaxRestarts    \* bound: restarts

ASSUME TelegramAssumption ==
    /\ Kinds \subseteq {"text", "foreign", "other", "long"} /\ Replayed \subseteq Kinds
    /\ ResyncStreak \in Nat \ {0} /\ QueueLength \in Nat
    /\ MaxUpdates \in Nat /\ MaxReplays \in Nat /\ MaxRestarts \in Nat

VARIABLES
    updates,                   \* the kinds of the updates sent so far
    forgotten,                 \* the Bot API forgot the updates up to this one
    s_last_update_id,
    s_stale_only_poll_streak,
    cooldown,                  \* the last resync is less than a minute old
    task,                      \* where the poll task is
    response,                  \* the update in the response it got, or 0
    s_http_gate,               \* the user that holds the gate, or "free"
    s_poll_pause_count,
    agent,                     \* what the agent is doing
    agent_queue,               \* messages in the agent's input queue
    arrivals,                  \* Telegram messages queued during this turn
    read,                      \* updates handed to the agent
    read_now,                  \* of those, the ones since the last restart
    excused,                   \* updates discarded on purpose, or for lack of room
    synced,                    \* the start-up flush succeeded
    replays, restarts

bot_api == <<updates, forgotten, replays>>
poll == <<s_last_update_id, s_stale_only_poll_streak, cooldown>>
agents == <<agent, agent_queue, arrivals, s_poll_pause_count>>
fates == <<read, read_now, excused>>
vars == <<bot_api, poll, task, response, s_http_gate, agents, fates, synced, restarts>>

Tasks == {"startup", "startup_flush", "check", "gate", "request", "parse",
          "resync", "resync_flush"}
Updates == DOMAIN updates
Larger(i, j) == IF i < j THEN j ELSE i

-----------------------------------------------------------------------------
Init == /\ updates = <<>> /\ forgotten = 0 /\ replays = 0
        /\ s_last_update_id = 0 /\ s_stale_only_poll_streak = 0 /\ cooldown = FALSE
        /\ task = "startup" /\ response = 0 /\ s_http_gate = "free"
        /\ s_poll_pause_count = 0 /\ agent = "idle" /\ agent_queue = 0 /\ arrivals = 0
        /\ read = {} /\ read_now = {} /\ excused = {}
        /\ synced = FALSE /\ restarts = 0

(* People, time and restarts *)

UserSends(kind) == /\ Len(updates) < MaxUpdates
                   /\ updates' = Append(updates, kind)
                   /\ UNCHANGED <<forgotten, replays, poll, task, response, s_http_gate,
                                  agents, fates, synced, restarts>>

CooldownEnds == /\ cooldown
                /\ cooldown' = FALSE
                /\ UNCHANGED <<bot_api, s_last_update_id, s_stale_only_poll_streak, task,
                               response, s_http_gate, agents, fates, synced, restarts>>

Restart == /\ restarts < MaxRestarts
           /\ restarts' = restarts + 1
           /\ s_last_update_id' = 0 /\ s_stale_only_poll_streak' = 0 /\ cooldown' = FALSE
           /\ task' = "startup" /\ response' = 0 /\ s_http_gate' = "free"
           /\ s_poll_pause_count' = 0 /\ agent' = "idle" /\ agent_queue' = 0
           /\ arrivals' = 0 /\ read_now' = {} /\ synced' = FALSE
           /\ UNCHANGED <<bot_api, read, excused>>

-----------------------------------------------------------------------------
(* The agent, as far as the Telegram channel sees it *)

\* process_message: polling is paused from the start of a turn to its end. The
\* message comes from this queue; other channels feed it too.
TurnBegins == /\ agent = "idle"
              /\ agent' = "turn"
              /\ s_poll_pause_count' = s_poll_pause_count + 1
              /\ agent_queue' \in {agent_queue, Larger(agent_queue - 1, 0)}
              /\ arrivals' = 0
              /\ UNCHANGED <<bot_api, poll, task, response, s_http_gate, fates,
                             synced, restarts>>

\* llm_request gets the gate; when its wait times out, the agent tries again.
LlmRequest == /\ agent = "turn" /\ s_http_gate = "free"
              /\ agent' = "llm" /\ s_http_gate' = "llm"
              /\ UNCHANGED <<bot_api, poll, task, response, agent_queue, arrivals,
                             s_poll_pause_count, fates, synced, restarts>>

LlmResponse == /\ agent = "llm"
               /\ agent' = "turn" /\ s_http_gate' = "free"
               /\ UNCHANGED <<bot_api, poll, task, response, agent_queue, arrivals,
                              s_poll_pause_count, fates, synced, restarts>>

TurnEnds == /\ agent = "turn"
            /\ agent' = "idle"
            /\ s_poll_pause_count' = s_poll_pause_count - 1
            /\ UNCHANGED <<bot_api, poll, task, response, s_http_gate, agent_queue,
                           arrivals, fates, synced, restarts>>

\* A command of the agent that needs no turn.
TakeCommand == /\ agent = "idle" /\ agent_queue > 0
               /\ agent_queue' = agent_queue - 1
               /\ UNCHANGED <<bot_api, poll, task, response, s_http_gate, agent,
                              arrivals, s_poll_pause_count, fates, synced, restarts>>

\* telegram_send_to_chat, from the send task: the gate, the request, the gate.
SendBegins == /\ s_http_gate = "free" /\ task # "startup"
              /\ s_http_gate' = "send"
              /\ UNCHANGED <<bot_api, poll, task, response, agents, fates, synced, restarts>>

SendEnds == /\ s_http_gate = "send"
            /\ s_http_gate' = "free"
            /\ UNCHANGED <<bot_api, poll, task, response, agents, fates, synced, restarts>>

-----------------------------------------------------------------------------
(* telegram_poll: a getUpdates request for one update *)

\* Mutant: polling goes on while paused.
PollEvenPaused == /\ task = "check"
                  /\ task' = "gate"
                  /\ UNCHANGED <<bot_api, poll, response, s_http_gate, agents, fates,
                                 synced, restarts>>

PollUnlessPaused == /\ task = "check" /\ s_poll_pause_count = 0
                    /\ task' = "gate"
                    /\ UNCHANGED <<bot_api, poll, response, s_http_gate, agents, fates,
                                   synced, restarts>>

\* The poll does not wait for the gate.
GateBusy == /\ task = "gate" /\ s_http_gate # "free"
            /\ task' = "check"
            /\ UNCHANGED <<bot_api, poll, response, s_http_gate, agents, fates,
                           synced, restarts>>

GateTaken == /\ task = "gate" /\ s_http_gate = "free"
             /\ s_http_gate' = "poll"
             /\ task' = "request"
             /\ UNCHANGED <<bot_api, poll, response, agents, fates, synced, restarts>>

\* Mutant: the failure path keeps the gate.
PollFailsHoldingGate ==
    /\ task = "request"
    /\ task' = "check"
    /\ UNCHANGED <<bot_api, poll, response, s_http_gate, agents, fates, synced, restarts>>

next_offset == s_last_update_id + 1

\* No or a bad response: the failure is counted and the next poll delayed. The Bot API
\* may have read the offset all the same.
PollFails == /\ task = "request"
             /\ forgotten' \in {forgotten, Larger(forgotten, next_offset - 1)}
             /\ s_http_gate' = "free"
             /\ task' = "check"
             /\ UNCHANGED <<updates, replays, poll, response, agents, fates, synced,
                            restarts>>

\* The Bot API forgets the updates below the offset and returns the next, if
\* there is one. The gate is released before the response is parsed.
PollAnswered == /\ task = "request"
                /\ forgotten' = Larger(forgotten, next_offset - 1)
                /\ response' = IF forgotten' < Len(updates) THEN forgotten' + 1 ELSE 0
                /\ s_http_gate' = "free"
                /\ task' = "parse"
                /\ UNCHANGED <<updates, replays, poll, agents, fates, synced, restarts>>

\* The Bot API returns an update that it was told to forget.
PollReplayed == /\ task = "request" /\ replays < MaxReplays
                /\ replays' = replays + 1
                /\ \E i \in 1..forgotten : updates[i] \in Replayed /\ response' = i
                /\ s_http_gate' = "free"
                /\ task' = "parse"
                /\ UNCHANGED <<updates, forgotten, poll, agents, fates, synced, restarts>>

-----------------------------------------------------------------------------
(* telegram_poll: the response *)

Parsed == /\ task = "parse"
          /\ response' = 0
          /\ UNCHANGED <<bot_api, s_http_gate, agent, s_poll_pause_count, synced, restarts>>

NoUpdate == /\ Parsed /\ response = 0
            /\ s_stale_only_poll_streak' = 0
            /\ task' = "check"
            /\ UNCHANGED <<s_last_update_id, cooldown, agent_queue, arrivals, fates>>

\* A truncated response: only its update_id is read, and the update skipped.
Truncated == /\ Parsed /\ response # 0 /\ updates[response] = "long"
             /\ s_last_update_id' = response
             /\ excused' = excused \cup {response}
             /\ task' = "check"
             /\ UNCHANGED <<s_stale_only_poll_streak, cooldown, agent_queue, arrivals,
                            read, read_now>>

Stale == response <= s_last_update_id

\* A response with nothing new counts towards a resync, at most one a minute.
SkipStale ==
    /\ Parsed /\ response # 0 /\ updates[response] # "long" /\ Stale
    /\ LET streak == s_stale_only_poll_streak + 1
       IN IF streak >= ResyncStreak /\ ~cooldown
          THEN /\ cooldown' = TRUE /\ task' = "resync"
               /\ UNCHANGED s_stale_only_poll_streak
          ELSE /\ s_stale_only_poll_streak' = IF streak < ResyncStreak THEN streak
                                              ELSE ResyncStreak
               /\ task' = "check" /\ UNCHANGED cooldown
    /\ UNCHANGED <<s_last_update_id, agent_queue, arrivals, fates>>

\* The agent's queue takes the message, or it is full for 100 ms.
HandOver(i) ==
    IF agent_queue < QueueLength
    THEN /\ agent_queue' = agent_queue + 1
         /\ arrivals' = IF agent = "idle" THEN arrivals ELSE arrivals + 1
         /\ read' = read \cup {i} /\ read_now' = read_now \cup {i}
         /\ UNCHANGED excused
    ELSE /\ excused' = excused \cup {i}
         /\ UNCHANGED <<agent_queue, arrivals, read, read_now>>

\* Mutant: an update counts as seen only when its chat is authorised.
AcceptIfAuthorised ==
    /\ Parsed /\ response # 0 /\ updates[response] # "long" /\ ~Stale
    /\ s_stale_only_poll_streak' = 0
    /\ task' = "check"
    /\ IF updates[response] = "text"
       THEN s_last_update_id' = response /\ HandOver(response)
       ELSE UNCHANGED <<s_last_update_id, agent_queue, arrivals, fates>>
    /\ UNCHANGED cooldown

\* Mutant: a message that arrives during a turn is passed over.
AcceptUnlessPaused ==
    /\ Parsed /\ response # 0 /\ updates[response] # "long" /\ ~Stale
    /\ s_last_update_id' = response
    /\ s_stale_only_poll_streak' = 0
    /\ task' = "check"
    /\ IF updates[response] = "text" /\ s_poll_pause_count = 0
       THEN HandOver(response)
       ELSE UNCHANGED <<agent_queue, arrivals, fates>>
    /\ UNCHANGED cooldown

\* A new update is acknowledged whatever becomes of it.
Accept == /\ Parsed /\ response # 0 /\ updates[response] # "long" /\ ~Stale
          /\ s_last_update_id' = response
          /\ s_stale_only_poll_streak' = 0
          /\ task' = "check"
          /\ IF updates[response] = "text"
             THEN HandOver(response)
             ELSE UNCHANGED <<agent_queue, arrivals, fates>>
          /\ UNCHANGED cooldown

-----------------------------------------------------------------------------
(* telegram_flush_pending_updates: at start-up, and for a resync *)

\* The wait for the gate ends with the gate, or times out.
FlushBegins == /\ s_http_gate = "free"
               /\ s_http_gate' = "poll"
               /\ \/ task = "startup" /\ task' = "startup_flush"
                  \/ task = "resync" /\ task' = "resync_flush"
               /\ UNCHANGED <<bot_api, poll, response, agents, fates, synced, restarts>>

FlushTimesOut == /\ task \in {"startup", "resync"} /\ s_http_gate # "free"
                 /\ s_stale_only_poll_streak' = 0
                 /\ task' = "check"
                 /\ UNCHANGED <<bot_api, s_last_update_id, cooldown, response, s_http_gate,
                                agents, fates, synced, restarts>>

Flushing == /\ task \in {"startup_flush", "resync_flush"}
            /\ s_http_gate' = "free"
            /\ task' = "check"
            /\ s_stale_only_poll_streak' = 0
            /\ UNCHANGED <<updates, replays, cooldown, response, agents, read, read_now,
                           restarts>>

\* No or a bad response. The Bot API may have forgotten the backlog all the same, and
\* then leaves its newest update to the polls.
FlushFails == /\ Flushing
              /\ \/ UNCHANGED <<forgotten, excused>>
                 \/ /\ forgotten' = Larger(forgotten, Len(updates) - 1)
                    /\ excused' = excused \cup (1..forgotten' \ read)
              /\ UNCHANGED <<s_last_update_id, synced>>

\* Mutant: the newest update is not noted.
FlushNotNoted == /\ Flushing
                 /\ forgotten' = Larger(forgotten, Len(updates) - 1)
                 /\ excused' = excused \cup (Updates \ read)
                 /\ synced' = (synced \/ task = "startup_flush")
                 /\ UNCHANGED s_last_update_id

\* Offset -1: the Bot API forgets all updates but the newest and returns that.
Flush == /\ Flushing
         /\ forgotten' = Larger(forgotten, Len(updates) - 1)
         /\ s_last_update_id' = IF forgotten < Len(updates) THEN Len(updates)
                                ELSE s_last_update_id
         /\ excused' = excused \cup (Updates \ read)
         /\ synced' = (synced \/ task = "startup_flush")

-----------------------------------------------------------------------------
World == (\E k \in Kinds : UserSends(k)) \/ CooldownEnds \/ Restart
AgentTask == TurnBegins \/ LlmRequest \/ LlmResponse \/ TurnEnds \/ TakeCommand
SendTask == SendBegins \/ SendEnds
Response == NoUpdate \/ Truncated \/ SkipStale \/ Accept
PollTask == \/ PollUnlessPaused \/ GateBusy \/ GateTaken \/ PollFails
            \/ PollAnswered \/ PollReplayed \/ Response
            \/ FlushBegins \/ FlushTimesOut \/ FlushFails \/ Flush

Next == World \/ AgentTask \/ SendTask \/ PollTask

Spec == Init /\ [][Next]_vars

\* When neither the gate is held nor polling paused for ever, polls are tried
\* again and again at moments when the gate is free: messages are few, and polls
\* 100 ms apart.
PollsMeetFreeGate ==
    []<>(s_http_gate = "free") /\ []<>(s_poll_pause_count = 0) /\ []<>(task = "check")
      => []<>(task = "gate" /\ s_http_gate = "free")

\* The poll task runs, and not every poll fails; requests are answered or time
\* out, and a turn has finitely many of them (Agent).
FairSpec == /\ Spec /\ PollsMeetFreeGate
            /\ WF_vars(PollTask) /\ SF_vars(GateTaken) /\ SF_vars(PollAnswered)
            /\ WF_vars(LlmResponse) /\ SF_vars(TurnEnds) /\ WF_vars(SendEnds)

-----------------------------------------------------------------------------
(* Properties *)

\* Every variable stays in its range; polling is paused exactly during turns;
\* the gate is held by the one request under way, and on no path left taken.
TypeOK ==
    /\ updates \in Seq(Kinds) /\ Len(updates) <= MaxUpdates
    /\ forgotten \in 0..Len(updates) /\ s_last_update_id \in 0..Len(updates)
    /\ s_stale_only_poll_streak \in 0..ResyncStreak /\ cooldown \in BOOLEAN
    /\ task \in Tasks /\ response \in 0..Len(updates)
    /\ s_http_gate \in {"free", "poll", "send", "llm"}
    /\ s_http_gate = "poll" <=> task \in {"request", "startup_flush", "resync_flush"}
    /\ s_http_gate = "llm" <=> agent = "llm"
    /\ agent \in {"idle", "turn", "llm"} /\ agent_queue \in 0..QueueLength
    /\ s_poll_pause_count = IF agent = "idle" THEN 0 ELSE 1
    /\ arrivals \in 0..MaxUpdates
    /\ read \subseteq Updates /\ read_now \subseteq read /\ excused \subseteq Updates
    /\ synced \in BOOLEAN /\ replays \in 0..MaxReplays /\ restarts \in 0..MaxRestarts

Mailbox == INSTANCE Mailbox WITH posted <- updates, removed <- forgotten,
                                 ever <- read, delivered <- read_now,
                                 dropped <- excused, Wanted <- {"text"}

\* The channel is a mailbox: between two restarts texts are handed to the agent
\* in their order and none twice, also when the Bot API returns what it was told to
\* forget; and it is told to forget one only when it was handed over or discarded,
\* by a flush, for its length, or because the agent's queue was full. Restarts,
\* failed polls and replays lose none, and a flush none but the backlog, whether or
\* not its response arrives.
ImplementsMailbox == Mailbox!Spec

\* When the start-up flush succeeded, no update of before the restart reaches
\* the agent a second time, unless the Bot API itself replays.
NoBacklogAfterSync ==
    [][\A i \in read : Accept /\ response = i /\ synced => replays > 0]_vars

\* A turn is interrupted by at most one message: a poll that passed the pause
\* check before the turn began may still deliver, and no other starts.
OneArrivalPerTurn == arrivals <= 1

\* An update that stays on the server is taken in the end, or the device
\* restarts: neither foreign, empty or long updates, nor failed polls, turns of
\* the agent, replays and resyncs block the ones behind it.
EveryUpdateTaken ==
    \A i \in 1..MaxUpdates : i \in Updates ~> s_last_update_id >= i \/ forgotten >= i

=============================================================================
