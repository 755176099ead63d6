------------------------------- MODULE Agent -------------------------------
(***************************************************************************)
(* The agent task of main/agent.c: one FreeRTOS task that takes messages   *)
(* from the input queue and runs each to its end (slash command, or a      *)
(* conversation turn that alternates LLM requests and tool calls), and the *)
(* queues that connect it to the channel, Telegram and cron tasks.         *)
(*                                                                         *)
(* Data is abstracted to what the agent branches on: a message is its      *)
(* command and its text, a history entry is its kind and its tool id.      *)
(***************************************************************************)
EXTENDS Integers, Sequences

CONSTANTS
    Messages,             \* the messages producers may queue, see MessageType
    Texts,                \* the texts of plain messages
    NoText,               \* s_last_non_command_text when empty
    ToolIds, NoId,        \* ids of tool calls, and the empty id
    Personas, Neutral,    \* agent_persona_t and its default
    MaxHistory,           \* MAX_HISTORY_TURNS * 2
    MaxToolRounds,        \* MAX_TOOL_ROUNDS
    LlmMaxRetries,        \* LLM_MAX_RETRIES
    InputQueueLength,     \* INPUT_QUEUE_LENGTH
    OutputQueueLength,    \* OUTPUT_QUEUE_LENGTH
    TelegramQueueLength,  \* TELEGRAM_OUTPUT_QUEUE_LENGTH
    StartCooldown,        \* START_COMMAND_COOLDOWN_MS, in ticks
    ReplayCooldown,       \* MESSAGE_REPLAY_COOLDOWN_MS, in ticks
    MsWrap,               \* 2^32 ms, in ticks: the range of the uint32_t casts
    MaxAge,               \* bound: ages saturate here
    Never                 \* a response time that was never set (0 in the code)

Commands == {"resume", "settings", "admin_tool", "admin", "help", "stop",
             "start", "unknown", "chat", "cron_trigger"}
Sources == {"channel", "telegram", "cron"}
MessageType == [cmd: Commands, text: Texts, source: Sources]

ASSUME AgentAssumption ==
    /\ Messages \subseteq MessageType
    /\ NoText \notin Texts /\ NoId \notin ToolIds
    /\ Neutral \in Personas
    /\ MaxHistory \in Nat \ {0} /\ MaxHistory % 2 = 0
    /\ MaxToolRounds \in Nat \ {0} /\ LlmMaxRetries \in Nat \ {0}
    /\ InputQueueLength \in Nat \ {0}
    /\ OutputQueueLength \in Nat \ {0} /\ TelegramQueueLength \in Nat \ {0}
    /\ StartCooldown \in Nat /\ ReplayCooldown \in Nat
    /\ MsWrap \in Nat \ {0} /\ MaxAge \in Nat
    /\ Never \notin Nat

VARIABLES
    input_queue,              \* s_input_queue
    channel_output,           \* replies waiting in s_channel_output_queue
    telegram_output,          \* replies waiting in s_telegram_output_queue
    pc,                       \* where the agent task is
    msg,                      \* the message being processed
    outcome,                  \* the outcome logged for it
    answers,                  \* responses sent for it, to both queues
    s_history, history_turn_start, rounds, retry,
    s_messages_paused,
    s_last_start_response,    \* age of s_last_start_response_us
    s_last_response,          \* age of s_last_non_command_response_us
    s_last_non_command_text,
    s_persona, nvs_persona,   \* the persona in RAM and in flash
    s_poll_pause_count        \* kept by telegram.c

queues == <<input_queue, channel_output, telegram_output>>
turn == <<s_history, rounds, retry>>
cooldowns == <<s_last_start_response, s_last_response, s_last_non_command_text>>
persona == <<s_persona, nvs_persona>>
vars == <<queues, pc, msg, outcome, answers, turn, history_turn_start,
          s_messages_paused, cooldowns, persona, s_poll_pause_count>>

TurnPcs == {"loop", "rate", "request", "parse", "finish"}
Silent == {"paused_drop", "start_suppressed", "replay_suppressed"}
Failures == {"request_build_error", "rate_limited", "llm_error", "parse_error"}
TurnOutcomes == Failures \cup {"success", "max_rounds"}
Restarts == {"reboot", "factory_reset"}
Outcomes == TurnOutcomes \cup Silent \cup Restarts \cup
            {"none", "resume", "settings_handled", "local_admin", "paused",
             "help_handled", "start_handled"}

EntryKinds == {"user", "assistant", "tool_use", "tool_result"}
Entry == [kind: EntryKinds, id: ToolIds \cup {NoId}]
Plain(kind) == [kind |-> kind, id |-> NoId]

-----------------------------------------------------------------------------
(* Conversation history *)

\* Mutant: a full buffer is not made room in.
AddWithoutDrop(h, e) == Append(h, e)

\* Append, dropping the single oldest entry when the buffer is full.
history_add(h, e) ==
    Append(IF Len(h) >= MaxHistory THEN Tail(h) ELSE h, e)

\* Mutants: the cut is one entry off, to either side.
RollbackOneShort(h, marker) ==
    IF marker + 1 >= Len(h) THEN h ELSE SubSeq(h, 1, marker + 1)

RollbackOneFar(h, marker) ==
    IF marker >= Len(h) THEN h ELSE SubSeq(h, 1, marker - 1)

history_rollback_to(h, marker) ==
    IF marker >= Len(h) THEN h ELSE SubSeq(h, 1, marker)

\* The entries a request is built from: a tool_result with no earlier tool_use
\* of the same id is skipped.
RequestEntries(h) ==
    {i \in 1..Len(h) :
        h[i].kind = "tool_result" =>
            \E j \in 1..(i - 1) : h[j].kind = "tool_use" /\ h[j].id = h[i].id}

(* Cooldowns: the elapsed time, cast to uint32_t, against the window *)

\* Mutant: the window is one tick too short.
WithinOneShort(age, cooldown) == age # Never /\ age % MsWrap < cooldown - 1

Within(age, cooldown) == age # Never /\ age % MsWrap < cooldown

NonCommand(m) == m.cmd \in {"chat", "cron_trigger"}

IsReplay(m) == /\ NonCommand(m)
               /\ m.text = s_last_non_command_text
               /\ Within(s_last_response, ReplayCooldown)

-----------------------------------------------------------------------------
\* agent_start: empty queues, nothing remembered, and the persona that earlier
\* boots left in flash.
Init == /\ input_queue = <<>> /\ channel_output = 0 /\ telegram_output = 0
        /\ pc = "idle" /\ msg \in Messages /\ outcome = "none" /\ answers = 0
        /\ s_history = <<>> /\ history_turn_start = 0
        /\ rounds = 0 /\ retry = 0
        /\ s_messages_paused = FALSE
        /\ s_last_start_response = Never /\ s_last_response = Never
        /\ s_last_non_command_text = NoText
        /\ nvs_persona \in Personas /\ s_persona = nvs_persona
        /\ s_poll_pause_count = 0

(* The tasks around the agent *)

\* channel_read_task, telegram_poll and the cron task queue a message; a full
\* queue makes their send time out and the message is lost.
Receive(m) ==
    /\ Len(input_queue) < InputQueueLength
    /\ input_queue' = Append(input_queue, m)
    /\ UNCHANGED <<channel_output, telegram_output, pc, msg, outcome, answers,
                   turn, history_turn_start, s_messages_paused, cooldowns,
                   persona, s_poll_pause_count>>

\* channel_write_task and telegram_send_task take one reply.
Deliver ==
    /\ \/ /\ channel_output > 0
          /\ channel_output' = channel_output - 1
          /\ UNCHANGED telegram_output
       \/ /\ telegram_output > 0
          /\ telegram_output' = telegram_output - 1
          /\ UNCHANGED channel_output
    /\ UNCHANGED <<input_queue, pc, msg, outcome, answers, turn,
                   history_turn_start, s_messages_paused, cooldowns, persona,
                   s_poll_pause_count>>

Older(age) == IF age = Never \/ age = MaxAge THEN age ELSE age + 1

Tick ==
    /\ s_last_start_response' = Older(s_last_start_response)
    /\ s_last_response' = Older(s_last_response)
    /\ UNCHANGED <<queues, pc, msg, outcome, answers, turn, history_turn_start,
                   s_messages_paused, s_last_non_command_text, persona,
                   s_poll_pause_count>>

-----------------------------------------------------------------------------
(* process_message: routing *)

Take ==
    /\ pc = "idle" /\ input_queue # <<>>
    /\ msg' = Head(input_queue)
    /\ input_queue' = Tail(input_queue)
    /\ pc' = "route" /\ outcome' = "none" /\ answers' = 0
    /\ history_turn_start' = Len(s_history)
    /\ UNCHANGED <<channel_output, telegram_output, turn, s_messages_paused,
                   cooldowns, persona, s_poll_pause_count>>

\* send_response followed by the log of outcome o
Reply(o) == pc' = "send_channel" /\ outcome' = o

Drop(o) == pc' = "idle" /\ outcome' = o

Routed == /\ pc = "route"
          /\ UNCHANGED <<queues, msg, answers, rounds, retry,
                         history_turn_start, persona, s_last_response,
                         s_last_non_command_text>>

NoTurn == UNCHANGED <<s_history, s_poll_pause_count>>

Resume == /\ Routed /\ NoTurn
          /\ msg.cmd = "resume"
          /\ s_messages_paused' = FALSE
          /\ Reply("resume")
          /\ UNCHANGED s_last_start_response

Settings == /\ Routed /\ NoTurn
            /\ msg.cmd = "settings"
            /\ Reply("settings_handled")
            /\ UNCHANGED <<s_messages_paused, s_last_start_response>>

\* /gpio and /diag answer with a tool result; the commands of local_admin.c may
\* ask for a restart after the answer. Remote sources are denied.
LocalAdmin ==
    /\ Routed /\ NoTurn
    /\ \/ msg.cmd = "admin_tool" /\ Reply("local_admin")
       \/ /\ msg.cmd = "admin"
          /\ \/ Reply("local_admin")
             \/ /\ msg.source = "channel"
                /\ \E o \in Restarts : Reply(o)
    /\ UNCHANGED <<s_messages_paused, s_last_start_response>>

Active == /\ ~s_messages_paused
          /\ msg.cmd \notin {"resume", "settings", "admin_tool", "admin"}

PausedDrop == /\ Routed /\ NoTurn
              /\ s_messages_paused
              /\ msg.cmd \notin {"resume", "settings", "admin_tool", "admin"}
              /\ Drop("paused_drop")
              /\ UNCHANGED <<s_messages_paused, s_last_start_response>>

Help == /\ Routed /\ NoTurn /\ Active
        /\ msg.cmd = "help"
        /\ Reply("help_handled")
        /\ UNCHANGED <<s_messages_paused, s_last_start_response>>

Stop == /\ Routed /\ NoTurn /\ Active
        /\ msg.cmd = "stop"
        /\ s_messages_paused' = TRUE
        /\ Reply("paused")
        /\ UNCHANGED s_last_start_response

Start == /\ Routed /\ NoTurn /\ Active
         /\ msg.cmd = "start"
         /\ IF Within(s_last_start_response, StartCooldown)
            THEN Drop("start_suppressed") /\ UNCHANGED s_last_start_response
            ELSE Reply("start_handled") /\ s_last_start_response' = 0
         /\ UNCHANGED s_messages_paused

SuppressReplay == /\ Routed /\ NoTurn /\ Active
                  /\ IsReplay(msg)
                  /\ Drop("replay_suppressed")
                  /\ UNCHANGED <<s_messages_paused, s_last_start_response>>

BeginTurn ==
    /\ pc = "route" /\ Active
    /\ msg.cmd \in {"chat", "cron_trigger", "unknown"}
    /\ ~IsReplay(msg)
    /\ s_poll_pause_count' = s_poll_pause_count + 1
    /\ s_history' = history_add(s_history, Plain("user"))
    /\ rounds' = 0 /\ retry' = 0
    /\ pc' = "loop"
    /\ UNCHANGED <<queues, msg, outcome, answers, history_turn_start,
                   s_messages_paused, cooldowns, persona>>

-----------------------------------------------------------------------------
(* process_message: the LLM loop *)

Turning(p) == /\ pc = p
              /\ UNCHANGED <<queues, msg, answers, history_turn_start,
                             s_messages_paused, cooldowns, s_poll_pause_count>>

\* Mutants: a failing turn returns without resuming the poll; it resumes but
\* sends nothing.
FailWithoutResume(o) ==
    /\ s_history' = history_rollback_to(s_history, history_turn_start)
    /\ Drop(o)
    /\ UNCHANGED <<retry, persona>>

FailSilently(o) ==
    /\ s_history' = history_rollback_to(s_history, history_turn_start)
    /\ pc' = "finish" /\ outcome' = o
    /\ UNCHANGED <<retry, persona>>

Fail(o) == /\ s_history' = history_rollback_to(s_history, history_turn_start)
           /\ Reply(o)
           /\ UNCHANGED <<retry, persona>>

\* Mutant: the tool round is not counted.
UncountedRequest ==
    /\ Turning("loop")
    /\ rounds < MaxToolRounds
    /\ UNCHANGED rounds
    /\ \/ pc' = "rate" /\ UNCHANGED <<outcome, s_history, retry, persona>>
       \/ Fail("request_build_error")

\* json_build_request, which may run out of memory.
BuildRequest ==
    /\ Turning("loop")
    /\ rounds < MaxToolRounds
    /\ rounds' = rounds + 1
    /\ \/ pc' = "rate" /\ UNCHANGED <<outcome, s_history, retry, persona>>
       \/ Fail("request_build_error")

\* ratelimit_check; its answer is left open here.
CheckRate ==
    /\ Turning("rate")
    /\ \/ /\ pc' = "request" /\ retry' = 0
          /\ UNCHANGED <<outcome, s_history, persona>>
       \/ Fail("rate_limited")
    /\ UNCHANGED rounds

\* One llm_request. After a failed one the agent sleeps and tries again, unless
\* it was the last or the 45 s retry budget is spent (left open here).
Request ==
    /\ Turning("request")
    /\ \/ pc' = "parse" /\ UNCHANGED <<outcome, s_history, retry, persona>>
       \/ /\ retry + 1 < LlmMaxRetries
          /\ retry' = retry + 1
          /\ UNCHANGED <<pc, outcome, s_history, persona>>
       \/ Fail("llm_error")
    /\ UNCHANGED rounds

ParseError == /\ Turning("parse")
              /\ Fail("parse_error")
              /\ UNCHANGED rounds

\* memory_set of the persona key. When it reports an error after the write (the
\* commit failed) flash may hold either value, and the agent keeps the old one.
SetPersona(p) ==
    \/ s_persona' = p /\ nvs_persona' = p
    \/ UNCHANGED s_persona /\ nvs_persona' \in {nvs_persona, p}

\* The tool_use entry, the tool (built in, user defined or refused), and the
\* tool_result entry. set_persona and reset_persona are the tools that change
\* state of the agent.
CallTool ==
    /\ Turning("parse")
    /\ \E id \in ToolIds :
          s_history' = history_add(
                          history_add(s_history, [kind |-> "tool_use", id |-> id]),
                          [kind |-> "tool_result", id |-> id])
    /\ UNCHANGED persona \/ \E p \in Personas : SetPersona(p)
    /\ pc' = "loop"
    /\ UNCHANGED <<outcome, rounds, retry>>

Answer(o) == /\ s_history' = history_add(s_history, Plain("assistant"))
             /\ Reply(o)
             /\ UNCHANGED <<rounds, retry, persona>>

TextReply == Turning("parse") /\ Answer("success")

MaxRounds == /\ Turning("loop")
             /\ rounds >= MaxToolRounds
             /\ Answer("max_rounds")

-----------------------------------------------------------------------------
(* send_response: the channel queue first, then Telegram; each send waits one *)
(* second for room and then gives the response up                             *)

SendChannel ==
    /\ pc = "send_channel"
    /\ \/ /\ channel_output < OutputQueueLength
          /\ channel_output' = channel_output + 1
       \/ /\ channel_output = OutputQueueLength
          /\ UNCHANGED channel_output
    /\ pc' = "send_telegram"
    /\ UNCHANGED <<input_queue, telegram_output, msg, outcome, answers, turn,
                   history_turn_start, s_messages_paused, cooldowns, persona,
                   s_poll_pause_count>>

SendTelegram ==
    /\ pc = "send_telegram"
    /\ \/ /\ telegram_output < TelegramQueueLength
          /\ telegram_output' = telegram_output + 1
       \/ /\ telegram_output = TelegramQueueLength
          /\ UNCHANGED telegram_output
    /\ answers' = answers + 1
    /\ pc' = CASE outcome \in TurnOutcomes -> "finish"
               [] outcome \in Restarts     -> "perform"
               [] OTHER                    -> "idle"
    /\ UNCHANGED <<input_queue, channel_output, msg, outcome, turn,
                   history_turn_start, s_messages_paused, cooldowns, persona,
                   s_poll_pause_count>>

\* The end of a turn: a success is remembered for the replay check, and polling
\* resumes (telegram_resume_polling ignores a call without a matching pause).
Finish ==
    /\ pc = "finish"
    /\ IF outcome = "success" /\ NonCommand(msg)
       THEN s_last_non_command_text' = msg.text /\ s_last_response' = 0
       ELSE UNCHANGED <<s_last_non_command_text, s_last_response>>
    /\ s_poll_pause_count' = IF s_poll_pause_count = 0 THEN 0
                             ELSE s_poll_pause_count - 1
    /\ pc' = "idle"
    /\ UNCHANGED <<queues, msg, outcome, answers, turn, history_turn_start,
                   s_messages_paused, s_last_start_response, persona>>

-----------------------------------------------------------------------------
(* Restarts *)

\* Everything in RAM starts over; flash holds p as the persona.
RestartWith(p) ==
    /\ input_queue' = <<>> /\ channel_output' = 0 /\ telegram_output' = 0
    /\ pc' = "idle" /\ outcome' = "none" /\ answers' = 0
    /\ s_history' = <<>> /\ history_turn_start' = 0
    /\ rounds' = 0 /\ retry' = 0
    /\ s_messages_paused' = FALSE
    /\ s_last_start_response' = Never /\ s_last_response' = Never
    /\ s_last_non_command_text' = NoText
    /\ nvs_persona' = p /\ s_persona' = p
    /\ s_poll_pause_count' = 0
    /\ UNCHANGED msg

\* local_admin_perform_action; a failed erase leaves the agent running.
Perform ==
    /\ pc = "perform"
    /\ \/ outcome = "reboot" /\ RestartWith(nvs_persona)
       \/ outcome = "factory_reset" /\ RestartWith(Neutral)
       \/ /\ outcome = "factory_reset"
          /\ pc' = "idle"
          /\ UNCHANGED <<queues, msg, outcome, answers, turn,
                         history_turn_start, s_messages_paused, cooldowns,
                         persona, s_poll_pause_count>>

\* Power loss or a crash of any task, at any point.
Crash == RestartWith(nvs_persona)

-----------------------------------------------------------------------------
Route == \/ Resume \/ Settings \/ LocalAdmin \/ PausedDrop \/ Help \/ Stop
         \/ Start \/ SuppressReplay \/ BeginTurn

TurnStep == \/ BuildRequest \/ CheckRate \/ Request \/ ParseError \/ CallTool
            \/ TextReply \/ MaxRounds

AgentStep == \/ Take \/ Route \/ TurnStep \/ SendChannel \/ SendTelegram
             \/ Finish \/ Perform

Next == \/ AgentStep
        \/ \E m \in Messages : Receive(m)
        \/ Deliver \/ Tick \/ Crash

Spec == Init /\ [][Next]_vars

\* Every call of the agent task returns: HTTP requests, queue sends and delays
\* have timeouts, and nothing of a higher priority runs without blocking.
FairSpec == Spec /\ WF_vars(AgentStep)

-----------------------------------------------------------------------------
(* Properties *)

Ages == 0..MaxAge \cup {Never}

\* Every variable stays in its range (the queues within their lengths).
TypeOK ==
    /\ input_queue \in Seq(Messages) /\ Len(input_queue) <= InputQueueLength
    /\ channel_output \in 0..OutputQueueLength
    /\ telegram_output \in 0..TelegramQueueLength
    /\ pc \in TurnPcs \cup {"idle", "route", "send_channel", "send_telegram",
                            "perform"}
    /\ msg \in Messages /\ outcome \in Outcomes /\ answers \in 0..1
    /\ s_history \in Seq(Entry) /\ Len(s_history) <= MaxHistory
    /\ history_turn_start \in 0..MaxHistory
    /\ rounds \in 0..MaxToolRounds /\ retry \in 0..(LlmMaxRetries - 1)
    /\ s_messages_paused \in BOOLEAN
    /\ s_last_start_response \in Ages /\ s_last_response \in Ages
    /\ s_last_non_command_text \in Texts \cup {NoText}
    /\ s_persona \in Personas /\ nvs_persona \in Personas
    /\ s_poll_pause_count \in 0..1

\* The request the agent sends pairs every tool_use with a tool_result of the
\* same id right after it, and every tool_result with a tool_use right before
\* it, as LLM APIs demand: dropping the oldest entry alone and cutting a failed
\* turn off a buffer that wrapped never leave half a tool call in a request.
RequestWellFormed ==
    pc = "request" =>
      LET sent == RequestEntries(s_history) IN
        \A i \in sent :
          /\ s_history[i].kind = "tool_use" =>
                /\ i + 1 \in sent
                /\ s_history[i + 1] = [kind |-> "tool_result",
                                       id |-> s_history[i].id]
          /\ s_history[i].kind = "tool_result" =>
                /\ i - 1 \in sent
                /\ s_history[i - 1] = [kind |-> "tool_use",
                                       id |-> s_history[i].id]

\* Telegram polling is paused exactly while a turn runs: every way out of the
\* turn resumes it once, so pauses neither leak (polling would stop for good)
\* nor end while the agent still needs the heap for its own TLS session.
PausedExactlyInTurn ==
    s_poll_pause_count =
        IF pc \in TurnPcs \/ (pc \in {"send_channel", "send_telegram"} /\
                              outcome \in TurnOutcomes)
        THEN 1 ELSE 0

\* A message that is not dropped on purpose is answered exactly once, on both
\* queues, whichever of the ways out of process_message it takes.
AnsweredOnce ==
    pc = "idle" /\ outcome # "none" =>
        answers = IF outcome \in Silent THEN 0 ELSE 1

\* Two answers in a row to the same plain text are at least the replay window
\* apart, whatever commands, failures, pauses and ticks come in between.
SameAnswerOncePerWindow ==
    [][pc = "finish" /\ outcome = "success" /\ NonCommand(msg)
         => \/ msg.text # s_last_non_command_text
            \/ s_last_response \notin 0..(ReplayCooldown - 1)]_vars

\* Cutting off a failed turn removes entries of that turn only.
RollbackSparesEarlierTurns ==
    [][outcome' \in Failures /\ pc # "idle" /\ outcome = "none" =>
         Len(s_history') >= Len(s_history) - (2 * rounds' - 1)]_vars

\* The persona in use is never one that a restart would lose, except that a
\* write reported as failed may have reached flash.
PersonaFollowsStore == [][s_persona' # s_persona => s_persona' = nvs_persona']_vars

\* Every message is finished: neither tool rounds, retries nor full queues keep
\* the agent from taking the next one.
TurnEnds == pc # "idle" ~> pc = "idle"

-----------------------------------------------------------------------------
(* What comments and tests of the repository say of the agent, and the code   *)
(* does not do                                                                *)

\* A failed turn takes every entry it added out of the history again
\* (test_agent.c, failed_turn_does_not_pollute_followup_prompt). The marker is
\* a length, so it no longer marks the turn's start once the buffer wrapped.
FailedTurnLeavesNoTrace ==
    [][outcome' \in Failures /\ pc # "idle" /\ outcome = "none" =>
         Len(s_history') <= Len(s_history) - (2 * rounds' - 1)]_vars

=============================================================================
