---------------------------- MODULE LlmRequests ----------------------------
(***************************************************************************)
(* One LLM request of a conversation turn, from the rate limiter's check to *)
(* the parsed reply: the retry loop of main/agent.c with its budget, and    *)
(* llm_request of main/llm.c, which takes the HTTP gate, talks to the       *)
(* provider and gives the gate back. The turn around it is module Agent's.  *)
(***************************************************************************)
EXTENDS RateLimit

CONSTANTS
    Backends,       \* the backends a device may be configured for
    LlmMaxRetries,  \* LLM_MAX_RETRIES
    RetryBase,      \* LLM_RETRY_BASE_MS, in seconds like all below
    RetryMax,       \* LLM_RETRY_MAX_MS
    RetryBudget,    \* LLM_RETRY_BUDGET_MS
    GateWait,       \* the wait for the gate: the poll timeout and a second
    HttpTimes       \* how long requests take: the client's timeout is for each
                    \* operation on its socket, and bounds no request as a whole

ASSUME LlmRequestsAssumption ==
    /\ Backends \subseteq {"anthropic", "openai", "openrouter", "ollama"}
    /\ LlmMaxRetries \in Nat \ {0} /\ RetryBase \in Nat \ {0} /\ RetryMax \in Nat \ {0}
    /\ RetryBudget \in Nat /\ GateWait \in Nat /\ HttpTimes \subseteq Nat
    /\ \E t \in HttpTimes : \A u \in HttpTimes : u <= t    \* requests end

VARIABLES
    s_backend, s_api_key,   \* as llm_init found them; a key is there or not
    pc,                     \* where the agent is
    outcome,                \* how its last request ended
    retry, retry_delay,     \* of the loop; seconds
    elapsed,                \* seconds since retry_window_started_us
    s_http_gate             \* "llm" while this request holds the gate

config == <<s_backend, s_api_key>>
loop == <<retry, retry_delay, elapsed>>
request == <<pc, outcome, loop>>
vars == <<time, limiter, config, request, s_http_gate>>

Smaller(a, b) == IF a < b THEN a ELSE b
IdleLoop == retry = 0 /\ retry_delay = RetryBase /\ elapsed = 0

-----------------------------------------------------------------------------
(* llm_init: what provisioning left in flash. A backend that is missing or      *)
(* unknown is OpenAI.                                                         *)
llm_init(stored) == IF stored \in {"anthropic", "openrouter", "ollama"} THEN stored
                    ELSE "openai"

Init == /\ RateLimitInit
        /\ \E b \in Backends : s_backend = llm_init(b)
        /\ s_api_key \in BOOLEAN
        /\ pc = "idle" /\ outcome = "none" /\ IdleLoop
        /\ s_http_gate = "free"

NeedsKey == s_backend # "ollama"

-----------------------------------------------------------------------------
(* The retry loop of process_message *)

At(p) == pc = p /\ UNCHANGED config

\* ratelimit_check; the hour is checked before the day.
CheckRate ==
    /\ At("idle") /\ CheckWindow
    /\ \/ HourSpent /\ pc' = "idle" /\ outcome' = "hour_spent"
       \/ ~HourSpent /\ DaySpent /\ pc' = "idle" /\ outcome' = "day_spent"
       \/ ~HourSpent /\ ~DaySpent /\ pc' = "attempt" /\ outcome' = "none"
    /\ retry' = 0 /\ retry_delay' = RetryBase /\ elapsed' = 0
    /\ UNCHANGED s_http_gate

Return(o) == /\ pc' = "idle" /\ outcome' = o
             /\ retry' = 0 /\ retry_delay' = RetryBase /\ elapsed' = 0

\* Before each attempt but the first the budget is looked at.
BudgetSpent == /\ At("attempt")
               /\ retry > 0 /\ elapsed >= RetryBudget
               /\ Return("llm_error")
               /\ UNCHANGED <<time, limiter, s_http_gate>>

\* llm_request needs a key, except for Ollama.
Attempt == /\ At("attempt")
           /\ retry = 0 \/ elapsed < RetryBudget
           /\ pc' = IF ~s_api_key /\ NeedsKey THEN "failed" ELSE "gate"
           /\ UNCHANGED <<time, limiter, outcome, loop, s_http_gate>>

\* Mutant: after a failure the budget is not looked at.
RetryAnyway ==
    /\ At("failed")
    /\ IF retry = LlmMaxRetries - 1
       THEN Return("llm_error")
       ELSE /\ elapsed' = elapsed + retry_delay
            /\ retry_delay' = Smaller(2 * retry_delay, RetryMax)
            /\ retry' = retry + 1
            /\ pc' = "attempt" /\ UNCHANGED outcome
    /\ UNCHANGED <<time, limiter, s_http_gate>>

\* After a failure: give up, or sleep for the delay, or for what is left of the
\* budget; vTaskDelay may wake up one tick of the scheduler early.
AfterFailure ==
    /\ At("failed")
    /\ IF retry = LlmMaxRetries - 1 \/ elapsed >= RetryBudget
       THEN Return("llm_error")
       ELSE LET delay == Smaller(retry_delay, RetryBudget - elapsed) IN
            /\ elapsed' \in {elapsed + delay - 1, elapsed + delay}
            /\ retry_delay' = Smaller(2 * retry_delay, RetryMax)
            /\ retry' = retry + 1
            /\ pc' = "attempt" /\ UNCHANGED outcome
    /\ UNCHANGED <<time, limiter, s_http_gate>>

\* Only an answered request is recorded.
Record == /\ At("answered")
          /\ ratelimit_record_request
          /\ pc' = "parse"
          /\ UNCHANGED <<outcome, loop, s_http_gate>>

-----------------------------------------------------------------------------
(* llm_request *)

\* The gate is free for this request, now or at some time of the wait.
GateTaken == /\ At("gate") /\ s_http_gate = "free"
             /\ s_http_gate' = "llm"
             /\ elapsed' \in {elapsed, elapsed + GateWait}
             /\ pc' = "client"
             /\ UNCHANGED <<time, limiter, outcome, retry, retry_delay>>

\* Another user of the gate (telegram_poll, telegram_flush_pending_updates or
\* telegram_send_to_chat) keeps it for longer than the wait.
GateTimesOut == /\ At("gate")
                /\ elapsed' = elapsed + GateWait
                /\ pc' = "failed"
                /\ UNCHANGED <<time, limiter, outcome, retry, retry_delay, s_http_gate>>

\* Mutant: the gate is kept.
ClientInitFailsHoldingGate ==
    /\ At("client")
    /\ pc' = "failed"
    /\ UNCHANGED <<time, limiter, outcome, loop, s_http_gate>>

\* esp_http_client_init finds no memory.
ClientInitFails == /\ At("client")
                   /\ s_http_gate' = "free"
                   /\ pc' = "failed"
                   /\ UNCHANGED <<time, limiter, outcome, loop>>

\* esp_http_client_perform, its status, and whether http_event_handler found
\* room for all of the body: an answer is a complete body with status 200.
Perform ==
    /\ At("client")
    /\ \E t \in HttpTimes, arrived, ok, truncated \in BOOLEAN :
          /\ elapsed' = elapsed + t
          /\ pc' = IF arrived /\ ok /\ ~truncated THEN "answered" ELSE "failed"
    /\ s_http_gate' = "free"
    /\ UNCHANGED <<time, limiter, outcome, retry, retry_delay>>

-----------------------------------------------------------------------------
(* json_parse_response, for both formats. Of a message the agent uses one tool  *)
(* call, whatever stands beside it, or else the text. An error object in a     *)
(* response of status 200 is answered like a text.                             *)

Parsed(body) == CASE body \in {"no JSON", "no message"}    -> "parse_error"
                  [] body \in {"error object", "only text"} -> "text"
                  [] body = "tool call"                     -> "call"

Parse == /\ At("parse")
         /\ \E body \in {"no JSON", "no message", "error object", "only text",
                         "tool call"} : Return(Parsed(body))
         /\ UNCHANGED <<time, limiter, s_http_gate>>

-----------------------------------------------------------------------------
Clock == /\ Tick \/ Sync
         /\ UNCHANGED <<config, request, s_http_gate>>

Restart == /\ LimiterRestarts
           /\ pc' = "idle" /\ outcome' = "none"
           /\ retry' = 0 /\ retry_delay' = RetryBase /\ elapsed' = 0
           /\ s_http_gate' = "free"
           /\ UNCHANGED config

AgentStep == \/ CheckRate \/ BudgetSpent \/ Attempt \/ AfterFailure \/ Record
             \/ GateTaken \/ GateTimesOut \/ ClientInitFails \/ Perform \/ Parse

Next == AgentStep \/ Clock \/ Restart

Spec == Init /\ [][Next]_vars

-----------------------------------------------------------------------------
(* Properties *)

LongestAttempt == GateWait + CHOOSE t \in HttpTimes : \A u \in HttpTimes : u <= t

\* Every variable stays in its range; the agent holds the gate only while it has
\* an HTTP client, and gives it back on every path out of llm_request.
TypeOK ==
    /\ now \in 0..MaxTime /\ clock \in 0..(Epoch + MaxTime)
    /\ synced \in BOOLEAN /\ restarts \in 0..MaxRestarts
    /\ s_requests_this_hour \in Nat /\ s_requests_today \in Nat
    /\ {s_last_hour, s_last_day, s_last_year} \subseteq Nat \cup {Unset}
    /\ nvs \in [{"daily", "day", "year"} -> Nat \cup {Unset}]
    /\ made \in Nat /\ intact \in BOOLEAN /\ calls \in [Ages -> Nat]
    /\ s_backend \in {"anthropic", "openai", "openrouter", "ollama"}
    /\ s_api_key \in BOOLEAN
    /\ pc \in {"idle", "attempt", "gate", "client", "failed", "answered", "parse"}
    /\ outcome \in {"none", "hour_spent", "day_spent", "llm_error", "parse_error",
                    "text", "call"}
    /\ retry \in 0..(LlmMaxRetries - 1) /\ retry_delay \in Nat /\ elapsed \in Nat
    /\ s_http_gate \in {"free", "llm"}
    /\ s_http_gate = "llm" <=> pc = "client"

\* As long as the limiter's flash writes of a day succeed, the daily limit is
\* exact across restarts: no more requests than the limit are recorded in a day of
\* the clock, and one is refused for the day only when the limit was reached in it.
\* A day ends here when the limiter sees another: also when it is asked before NTP
\* has set the clock, which is how a restart makes a day's count start over. Only
\* answered requests are recorded: failed attempts are not, and neither is one that
\* a restart cuts off before its record.
DailyLimitOverRestarts ==
    intact => /\ made <= MaxPerDay
              /\ outcome = "day_spent" /\ window = <<Day, Year>> => made = MaxPerDay

\* The requests of the last a + 1 ticks, for each a.
CallsWithin(c) == LET sum[a \in Ages] == IF a = 0 THEN c[0] ELSE c[a] + sum[a - 1]
                  IN  sum

\* How long ago the hour of the clock began.
SinceHour == clock % TicksPerHour

\* Within an hour of the clock, while nobody sets it, no more requests than the
\* limit are recorded, though the limit is checked before a request that may take
\* minutes and ends in another hour than it began.
HourlyLimit == CallsWithin(calls)[SinceHour] <= MaxPerHour

\* config.h:327 speaks of any sixty minutes. What the code keeps is twice the limit
\* there, half of it on either side of a full hour.
TwicePerHourAtMost == CallsWithin(calls)[TicksPerHour - 1] <= 2 * MaxPerHour

\* No attempt begins once the retry budget is spent, so the loop takes at most
\* the budget and one attempt more, however long that takes, and the sleeps fit
\* into the budget.
RetryBudgetKept == elapsed <= RetryBudget + LongestAttempt
=============================================================================
