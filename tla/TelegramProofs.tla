--------------------------- MODULE TelegramProofs ---------------------------
(***************************************************************************)
(* Proofs about the Telegram channel, for every kind of traffic, every      *)
(* queue length, streak and bound: the type invariant with the ownership of *)
(* the HTTP gate, that a turn meets one late message at most, that a synced *)
(* restart brings no backlog back, and that the channel is a mailbox.       *)
(*                                                                          *)
(* Acknowledged says that an offset never passes a text that was neither    *)
(* read nor discarded; Asked ties the response in hand to the offset that   *)
(* asked for it.                                                            *)
(***************************************************************************)
EXTENDS Telegram, TLAPS

\* TypeOK in three parts, as the provers take sequences with numbers, sets, and
\* Booleans apart.
Ranges == /\ updates \in Seq(Kinds) /\ Len(updates) <= MaxUpdates
          /\ forgotten \in 0..Len(updates) /\ s_last_update_id \in 0..Len(updates)
          /\ s_stale_only_poll_streak \in 0..ResyncStreak
          /\ response \in 0..Len(updates)
          /\ agent_queue \in 0..QueueLength /\ arrivals \in 0..MaxUpdates
          /\ replays \in 0..MaxReplays /\ restarts \in 0..MaxRestarts

Phases == /\ task \in Tasks
          /\ s_http_gate \in {"free", "poll", "send", "llm"}
          /\ s_http_gate = "poll" <=> task \in {"request", "startup_flush", "resync_flush"}
          /\ s_http_gate = "llm" <=> agent = "llm"
          /\ agent \in {"idle", "turn", "llm"}
          /\ s_poll_pause_count = IF agent = "idle" THEN 0 ELSE 1

Fates == /\ read \subseteq Updates /\ read_now \subseteq read /\ excused \subseteq Updates
         /\ cooldown \in BOOLEAN /\ synced \in BOOLEAN

\* While a poll that began before the turn is under way, nothing arrived in it.
LatePoll == /\ arrivals <= 1
            /\ agent # "idle" /\ task \in {"gate", "request", "parse"} => arrivals = 0

\* A response is an update the Bot API had forgotten and replays, or the first
\* one that it has not forgotten, and then that one is new to the device.
Asked == task = "parse" /\ response # 0 =>
            \/ response <= forgotten /\ updates[response] \in Replayed /\ replays > 0
            \/ response = forgotten + 1 /\ s_last_update_id <= forgotten

\* Every text that is forgotten or acknowledged was read or excused.
Acknowledged == \A i \in Updates :
                   /\ updates[i] = "text"
                   /\ i <= forgotten \/ i <= s_last_update_id
                   => i \in read \cup excused

\* After a flush at start-up the updates that were read are below the offset, or
\* forgotten, and come again by a replay only.
Synced == synced /\ replays = 0 =>
             \A i \in read : i <= s_last_update_id \/ i <= forgotten

\* What was read since the restart is acknowledged, if no long update is replayed.
InOrder == "long" \notin Replayed => \A i \in read_now : i <= s_last_update_id

IInv == /\ Ranges /\ Phases /\ Fates
        /\ LatePoll /\ Asked /\ Acknowledged /\ Synced /\ InOrder

-----------------------------------------------------------------------------
\* TypeOK is its three parts together.
LEMMA TypeParts == TypeOK <=> Ranges /\ Phases /\ Fates
BY DEF TypeOK, Ranges, Phases, Fates

\* The initial state satisfies the invariant.
LEMMA InitIInv == Init => IInv
<1> USE TelegramAssumption DEF Init
<1>0. Init => Fates BY DEF Fates
<1>1. Init => Ranges BY DEF Ranges
<1>2. Init => Phases /\ LatePoll BY DEF Phases, Tasks, LatePoll
<1>3. Init => Asked /\ Acknowledged BY DEF Asked, Acknowledged, Updates
<1>4. Init => Synced /\ InOrder BY DEF Synced, InOrder
<1> QED BY <1>0, <1>1, <1>2, <1>3, <1>4 DEF IInv

\* Sending appends an update and leaves the others where they are.
LEMMA UserSendsKeeps == ASSUME IInv, NEW k \in Kinds, UserSends(k) PROVE IInv'
<1> USE TelegramAssumption DEF UserSends, poll, agents, fates, IInv
<1>0. /\ Len(updates') = Len(updates) + 1
      /\ \A i \in 1..Len(updates) : updates'[i] = updates[i]
      /\ updates' \in Seq(Kinds)
      /\ Updates = 1..Len(updates) /\ Updates' = 1..(Len(updates) + 1)
  BY DEF Ranges, Updates
<1>1. Ranges' BY <1>0 DEF Ranges
<1>2. Phases' BY DEF Phases, Tasks
<1>3. Fates' BY <1>0 DEF Fates
<1>4. LatePoll' BY DEF LatePoll
<1>5. Asked' BY <1>0 DEF Asked, Ranges
<1>6. Acknowledged' BY <1>0 DEF Acknowledged, Ranges
<1>7. Synced' BY DEF Synced
<1>8. InOrder' BY DEF InOrder
<1> QED BY <1>1, <1>2, <1>3, <1>4, <1>5, <1>6, <1>7, <1>8

\* A restart forgets what the device kept in RAM.
LEMMA RestartKeeps == ASSUME IInv, Restart PROVE IInv'
<1> USE TelegramAssumption DEF Restart, bot_api, IInv
<1>1. Ranges' BY DEF Ranges
<1>2. Phases' BY DEF Phases, Tasks
<1>3. Fates' BY DEF Fates, Updates
<1>4. LatePoll' /\ Asked' /\ Synced' /\ InOrder' BY DEF LatePoll, Asked, Synced, InOrder
<1>5. Acknowledged' BY DEF Acknowledged, Ranges, Updates
<1> QED BY <1>1, <1>2, <1>3, <1>4, <1>5

\* Steps that leave the updates, their fates, the offset and the response alone.
LEMMA OffsetKept ==
    ASSUME IInv, UNCHANGED <<bot_api, s_last_update_id, response, fates, synced>>,
           task' = "parse" => task = "parse"
    PROVE  Asked' /\ Acknowledged' /\ Synced' /\ InOrder'
BY DEF IInv, Asked, Acknowledged, Synced, InOrder, bot_api, fates, Updates

\* The agent's turns and the other users of the gate.
LEMMA OthersKeep == ASSUME IInv, CooldownEnds \/ AgentTask \/ SendTask PROVE IInv'
<1> USE TelegramAssumption DEF bot_api, poll, agents, fates
<1>1. UNCHANGED <<bot_api, s_last_update_id, response, fates, synced, task>>
  BY DEF CooldownEnds, AgentTask, TurnBegins, LlmRequest, LlmResponse, TurnEnds, TakeCommand,
         SendTask, SendBegins, SendEnds
<1>2. Asked' /\ Acknowledged' /\ Synced' /\ InOrder' BY <1>1, OffsetKept
<1>3. CASE CooldownEnds
  BY <1>2, <1>3 DEF CooldownEnds, IInv, Ranges, Phases, Fates, LatePoll, Updates
<1>4. CASE TurnBegins
  <2> USE <1>4 DEF TurnBegins, IInv
  <2>1. agent_queue' \in 0..QueueLength BY DEF Ranges, Larger
  <2>2. Ranges' BY <2>1 DEF Ranges
  <2>3. Phases' /\ LatePoll' BY DEF Phases, Ranges, LatePoll
  <2>4. Fates' BY DEF Fates, Updates
  <2> QED BY <1>2, <2>2, <2>3, <2>4
<1>5. CASE LlmRequest \/ LlmResponse \/ TurnEnds
  <2>1. UNCHANGED <<bot_api, poll, task, response, agent_queue, arrivals, fates, synced, restarts>>
    BY <1>5 DEF LlmRequest, LlmResponse, TurnEnds
  <2>2. Ranges' /\ Fates' BY <2>1 DEF IInv, Ranges, Fates, Updates
  <2>3. Phases' BY <1>5 DEF LlmRequest, LlmResponse, TurnEnds, IInv, Phases
  <2>4. LatePoll'
    BY <1>5, <2>1 DEF LlmRequest, LlmResponse, TurnEnds, IInv, LatePoll
  <2> QED BY <1>2, <2>2, <2>3, <2>4 DEF IInv
<1>6. CASE TakeCommand
  <2> USE <1>6 DEF TakeCommand, IInv
  <2>1. Ranges' BY DEF Ranges
  <2>2. Phases' /\ LatePoll' BY DEF Phases, LatePoll
  <2>3. Fates' BY DEF Fates, Updates
  <2> QED BY <1>2, <2>1, <2>2, <2>3
<1>7. CASE SendBegins \/ SendEnds
  <2> USE <1>7 DEF SendBegins, SendEnds, IInv
  <2>1. Ranges' BY DEF Ranges
  <2>2. Phases' /\ LatePoll' BY DEF Phases, LatePoll
  <2>3. Fates' BY DEF Fates, Updates
  <2> QED BY <1>2, <2>1, <2>2, <2>3
<1> QED BY <1>3, <1>4, <1>5, <1>6, <1>7 DEF AgentTask, SendTask

\* The poll task up to the request.
LEMMA RequestKeeps ==
    ASSUME IInv, PollUnlessPaused \/ GateBusy \/ GateTaken PROVE IInv'
<1> USE TelegramAssumption DEF bot_api, poll, agents, fates
<1>1. UNCHANGED <<bot_api, poll, response, agents, fates, synced, restarts>> /\ task' # "parse"
  BY DEF PollUnlessPaused, GateBusy, GateTaken
<1>2. Asked' /\ Acknowledged' /\ Synced' /\ InOrder' BY <1>1, OffsetKept
<1>3. Ranges' /\ Fates' BY <1>1 DEF IInv, Ranges, Fates, Updates
<1>4. Phases' /\ LatePoll'
  BY DEF IInv, Phases, Tasks, LatePoll, PollUnlessPaused, GateBusy, GateTaken
<1> QED BY <1>2, <1>3, <1>4 DEF IInv

\* A poll whose response is lost may acknowledge what its offset says.
LEMMA PollFailsKeeps == ASSUME IInv, PollFails PROVE IInv'
<1> USE TelegramAssumption DEF PollFails, IInv, poll, agents, fates, next_offset
<1>1. /\ forgotten' \in 0..Len(updates) /\ forgotten <= forgotten'
      /\ forgotten' = forgotten \/ forgotten' = s_last_update_id
  BY DEF Ranges, Larger
<1>2. Ranges' BY <1>1 DEF Ranges
<1>3. Phases' /\ LatePoll' BY DEF Phases, Tasks, LatePoll
<1>4. Fates' BY DEF Fates, Updates
<1>5. Asked' BY DEF Asked
<1>6. Acknowledged' BY <1>1 DEF Acknowledged, Updates, Ranges
<1>7. Synced' BY <1>1 DEF Synced, Ranges, Fates, Updates
<1>8. InOrder' BY DEF InOrder
<1> QED BY <1>2, <1>3, <1>4, <1>5, <1>6, <1>7, <1>8

\* The Bot API forgets what the offset acknowledges and answers with the next.
LEMMA PollAnsweredKeeps == ASSUME IInv, PollAnswered PROVE IInv'
<1> USE TelegramAssumption DEF PollAnswered, IInv, poll, agents, fates, next_offset
<1>1. /\ forgotten' \in 0..Len(updates) /\ s_last_update_id <= forgotten'
      /\ forgotten <= forgotten'
      /\ forgotten' = forgotten \/ forgotten' = s_last_update_id
      /\ response' \in {0, forgotten' + 1} /\ response' \in 0..Len(updates)
  BY DEF Ranges, Larger
<1>2. Ranges' BY <1>1 DEF Ranges
<1>3. Phases' /\ LatePoll' BY DEF Phases, Tasks, LatePoll
<1>4. Fates' BY DEF Fates, Updates
<1>5. Asked' BY <1>1 DEF Asked
<1>6. Acknowledged' BY <1>1 DEF Acknowledged, Updates, Ranges
<1>7. Synced' BY <1>1 DEF Synced, Ranges, Fates, Updates
<1>8. InOrder' BY DEF InOrder
<1> QED BY <1>2, <1>3, <1>4, <1>5, <1>6, <1>7, <1>8

\* The Bot API returns what it has forgotten.
LEMMA PollReplayedKeeps == ASSUME IInv, PollReplayed PROVE IInv'
<1> USE TelegramAssumption DEF PollReplayed, IInv, poll, agents, fates
<1>1. /\ response' \in 1..forgotten /\ updates[response'] \in Replayed /\ replays' > 0
      /\ replays' \in 0..MaxReplays
  BY DEF Ranges
<1>2. Ranges' BY <1>1 DEF Ranges
<1>3. Phases' /\ LatePoll' BY DEF Phases, Tasks, LatePoll
<1>4. Fates' BY DEF Fates, Updates
<1>5. Asked' BY <1>1 DEF Asked, Ranges
<1>6. Acknowledged' BY DEF Acknowledged, Updates
<1>7. Synced' BY <1>1 DEF Synced, Ranges
<1>8. InOrder' BY DEF InOrder
<1> QED BY <1>2, <1>3, <1>4, <1>5, <1>6, <1>7, <1>8

\* Responses without an update, and those that are skipped as stale.
LEMMA NothingNewKeeps == ASSUME IInv, NoUpdate \/ SkipStale PROVE IInv'
<1> USE TelegramAssumption DEF Parsed, bot_api, fates
<1>1. /\ task = "parse" /\ task' \in {"check", "resync"} /\ response' = 0
      /\ UNCHANGED <<bot_api, s_http_gate, agent, agent_queue, arrivals, s_poll_pause_count,
                     s_last_update_id, fates, synced, restarts>>
  BY DEF NoUpdate, SkipStale
<1>2. s_stale_only_poll_streak' \in 0..ResyncStreak
  BY DEF NoUpdate, SkipStale, IInv, Ranges
<1>0. cooldown' \in BOOLEAN BY DEF NoUpdate, SkipStale, IInv, Fates
<1>3. Ranges' BY <1>1, <1>2 DEF IInv, Ranges
<1>4. Phases' /\ LatePoll' BY <1>1 DEF IInv, Phases, Tasks, LatePoll
<1>5. Fates' BY <1>1, <1>0 DEF IInv, Fates, Updates
<1>6. Asked' /\ Acknowledged' /\ Synced' /\ InOrder'
  BY <1>1 DEF IInv, Asked, Acknowledged, Updates, Synced, InOrder
<1> QED BY <1>3, <1>4, <1>5, <1>6 DEF IInv

\* The update in hand is either new to the device or a replay; what precedes it
\* and is not acknowledged is forgotten.
LEMMA InHand ==
    ASSUME IInv, task = "parse", response # 0
    PROVE  /\ response \in Updates
           /\ replays = 0 => response = forgotten + 1 /\ s_last_update_id <= forgotten
           /\ \A i \in Updates : i < response => i <= forgotten
           /\ updates[response] \notin Replayed => s_last_update_id < response
BY DEF IInv, Asked, Ranges, Updates

\* A long update is excused and becomes the offset, whatever the offset was.
LEMMA TruncatedKeeps == ASSUME IInv, Truncated PROVE IInv'
<1> USE TelegramAssumption DEF Truncated, Parsed, IInv, bot_api
<1>1. /\ response \in Updates
      /\ replays = 0 => response = forgotten + 1 /\ s_last_update_id <= forgotten
      /\ \A i \in Updates : i < response => i <= forgotten
      /\ "long" \notin Replayed => s_last_update_id < response
  BY InHand
<1>2. Ranges' BY <1>1 DEF Ranges, Updates
<1>3. Phases' /\ LatePoll' BY DEF Phases, Tasks, LatePoll
<1>4. Fates' BY <1>1 DEF Fates, Updates
<1>5. Asked' BY DEF Asked
<1>6. Acknowledged'
  <2> SUFFICES ASSUME NEW i \in Updates, updates[i] = "text",
                      i <= forgotten \/ i <= response
               PROVE  i \in read \cup (excused \cup {response})
    BY DEF Acknowledged, Updates
  <2>1. CASE i = response BY <2>1
  <2>2. CASE i # response BY <1>1, <2>2 DEF Acknowledged, Ranges, Updates
  <2> QED BY <2>1, <2>2
<1>7. Synced' BY <1>1 DEF Synced, Ranges, Fates, Updates
<1>8. InOrder' BY <1>1 DEF InOrder, Ranges, Fates, Updates
<1> QED BY <1>2, <1>3, <1>4, <1>5, <1>6, <1>7, <1>8

\* A new update: the offset grows to it, and a text is read or excused.
LEMMA AcceptKeeps == ASSUME IInv, Accept PROVE IInv'
<1> USE TelegramAssumption DEF Accept, Parsed, Stale, IInv, bot_api
<1>1. /\ response \in Updates /\ response \in 1..Len(updates)
      /\ replays = 0 => response = forgotten + 1 /\ s_last_update_id <= forgotten
      /\ \A i \in Updates : i < response => i <= forgotten
      /\ s_last_update_id < response
  BY InHand DEF Ranges, Updates
<1>2. CASE updates[response] = "text" /\ agent_queue < QueueLength
  <2>1. /\ agent_queue' = agent_queue + 1
        /\ arrivals' = IF agent = "idle" THEN arrivals ELSE arrivals + 1
        /\ read' = read \cup {response} /\ read_now' = read_now \cup {response}
        /\ excused' = excused
    BY <1>2 DEF HandOver
  <2>2. Ranges' /\ LatePoll' BY <1>1, <1>2, <2>1 DEF Ranges, LatePoll
  <2>3. Phases' BY DEF Phases, Tasks
  <2>4. Fates' BY <1>1, <2>1 DEF Fates, Updates
  <2>5. Asked' BY DEF Asked
  <2>6. Acknowledged' BY <1>1, <2>1 DEF Acknowledged, Ranges, Updates
  <2>7. Synced' BY <1>1, <2>1 DEF Synced, Ranges, Fates, Updates
  <2>8. InOrder' BY <1>1, <2>1 DEF InOrder, Ranges, Fates, Updates
  <2> QED BY <2>2, <2>3, <2>4, <2>5, <2>6, <2>7, <2>8
<1>3. CASE ~(updates[response] = "text" /\ agent_queue < QueueLength)
  <2>1. /\ UNCHANGED <<agent_queue, arrivals, read, read_now>>
        /\ excused' = IF updates[response] = "text" THEN excused \cup {response} ELSE excused
    BY <1>3 DEF HandOver, fates
  <2>2. Ranges' /\ LatePoll' BY <1>1, <2>1 DEF Ranges, LatePoll
  <2>3. Phases' BY DEF Phases, Tasks
  <2>4. Fates' BY <1>1, <2>1 DEF Fates, Updates
  <2>5. Asked' BY DEF Asked
  <2>6. Acknowledged' BY <1>1, <2>1 DEF Acknowledged, Ranges, Updates
  <2>7. Synced' BY <1>1, <2>1 DEF Synced, Ranges, Fates, Updates
  <2>8. InOrder' BY <1>1, <2>1 DEF InOrder, Ranges, Fates, Updates
  <2> QED BY <2>2, <2>3, <2>4, <2>5, <2>6, <2>7, <2>8
<1> QED BY <1>2, <1>3

\* The flushes up to the request.
LEMMA FlushStartsKeep == ASSUME IInv, FlushBegins \/ FlushTimesOut PROVE IInv'
<1> USE TelegramAssumption DEF bot_api, poll, agents, fates
<1>1. /\ UNCHANGED <<bot_api, s_last_update_id, response, agents, fates, synced, restarts,
                     cooldown>>
      /\ task' # "parse" /\ s_stale_only_poll_streak' \in {0, s_stale_only_poll_streak}
  BY DEF FlushBegins, FlushTimesOut
<1>2. Asked' /\ Acknowledged' /\ Synced' /\ InOrder' BY <1>1, OffsetKept
<1>3. Ranges' BY <1>1 DEF IInv, Ranges
<1>4. Fates' BY <1>1 DEF IInv, Fates, Updates
<1>5. Phases' /\ LatePoll'
  BY DEF IInv, Phases, Tasks, LatePoll, FlushBegins, FlushTimesOut
<1> QED BY <1>2, <1>3, <1>4, <1>5 DEF IInv

\* A flush whose response is lost excuses what the Bot API forgot for it.
LEMMA FlushFailsKeeps == ASSUME IInv, FlushFails PROVE IInv'
<1> USE TelegramAssumption DEF FlushFails, Flushing, IInv, agents
<1>1. /\ forgotten' \in 0..Len(updates) /\ forgotten <= forgotten'
      /\ \/ forgotten' = forgotten /\ excused' = excused
         \/ excused' = excused \cup (1..forgotten' \ read)
  BY DEF Ranges, Larger
<1>2. Ranges' BY <1>1 DEF Ranges
<1>3. Phases' /\ LatePoll' BY DEF Phases, Tasks, LatePoll
<1>4. Fates' BY <1>1 DEF Fates, Ranges, Updates
<1>5. Asked' BY DEF Asked
<1>6. Acknowledged' BY <1>1 DEF Acknowledged, Ranges, Updates
<1>7. Synced' BY <1>1 DEF Synced, Ranges, Fates, Updates
<1>8. InOrder' BY DEF InOrder
<1> QED BY <1>2, <1>3, <1>4, <1>5, <1>6, <1>7, <1>8

\* A flush excuses the backlog, and leaves no update between what is forgotten
\* and the offset.
LEMMA FlushKeeps == ASSUME IInv, Flush PROVE IInv'
<1> USE TelegramAssumption DEF Flush, Flushing, IInv, agents
<1>1. /\ forgotten' \in 0..Len(updates) /\ forgotten <= forgotten'
      /\ s_last_update_id' \in 0..Len(updates) /\ s_last_update_id <= s_last_update_id'
      /\ s_last_update_id' = Len(updates) \/ forgotten' = Len(updates)
  BY DEF Ranges, Larger
<1>2. Ranges' BY <1>1 DEF Ranges
<1>3. Phases' /\ LatePoll' BY DEF Phases, Tasks, LatePoll
<1>0. cooldown' \in BOOLEAN /\ synced' \in BOOLEAN BY DEF Fates
<1>4. Fates' BY <1>0 DEF Fates, Updates
<1>5. Asked' BY DEF Asked
<1>6. Acknowledged' BY <1>1 DEF Acknowledged, Updates
<1>7. Synced' BY <1>1 DEF Synced, Ranges, Fates, Updates
<1>8. InOrder' BY <1>1 DEF InOrder, Ranges, Fates, Updates
<1> QED BY <1>2, <1>3, <1>4, <1>5, <1>6, <1>7, <1>8

\* Every step keeps the invariant.
LEMMA NextIInv == IInv /\ [Next]_vars => IInv'
<1> SUFFICES ASSUME IInv, [Next]_vars PROVE IInv' OBVIOUS
<1>1. CASE World \/ AgentTask \/ SendTask
  BY <1>1, UserSendsKeeps, RestartKeeps, OthersKeep DEF World
<1>2. CASE PollTask
  BY <1>2, RequestKeeps, PollFailsKeeps, PollAnsweredKeeps, PollReplayedKeeps,
     NothingNewKeeps, TruncatedKeeps, AcceptKeeps, FlushStartsKeep, FlushFailsKeeps,
     FlushKeeps DEF PollTask, Response
<1>3. CASE UNCHANGED vars
  BY <1>3 DEF vars, bot_api, poll, agents, fates, IInv, Ranges, Phases, Fates, LatePoll,
              Asked, Acknowledged, Synced, InOrder, Updates
<1> QED BY <1>1, <1>2, <1>3 DEF Next

\* The invariant holds in every reachable state.
THEOREM Inductive == Spec => []IInv
BY InitIInv, NextIInv, PTL DEF Spec

-----------------------------------------------------------------------------
\* Every variable stays in its range, polling is paused exactly during turns, and
\* the one HTTP gate is held by the request under way and left by every path.
THEOREM TypeCorrect == Spec => []TypeOK
<1>1. IInv => TypeOK BY TypeParts DEF IInv
<1> QED BY <1>1, Inductive, PTL

\* A turn is interrupted by one message at most, whatever passed the pause check.
THEOREM OneLateMessage == Spec => []OneArrivalPerTurn
<1>1. IInv => OneArrivalPerTurn BY DEF IInv, LatePoll, OneArrivalPerTurn
<1> QED BY <1>1, Inductive, PTL

\* When the start-up flush succeeded, an update of before the restart is accepted
\* again only if the Bot API replays.
THEOREM NoBacklog == Spec => NoBacklogAfterSync
<1>1. IInv /\ Accept /\ response \in read /\ synced => replays > 0
  <2> SUFFICES ASSUME IInv, Accept, response \in read, synced, replays = 0 PROVE FALSE
    BY TelegramAssumption DEF IInv, Ranges
  <2>1. response = forgotten + 1 /\ s_last_update_id <= forgotten
    BY InHand DEF Accept, Parsed
  <2>2. response <= s_last_update_id \/ response <= forgotten BY DEF IInv, Synced
  <2> QED BY <2>1, <2>2 DEF IInv, Ranges
<1>2. IInv /\ [Next]_vars
        => [\A i \in read : Accept /\ response = i /\ synced => replays > 0]_vars
  BY <1>1
<1> QED BY <1>2, Inductive, PTL DEF Spec, NoBacklogAfterSync

-----------------------------------------------------------------------------
(* The refinement: each step of the channel is one of the mailbox, or none *)

\* Accepting an update delivers it, drops it, or says nothing of it.
LEMMA AcceptMaps ==
    ASSUME IInv, Accept, "long" \notin Replayed PROVE [Mailbox!Next]_(Mailbox!mail)
<1> USE DEF Accept, Parsed, Stale, bot_api
<1>1. /\ response \in DOMAIN updates
      /\ \A j \in read_now : j < response
  BY InHand DEF IInv, InOrder, Ranges, Fates, Updates
<1>2. Mailbox!IsNext(response) BY <1>1 DEF Mailbox!IsNext
<1>3. CASE updates[response] = "text" /\ agent_queue < QueueLength
  <2>1. Mailbox!Deliver(response) BY <1>2, <1>3 DEF HandOver, Mailbox!Deliver
  <2> QED BY <1>1, <2>1 DEF Mailbox!Next
<1>4. CASE updates[response] = "text" /\ ~(agent_queue < QueueLength)
  <2>1. Mailbox!Drop(response) BY <1>2, <1>4 DEF HandOver, Mailbox!Drop
  <2> QED BY <1>1, <2>1 DEF Mailbox!Next
<1>5. CASE updates[response] # "text" BY <1>5 DEF fates, Mailbox!mail
<1> QED BY <1>3, <1>4, <1>5

\* Skipping a long update drops it.
LEMMA TruncatedMaps ==
    ASSUME IInv, Truncated, "long" \notin Replayed PROVE Mailbox!Next
<1> USE DEF Truncated, Parsed, bot_api
<1>1. /\ response \in DOMAIN updates
      /\ \A j \in read_now : j < response
  BY InHand DEF IInv, InOrder, Ranges, Fates, Updates
<1>2. Mailbox!Drop(response) BY <1>1 DEF Mailbox!IsNext, Mailbox!Drop
<1> QED BY <1>1, <1>2 DEF Mailbox!Next

\* A poll removes what its offset acknowledges, if that is anything new: an answered
\* one, and one whose response is lost.
LEMMA PollMaps ==
    ASSUME IInv, PollAnswered \/ PollFails PROVE [Mailbox!Next]_(Mailbox!mail)
<1>1. /\ forgotten' \in {forgotten, Larger(forgotten, s_last_update_id)}
      /\ UNCHANGED <<updates, fates>>
  BY DEF PollAnswered, PollFails, next_offset, IInv, Ranges
<1> USE DEF fates
<1>2. CASE forgotten' # forgotten
  <2>1. forgotten' = s_last_update_id /\ s_last_update_id > forgotten
    BY <1>1, <1>2 DEF Larger, IInv, Ranges
  <2>2. \A i \in 1..s_last_update_id : Mailbox!Unneeded(i)
    BY DEF IInv, Acknowledged, Ranges, Updates, Mailbox!Unneeded
  <2>3. Mailbox!Remove(s_last_update_id) BY <1>1, <2>1, <2>2 DEF Mailbox!Remove
  <2> QED BY <2>3 DEF Mailbox!Next, IInv, Ranges
<1>3. CASE forgotten' = forgotten BY <1>1, <1>3 DEF Mailbox!mail
<1> QED BY <1>2, <1>3

\* A flush clears the backlog; of one whose response is lost the Bot API may keep the
\* newest update for the polls.
LEMMA FlushMaps == ASSUME IInv, Flush \/ FlushFails PROVE [Mailbox!Next]_(Mailbox!mail)
<1> DEFINE n == Larger(forgotten, Len(updates) - 1)
<1>1. n \in 0..Len(updates) /\ n >= forgotten /\ Len(updates) \in Nat
  BY DEF IInv, Ranges, Larger
<1>2. UNCHANGED <<updates, read, read_now>> BY DEF Flush, FlushFails, Flushing
<1>3. CASE /\ forgotten' = n
           /\ \E m \in n..Len(updates) : excused' = excused \cup (1..m \ read)
  <2>1. Mailbox!Clear(n) BY <1>1, <1>2, <1>3 DEF Mailbox!Clear
  <2> QED BY <1>1, <2>1 DEF Mailbox!Next
<1>4. CASE UNCHANGED <<forgotten, excused>> BY <1>2, <1>4 DEF Mailbox!mail
<1>5. CASE Flush
  <2>1. Len(updates) \in n..Len(updates) BY <1>1
  <2>2. Updates = 1..Len(updates) BY DEF IInv, Ranges, Updates
  <2>3. forgotten' = n /\ excused' = excused \cup (1..Len(updates) \ read)
    BY <1>5, <2>2 DEF Flush
  <2> QED BY <1>3, <2>1, <2>3
<1>6. CASE FlushFails
  <2>1. n \in n..Len(updates) BY <1>1
  <2>2. \/ UNCHANGED <<forgotten, excused>>
        \/ forgotten' = n /\ excused' = excused \cup (1..n \ read)
    BY <1>6 DEF FlushFails
  <2> QED BY <1>3, <1>4, <2>1, <2>2
<1> QED BY <1>5, <1>6

\* Every step of the channel is a step of the mailbox or leaves it alone.
LEMMA StepMaps ==
    ASSUME IInv, [Next]_vars, "long" \notin Replayed
    PROVE  [Mailbox!Next]_(Mailbox!mail)
<1>1. CASE \E kind \in Kinds : UserSends(kind)
  BY <1>1 DEF UserSends, fates, Mailbox!Post, Mailbox!Next
<1>2. CASE Restart BY <1>2 DEF Restart, bot_api, Mailbox!Restart, Mailbox!Next
<1>3. CASE CooldownEnds \/ AgentTask \/ SendTask
  BY <1>3 DEF CooldownEnds, AgentTask, TurnBegins, LlmRequest, LlmResponse, TurnEnds,
              TakeCommand, SendTask, SendBegins, SendEnds, bot_api, fates, Mailbox!mail
<1>4. CASE PollUnlessPaused \/ GateBusy \/ GateTaken \/ PollReplayed
  BY <1>4 DEF PollUnlessPaused, GateBusy, GateTaken, PollReplayed, bot_api, fates, Mailbox!mail
<1>5. CASE NoUpdate \/ SkipStale \/ FlushBegins \/ FlushTimesOut
  BY <1>5 DEF NoUpdate, SkipStale, Parsed, FlushBegins, FlushTimesOut, bot_api, fates,
              Mailbox!mail
<1>6. CASE PollAnswered \/ PollFails \/ Truncated \/ Accept \/ Flush \/ FlushFails
  BY <1>6, PollMaps, TruncatedMaps, AcceptMaps, FlushMaps
<1>7. CASE UNCHANGED vars BY <1>7 DEF vars, bot_api, fates, Mailbox!mail
<1> QED BY <1>1, <1>2, <1>3, <1>4, <1>5, <1>6, <1>7 DEF Next, World, PollTask, Response

\* The channel is a mailbox: texts reach the agent in their order and once between
\* two restarts, and the Bot API is told to forget none that was neither read nor
\* excused. The one condition is on the Bot API: an update that it replays after it
\* was told to forget it is none of the long ones, whose id becomes the offset even
\* when it is older than the offset.
THEOREM Refinement == ASSUME "long" \notin Replayed PROVE Spec => ImplementsMailbox
<1>1. Init => Mailbox!Init BY DEF Init, Mailbox!Init
<1>2. IInv /\ [Next]_vars => [Mailbox!Next]_(Mailbox!mail) BY StepMaps
<1> QED BY <1>1, <1>2, Inductive, PTL DEF Spec, ImplementsMailbox, Mailbox!Spec

=============================================================================
