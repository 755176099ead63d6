------------------------------- MODULE Serial -------------------------------
(***************************************************************************)
(* The serial channel of main/channel.c in a build with                     *)
(* CONFIG_ZCLAW_EMULATOR_LIVE_LLM, where one line carries what the user     *)
(* types, what the device prints, and the requests to the LLM and their     *)
(* answers, which scripts/qemu_live_llm_bridge.py makes at the other end.   *)
(* In other builds the reader has no bridge line and is Line alone.         *)
(*                                                                          *)
(* A response prefix has two bytes, "p" and "q", and an answer's body is    *)
(* bytes "x". A byte is known by what it is and by who sent it: 0 is the    *)
(* user, and n the answer to the n-th request. No text typed or printed is  *)
(* itself a prefix, no byte is lost between the UARTs, and whether the      *)
(* agent's queue has room for a line is module Agent's.                     *)
(***************************************************************************)
EXTENDS Integers, Sequences, FiniteSets

CONSTANTS
    LineMax,       \* CHANNEL_RX_BUF_SIZE - 1
    PayloadMax,    \* LLM_RESPONSE_BUF_SIZE - 1
    UserBytes,     \* what a user types
    AnswerLengths,
    MaxRequests, MaxTyped, MaxOutputs   \* bounds

ASSUME SerialAssumption ==
    /\ LineMax \in Nat \ {0} /\ PayloadMax \in Nat \ {0}
    /\ UserBytes \subseteq {"a", "p", "backspace", "newline"}
    /\ AnswerLengths \subseteq Nat
    /\ MaxRequests \in Nat /\ MaxTyped \in Nat /\ MaxOutputs \in Nat

VARIABLES
    wire,                   \* bytes to the device, each with its sender
    line_buf, held_echo_len, prefix_check_active, bridge_line,
    bridge_payload_pos, bridge_payload_truncated,
    s_llm_bridge_payload, s_llm_bridge_queue,
    exchange,               \* where the agent is in channel_llm_bridge_exchange
    requests,               \* exchanges begun
    resp, outcome,          \* what the last one received and returned
    mode,                   \* the bridge's view of the device's output
    writer,                 \* the write task, between its texts and newlines
    pending, requested,     \* the bridge's request in hand, and those not yet read
    buffered, flushing,     \* the user's bytes held back meanwhile
    typed, spoilt,          \* the user's line, as edited, and whether it was cut short
    message,                \* the last line the user ended
    timeouts, keys, outputs

reader == <<line_buf, held_echo_len, prefix_check_active, bridge_line,
            bridge_payload_pos, bridge_payload_truncated, s_llm_bridge_payload>>
agent == <<exchange, requests, resp, outcome, timeouts>>
bridge == <<pending, buffered, flushing>>
output == <<mode, requested, writer, outputs>>
user == <<typed, spoilt, message>>
vars == <<wire, reader, s_llm_bridge_queue, agent, bridge, output, user, keys>>

Prefix == <<"p", "q">>
NoMessage == [offered |-> <<>>, typed |-> <<>>, spoilt |-> FALSE]
Sent(bytes, sender) == [i \in DOMAIN bytes |-> [byte |-> bytes[i], from |-> sender]]

Init ==
    /\ wire = <<>>
    /\ line_buf = <<>> /\ held_echo_len = 0
    /\ prefix_check_active = TRUE /\ bridge_line = FALSE
    /\ bridge_payload_pos = 0 /\ bridge_payload_truncated = FALSE
    /\ s_llm_bridge_payload = [i \in 1..PayloadMax |-> 0]
    /\ s_llm_bridge_queue = <<>>
    /\ exchange = "idle" /\ requests = 0 /\ resp = <<>> /\ outcome = <<>>
    /\ mode = "detect" /\ writer = "idle"
    /\ pending = 0 /\ requested = <<>> /\ buffered = <<>> /\ flushing = <<>>
    /\ typed = <<>> /\ spoilt = FALSE
    /\ message = NoMessage
    /\ timeouts = 0 /\ keys = 0 /\ outputs = 0

-----------------------------------------------------------------------------
(* What the bridge makes of the device's output. It looks for a request only at *)
(* the start of a line; all that follows up to the newline is the request.     *)

PrintText == /\ mode' = IF mode = "detect" THEN "passthrough" ELSE mode
             /\ UNCHANGED requested

PrintNewline == /\ mode' = "detect"
                /\ requested' = IF mode = "suppress_req" THEN Append(requested, requests)
                                ELSE requested

PrintPrefix == /\ mode' = IF mode = "detect" THEN "suppress_req" ELSE mode
               /\ UNCHANGED requested

PrintNothing == UNCHANGED <<mode, requested>>

-----------------------------------------------------------------------------
(* channel_read_task: one action per kind of byte. The user's line is followed  *)
(* alongside, from one newline of the user's to the next.                     *)

Next1 == Head(wire).byte
Read(kind) == /\ wire # <<>> /\ Next1 \in kind
              /\ wire' = Tail(wire)
              /\ UNCHANGED <<agent, bridge, writer, outputs, keys>>

Text == {"a", "p", "q", "x"}
FromUser == Head(wire).from = 0

\* A line of the buffer's size: what is typed beyond it is dropped.
Fits(line) == SubSeq(line, 1, IF Len(line) < LineMax THEN Len(line) ELSE LineMax)
Held == SubSeq(Prefix, 1, held_echo_len)

\* A line editor's own idea of the user's bytes, in the order in which they reach
\* the device. The line is spoilt once it was longer than the buffer, or the newline
\* of an answer has ended a part of it.
UserTypes(byte) ==
    /\ typed' = IF FromUser THEN Append(typed, byte) ELSE typed
    /\ spoilt' = (spoilt \/ Len(typed') > LineMax)
    /\ message' = IF FromUser THEN NoMessage ELSE message
UserErases ==
    /\ typed' = SubSeq(typed, 1, Len(typed) - 1)
    /\ message' = NoMessage
    /\ UNCHANGED spoilt
UserEnds(offered) ==
    /\ typed' = <<>> /\ spoilt' = FALSE
    /\ message' = [offered |-> offered, typed |-> typed, spoilt |-> spoilt]
AnswerEnds ==
    /\ spoilt' = (spoilt \/ typed # <<>>)
    /\ UNCHANGED <<typed, message>>
LineEnds(offered) == IF FromUser THEN UserEnds(offered) ELSE AnswerEnds

LineStarts == /\ line_buf' = <<>> /\ held_echo_len' = 0
              /\ prefix_check_active' = TRUE /\ bridge_line' = FALSE
              /\ bridge_payload_pos' = 0 /\ bridge_payload_truncated' = FALSE
              /\ UNCHANGED s_llm_bridge_payload

SamePayload == UNCHANGED <<bridge_line, bridge_payload_pos, bridge_payload_truncated,
                           s_llm_bridge_payload>>

\* The end of an answer: its length replaces any that was not collected. It is
\* known here during which exchange it came.
EndBridgeLine ==
    /\ bridge_line /\ Read({"newline"})
    /\ s_llm_bridge_queue' = <<[len |-> bridge_payload_pos,
                                truncated |-> bridge_payload_truncated,
                                during |-> IF exchange = "idle" THEN 0 ELSE requests]>>
    /\ LineStarts
    /\ PrintNothing
    /\ UNCHANGED user

\* Mutant: the start of a prefix that has been held back is not put into the line.
EndLineWithoutHeld ==
    /\ ~bridge_line /\ Read({"newline"})
    /\ LineStarts
    /\ IF line_buf # <<>> THEN PrintNewline ELSE PrintNothing
    /\ LineEnds(line_buf)
    /\ UNCHANGED s_llm_bridge_queue

\* The end of a line: the held bytes were not an answer's, and the line is a
\* message for the agent unless it is empty.
EndLine ==
    /\ ~bridge_line /\ Read({"newline"})
    /\ LineStarts
    /\ LET line == Fits(line_buf \o Held) IN
       /\ IF line # <<>> THEN PrintNewline ELSE PrintNothing
       /\ LineEnds(line)
    /\ UNCHANGED s_llm_bridge_queue

\* A backspace takes back a held byte or one of the line. An answer has none.
Backspace ==
    /\ ~bridge_line /\ Read({"backspace"})
    /\ \/ /\ held_echo_len > 0
          /\ held_echo_len' = held_echo_len - 1
          /\ PrintText /\ UNCHANGED line_buf
       \/ /\ held_echo_len = 0 /\ line_buf # <<>>
          /\ line_buf' = SubSeq(line_buf, 1, Len(line_buf) - 1)
          /\ PrintText /\ UNCHANGED held_echo_len
       \/ /\ held_echo_len = 0 /\ line_buf = <<>>
          /\ PrintNothing /\ UNCHANGED <<line_buf, held_echo_len>>
    /\ UserErases /\ SamePayload
    /\ UNCHANGED <<prefix_check_active, s_llm_bridge_queue>>

BridgeByte ==
    /\ bridge_line /\ Read(Text)
    /\ IF bridge_payload_pos < PayloadMax
       THEN /\ bridge_payload_pos' = bridge_payload_pos + 1
            /\ s_llm_bridge_payload' = [s_llm_bridge_payload EXCEPT ![bridge_payload_pos + 1] =
                                                        Head(wire).from]
            /\ UNCHANGED bridge_payload_truncated
       ELSE /\ bridge_payload_truncated' = TRUE
            /\ UNCHANGED <<bridge_payload_pos, s_llm_bridge_payload>>
    /\ PrintNothing
    /\ UNCHANGED <<line_buf, held_echo_len, prefix_check_active, bridge_line,
                   s_llm_bridge_queue, user>>

NextOfPrefix == prefix_check_active /\ Next1 = Prefix[held_echo_len + 1]

\* A byte of the prefix is held back, until it is all there.
PrefixByte ==
    /\ ~bridge_line /\ wire # <<>> /\ NextOfPrefix /\ Read(Text)
    /\ held_echo_len' = held_echo_len + 1
    /\ IF held_echo_len' = Len(Prefix)
       THEN /\ bridge_line' = TRUE /\ prefix_check_active' = FALSE
            /\ bridge_payload_pos' = 0 /\ bridge_payload_truncated' = FALSE
            /\ UNCHANGED s_llm_bridge_payload
       ELSE SamePayload /\ UNCHANGED prefix_check_active
    /\ PrintNothing /\ UserTypes(Next1)
    /\ UNCHANGED <<line_buf, s_llm_bridge_queue>>

\* Mutant: the line's end is not looked at.
LineByteUnbounded ==
    /\ ~bridge_line /\ wire # <<>> /\ ~NextOfPrefix /\ Read(Text)
    /\ line_buf' = line_buf \o Held \o <<Next1>>
    /\ held_echo_len' = 0 /\ prefix_check_active' = FALSE
    /\ SamePayload
    /\ PrintText /\ UserTypes(Next1)
    /\ UNCHANGED s_llm_bridge_queue

\* Any other byte of a line, after the bytes that were held back.
LineByte ==
    /\ ~bridge_line /\ wire # <<>> /\ ~NextOfPrefix /\ Read(Text)
    /\ line_buf' = Fits(Fits(line_buf \o Held) \o <<Next1>>)
    /\ held_echo_len' = 0 /\ prefix_check_active' = FALSE
    /\ SamePayload
    /\ PrintText /\ UserTypes(Next1)
    /\ UNCHANGED s_llm_bridge_queue

-----------------------------------------------------------------------------
(* channel_write_task: a text, and the newlines that end it. *)

Write == /\ writer = "idle" /\ outputs < MaxOutputs
         /\ writer' = "text" /\ outputs' = outputs + 1
         /\ PrintText
         /\ UNCHANGED <<wire, reader, s_llm_bridge_queue, agent, bridge, user, keys>>

WriteNewlines == /\ writer = "text"
                 /\ writer' = "idle"
                 /\ PrintNewline
                 /\ UNCHANGED <<wire, reader, s_llm_bridge_queue, agent, bridge, outputs,
                                user, keys>>

-----------------------------------------------------------------------------
(* channel_llm_bridge_exchange. Its three writes are the device's output among *)
(* others'.                                                                   *)

Agent(from, to) == /\ exchange = from /\ exchange' = to
                   /\ UNCHANGED <<wire, reader, bridge, writer, outputs, user, keys>>

\* Mutant: the queue is not emptied.
BeginUnreset ==
    /\ requests < MaxRequests
    /\ Agent("idle", "prefix")
    /\ requests' = requests + 1 /\ outcome' = <<>> /\ resp' = <<>>
    /\ PrintPrefix
    /\ UNCHANGED <<s_llm_bridge_queue, timeouts>>

Begin ==
    /\ requests < MaxRequests
    /\ Agent("idle", "prefix")
    /\ requests' = requests + 1 /\ outcome' = <<>> /\ resp' = <<>>
    /\ s_llm_bridge_queue' = <<>>
    /\ PrintPrefix
    /\ UNCHANGED timeouts

SendRequest == /\ Agent("prefix", "body")
               /\ PrintText
               /\ UNCHANGED <<s_llm_bridge_queue, requests, resp, outcome, timeouts>>

SendEnd == /\ Agent("body", "waiting")
           /\ PrintNewline
           /\ UNCHANGED <<s_llm_bridge_queue, requests, resp, outcome, timeouts>>

Timeout == /\ s_llm_bridge_queue = <<>>
           /\ Agent("waiting", "idle")
           /\ timeouts' = timeouts + 1 /\ outcome' = <<"timeout">>
           /\ PrintNothing
           /\ UNCHANGED <<s_llm_bridge_queue, requests, resp>>

Receive ==
    /\ s_llm_bridge_queue # <<>>
    /\ \/ /\ Head(s_llm_bridge_queue).truncated
          /\ Agent("waiting", "idle") /\ outcome' = <<"too long">> /\ UNCHANGED resp
       \/ /\ ~Head(s_llm_bridge_queue).truncated
          /\ Agent("waiting", "copy") /\ resp' = Head(s_llm_bridge_queue)
          /\ UNCHANGED outcome
    /\ s_llm_bridge_queue' = <<>>
    /\ PrintNothing
    /\ UNCHANGED <<requests, timeouts>>

\* The bytes are copied from the reader's buffer as they are by now.
Copy == /\ Agent("copy", "idle")
        /\ outcome' = <<"answer", [i \in 1..resp.len |-> s_llm_bridge_payload[i]]>>
        /\ PrintNothing
        /\ UNCHANGED <<s_llm_bridge_queue, requests, resp, timeouts>>

-----------------------------------------------------------------------------
(* qemu_live_llm_bridge.py, and the user behind it *)

Host == UNCHANGED <<reader, s_llm_bridge_queue, agent, mode, writer, outputs, user>>

Type(byte) == /\ keys < MaxTyped /\ keys' = keys + 1
              /\ IF pending # 0
                 THEN buffered' = Append(buffered, byte) /\ UNCHANGED wire
                 ELSE wire' = wire \o Sent(<<byte>>, 0) /\ UNCHANGED buffered
              /\ Host /\ UNCHANGED <<pending, requested, flushing>>

TakeRequest == /\ pending = 0 /\ flushing = <<>> /\ requested # <<>>
               /\ pending' = Head(requested) /\ requested' = Tail(requested)
               /\ Host /\ UNCHANGED <<wire, buffered, flushing, keys>>

\* One write: prefix, the answer, the provider's or an error, and a newline.
\* Then the user's bytes that were held back, which bytes typed now may overtake.
Answer(length) ==
    /\ pending # 0
    /\ wire' = wire \o Sent(Prefix \o [i \in 1..length |-> "x"] \o <<"newline">>, pending)
    /\ pending' = 0
    /\ flushing' = buffered /\ buffered' = <<>>
    /\ Host /\ UNCHANGED <<requested, keys>>

Flush == /\ flushing # <<>>
         /\ wire' = wire \o Sent(flushing, 0) /\ flushing' = <<>>
         /\ Host /\ UNCHANGED <<pending, requested, buffered, keys>>

-----------------------------------------------------------------------------
ReadByte == \/ EndBridgeLine \/ EndLine \/ Backspace \/ BridgeByte \/ PrefixByte
            \/ LineByte

Exchange == Begin \/ SendRequest \/ SendEnd \/ Timeout \/ Receive \/ Copy

Bridge == \/ \E byte \in UserBytes : Type(byte)
          \/ \E length \in AnswerLengths : Answer(length)
          \/ TakeRequest \/ Flush

Next == ReadByte \/ Write \/ WriteNewlines \/ Exchange \/ Bridge

Spec == Init /\ [][Next]_vars

-----------------------------------------------------------------------------
(* Properties *)

\* Every variable stays in its range, and the indices within their buffers.
TypeOK ==
    /\ wire \in Seq([byte : Text \cup {"backspace", "newline"}, from : 0..MaxRequests])
    /\ line_buf \in Seq(Text) /\ Len(line_buf) <= LineMax
    /\ held_echo_len \in 0..Len(Prefix)
    /\ held_echo_len = Len(Prefix) <=> bridge_line
    /\ prefix_check_active \in BOOLEAN /\ bridge_line \in BOOLEAN
    /\ bridge_payload_pos \in 0..PayloadMax /\ bridge_payload_truncated \in BOOLEAN
    /\ Len(s_llm_bridge_queue) <= 1
    /\ exchange \in {"idle", "prefix", "body", "waiting", "copy"}
    /\ requests \in 0..MaxRequests /\ timeouts \in 0..requests
    /\ mode \in {"detect", "passthrough", "suppress_req"}
    /\ requested \in Seq(1..MaxRequests) /\ pending \in 0..MaxRequests

\* A line that the user ends reaches the agent as the user edited it, with what is
\* held back as the start of an answer, erased from there or taken for one: no byte of
\* it is left behind, none of an answer that came before it is in it, also where an
\* answer was read as text. It may differ only when it was ever longer than the
\* buffer, or an answer came while part of it was typed: that part the answer ends.
LinesArriveAsTyped == message.spoilt \/ message.offered = message.typed

\* An exchange that succeeds returns a whole answer, whose end was read after it
\* began: its own request's, as long as no exchange has timed out. After timeouts
\* it may be the answer to an earlier request, or be overwritten by a later one's
\* while it is copied, but none further back than there were timeouts.
AnswersLagByTimeouts ==
    outcome # <<>> /\ outcome[1] = "answer" =>
        /\ resp.during = requests
        /\ Len(outcome[2]) \in AnswerLengths
        /\ \A i \in DOMAIN outcome[2] : requests - outcome[2][i] \in 0..timeouts
=============================================================================
