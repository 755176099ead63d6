---------------------------- MODULE SerialProofs ----------------------------
(***************************************************************************)
(* Proofs about the serial channel and the LLM bridge, for buffers of every *)
(* size, answers of every length, and any number of requests, typed bytes   *)
(* and outputs: the type invariant, that lines arrive as the user edited    *)
(* them, and that an answer lags behind its request by no more than there   *)
(* were timeouts.                                                           *)
(*                                                                          *)
(* Answers are whole on the wire but for one that the reader is inside of,  *)
(* so Clean need only speak of moments when the next byte is no part of an  *)
(* answer's middle. What is outstanding is in order and later than Low, the *)
(* number of exchanges that have taken an answer.                           *)
(***************************************************************************)
EXTENDS Serial, SequenceTheorems, TLAPS

Cells == [byte : Text \cup {"backspace", "newline"}, from : 0..MaxRequests]
Entries == [len : 0..PayloadMax, truncated : BOOLEAN, during : 0..MaxRequests]

\* TypeOK in parts, and the ranges of what it leaves out.
LineOK == line_buf \in Seq(Text) /\ Len(line_buf) <= LineMax
HeldOK == held_echo_len \in 0..Len(Prefix)
HeldAll == held_echo_len = Len(Prefix) <=> bridge_line
FlagsOK == /\ prefix_check_active \in BOOLEAN /\ bridge_line \in BOOLEAN
           /\ bridge_payload_truncated \in BOOLEAN /\ spoilt \in BOOLEAN
AtStart == prefix_check_active => line_buf = <<>>
PayloadOK == /\ bridge_payload_pos \in 0..PayloadMax
             /\ s_llm_bridge_payload \in [1..PayloadMax -> 0..MaxRequests]
QueueOK == s_llm_bridge_queue = <<>> \/ \E e \in Entries : s_llm_bridge_queue = <<e>>
AgentOK == /\ exchange \in {"idle", "prefix", "body", "waiting", "copy"}
           /\ requests \in 0..MaxRequests /\ timeouts \in 0..requests
           /\ exchange # "idle" => timeouts < requests
BridgeOK == /\ requested \in Seq(1..MaxRequests) /\ pending \in 0..MaxRequests
            /\ buffered \in Seq(UserBytes) /\ flushing \in Seq(UserBytes)
OutputOK == /\ mode \in {"detect", "passthrough", "suppress_req"}
            /\ mode = "suppress_req" => exchange \in {"prefix", "body"}
TypedOK == typed \in Seq(Text)
TypedFits == spoilt \/ Len(typed) <= LineMax

ReaderOK == LineOK /\ HeldOK /\ HeldAll /\ FlagsOK /\ AtStart /\ PayloadOK
UserOK == TypedOK /\ TypedFits
TInv == /\ wire \in Seq(Cells) /\ ReaderOK /\ QueueOK /\ AgentOK
        /\ BridgeOK /\ OutputOK /\ UserOK

\* From the i-th byte on the wire has n bytes of an answer's body and its newline.
Rest(w, i, n, sender) ==
    /\ i + n \in 1..Len(w) /\ w[i + n].byte = "newline" /\ w[i + n].from = sender
    /\ \A j \in 1..Len(w) : i <= j /\ j < i + n => w[j].byte = "x" /\ w[j].from = sender

\* Answers are whole on the wire, but for one whose start has been read.
Shape(w) ==
    \A i \in 1..Len(w) :
       /\ w[i].from = 0 => w[i].byte \in UserBytes
       /\ w[i].from # 0 /\ w[i].byte # "newline" =>
             i < Len(w) /\ w[i + 1].from = w[i].from /\ w[i + 1].byte # "p"
       /\ w[i].byte = "q" =>
             w[i].from # 0 /\ \E n \in AnswerLengths : Rest(w, i + 1, n, w[i].from)
       /\ i < Len(w) /\ w[i + 1].byte = "q" => w[i].byte = "p" /\ w[i].from = w[i + 1].from

\* When the reader is not inside an answer the line is what the user typed.
Clean == wire = <<>> \/ wire[1].from = 0 \/ wire[1].byte = "p" =>
            ~bridge_line /\ (spoilt \/ typed = line_buf \o Held)

\* A prefix that its second byte will complete began with the answer's first: nothing
\* had been typed on that line.
PrefixIsAnswers ==
    wire # <<>> /\ wire[1].byte = "q" /\ prefix_check_active /\ held_echo_len = 1
       => spoilt \/ typed = <<>>

\* The answer that the reader is inside of: what of it has been stored, and what is
\* still on the wire.
InAnswer == bridge_line =>
    /\ wire # <<>> /\ wire[1].from # 0
    /\ \E n \in 0..Len(wire) :
          /\ Rest(wire, 1, n, wire[1].from)
          /\ bridge_payload_truncated \/ bridge_payload_pos + n \in AnswerLengths
    /\ \A i \in 1..bridge_payload_pos : s_llm_bridge_payload[i] = wire[1].from
    /\ spoilt \/ typed = <<>>

LineInv == Shape(wire) /\ Clean /\ PrefixIsAnswers /\ InAnswer /\ LinesArriveAsTyped

\* The requests whose answers are on a wire, and those that will still be read or
\* answered.
Senders(w) == {n \in 1..MaxRequests : \E i \in 1..Len(w) : w[i].from = n}
ToCome == {n \in 1..MaxRequests :
              \/ n = pending
              \/ mode = "suppress_req" /\ n = requests
              \/ \E k \in 1..Len(requested) : requested[k] = n}
Outstanding == Senders(wire) \cup ToCome

\* Requests are read and answered in their order.
InOrder(w) ==
    \A i, j \in 1..Len(w) :
       i < j /\ w[i].from # 0 /\ w[j].from # 0 =>
          w[i].from <= w[j].from /\ (w[i].byte = "newline" => w[i].from < w[j].from)
ReadInOrder ==
    /\ \A k, l \in 1..Len(requested) : k < l => requested[k] < requested[l]
    /\ pending # 0 => \A k \in 1..Len(requested) : pending < requested[k]
    /\ mode = "suppress_req" =>
          pending < requests /\ \A k \in 1..Len(requested) : requested[k] < requests
AnsweredFirst == \A m \in Senders(wire), n \in ToCome : m < n
Begun == \A n \in Outstanding : n <= requests

OrderInv == InOrder(wire) /\ ReadInOrder /\ AnsweredFirst /\ Begun

\* The exchanges that did not end by a timeout. Each of them has taken an answer, and
\* so may the one that runs have.
Done == requests - timeouts - (IF exchange = "idle" THEN 0 ELSE 1)
Got == exchange = "copy" \/ (exchange # "idle" /\ s_llm_bridge_queue # <<>>)
Low == IF Got THEN Done + 1 ELSE Done

\* An answer that this exchange may return.
Answers(e) ==
    /\ e.during = requests
    /\ e.len \in 0..PayloadMax /\ (e.truncated \/ e.len \in AnswerLengths)
    /\ \A i \in 1..e.len : s_llm_bridge_payload[i] \in (Done + 1)..requests

\* The answers still to be read are later than as many as have been taken.
LaterThanTaken == \A n \in Outstanding : n > Low
Queued == exchange # "idle" /\ s_llm_bridge_queue # <<>> => Answers(Head(s_llm_bridge_queue))
Received == exchange = "copy" => Answers(resp) /\ ~resp.truncated
Returned == outcome # <<>> => exchange = "idle"

LagInv == LaterThanTaken /\ Queued /\ Received /\ Returned /\ AnswersLagByTimeouts

IInv == TInv /\ LineInv /\ OrderInv /\ LagInv

-----------------------------------------------------------------------------
(* The bytes on the wire *)

\* When the first byte has been read, the others are there.
LEMMA Popped ==
    ASSUME NEW S, NEW w \in Seq(S), w # <<>>
    PROVE  /\ Len(w) \in Nat /\ 1 \in 1..Len(w) /\ Head(w) = w[1] /\ w[1] \in S
           /\ Tail(w) \in Seq(S) /\ Len(Tail(w)) = Len(w) - 1
           /\ \A i \in 1..(Len(w) - 1) : i + 1 \in 1..Len(w) /\ Tail(w)[i] = w[i + 1]
           /\ Tail(w) # <<>> => Len(w) > 1 /\ Tail(w)[1] = w[2]
<1>1. Len(w) \in Nat /\ Len(w) > 0 /\ Head(w) = w[1] /\ 1 \in 1..Len(w) /\ w[1] \in S
  BY EmptySeq, ElementOfSeq
<1>2. /\ Tail(w) \in Seq(S) /\ Len(Tail(w)) = Len(w) - 1
      /\ \A i \in 1..Len(Tail(w)) : Tail(w)[i] = w[i + 1]
  BY HeadTailProperties
<1>3. Tail(w) # <<>> => Len(Tail(w)) > 0 BY <1>2, EmptySeq
<1>4. \A i \in 1..(Len(w) - 1) : i + 1 \in 1..Len(w) BY <1>1
<1>5. Tail(w) # <<>> => Tail(w)[1] = w[1 + 1] BY <1>1, <1>2, <1>3
<1> QED BY <1>1, <1>2, <1>3, <1>4, <1>5

\* When bytes have been sent, those before are where they were.
LEMMA Pushed ==
    ASSUME NEW S, NEW w \in Seq(S), NEW v \in Seq(S)
    PROVE  /\ w \o v \in Seq(S) /\ Len(w \o v) = Len(w) + Len(v)
           /\ Len(w) \in Nat /\ Len(v) \in Nat
           /\ \A i \in 1..Len(w) : i \in 1..(Len(w) + Len(v)) /\ (w \o v)[i] = w[i]
           /\ \A i \in 1..Len(v) : /\ i + Len(w) \in 1..(Len(w) + Len(v))
                                   /\ (w \o v)[i + Len(w)] = v[i]
           /\ \A i \in 1..(Len(w) + Len(v)) :
                 i \notin 1..Len(w) => i - Len(w) \in 1..Len(v) /\ (w \o v)[i] = v[i - Len(w)]
           /\ w # <<>> => w \o v # <<>> /\ (w \o v)[1] = w[1] /\ 1 \in 1..Len(w)
           /\ w = <<>> => w \o v = v
<1>1. Len(w) \in Nat /\ Len(v) \in Nat BY LenProperties
<1>2. /\ w \o v \in Seq(S) /\ Len(w \o v) = Len(w) + Len(v)
      /\ \A i \in 1..(Len(w) + Len(v)) :
            (w \o v)[i] = IF i <= Len(w) THEN w[i] ELSE v[i - Len(w)]
  BY ConcatProperties
<1>3. \A i \in 1..Len(w) : i \in 1..(Len(w) + Len(v)) /\ (w \o v)[i] = w[i] BY <1>1, <1>2
<1>4. \A i \in 1..(Len(w) + Len(v)) :
         i \notin 1..Len(w) => i - Len(w) \in 1..Len(v) /\ (w \o v)[i] = v[i - Len(w)]
  BY <1>1, <1>2
<1>5. ASSUME NEW i \in 1..Len(v)
      PROVE  i + Len(w) \in 1..(Len(w) + Len(v)) /\ (w \o v)[i + Len(w)] = v[i]
  <2>1. i + Len(w) \in 1..(Len(w) + Len(v)) /\ ~(i + Len(w) <= Len(w)) BY <1>1
  <2>2. i + Len(w) - Len(w) = i BY <1>1
  <2> QED BY <1>2, <2>1, <2>2
<1>6. w # <<>> => Len(w) > 0 BY EmptySeq
<1>7. w # <<>> => w \o v # <<>> /\ (w \o v)[1] = w[1] /\ 1 \in 1..Len(w)
  BY <1>1, <1>2, <1>3, <1>6, EmptySeq
<1>8. w = <<>> => w \o v = v BY ConcatEmptySeq
<1> QED BY <1>1, <1>2, <1>3, <1>4, <1>5, <1>7, <1>8

\* The bytes of an answer.
AnswerTo(sender, length) ==
    Sent(Prefix \o [i \in 1..length |-> "x"] \o <<"newline">>, sender)

LEMMA AnswerCells ==
    ASSUME NEW sender \in 0..MaxRequests, NEW length \in Nat
    PROVE  LET a == AnswerTo(sender, length)
           IN  /\ a \in Seq(Cells) /\ Len(a) = length + 3
               /\ \A i \in 1..(length + 3) : a[i].from = sender
               /\ a[1].byte = "p" /\ a[2].byte = "q" /\ a[length + 3].byte = "newline"
               /\ \A i \in 3..(length + 2) : a[i].byte = "x"
<1> DEFINE B == Text \cup {"backspace", "newline"}
           body == [i \in 1..length |-> "x"]
           start == Prefix \o body
           all == start \o <<"newline">>
<1>1. Prefix \in Seq(B) /\ Len(Prefix) = 2 /\ Prefix[1] = "p" /\ Prefix[2] = "q"
  BY DEF Prefix, Text
<1>2. body \in Seq(B) /\ Len(body) = length /\ \A i \in 1..length : body[i] = "x"
  BY DEF Text
<1>3. <<"newline">> \in Seq(B) /\ Len(<<"newline">>) = 1 /\ <<"newline">>[1] = "newline"
  OBVIOUS
<1> HIDE DEF body, B
<1>4. /\ start \in Seq(B) /\ Len(start) = length + 2
      /\ \A i \in 1..(length + 2) : start[i] = IF i <= 2 THEN Prefix[i] ELSE body[i - 2]
  <2>1. /\ start \in Seq(B) /\ Len(start) = Len(Prefix) + Len(body)
        /\ \A i \in 1..(Len(Prefix) + Len(body)) :
              start[i] = IF i <= Len(Prefix) THEN Prefix[i] ELSE body[i - Len(Prefix)]
    BY <1>1, <1>2, ConcatProperties
  <2>2. Len(Prefix) + Len(body) = length + 2 BY <1>1, <1>2
  <2> HIDE DEF start
  <2> QED BY <1>1, <1>2, <2>1, <2>2
<1> HIDE DEF start
<1>5. /\ all \in Seq(B) /\ Len(all) = length + 3
      /\ \A i \in 1..(length + 3) :
            all[i] = IF i <= length + 2 THEN start[i] ELSE <<"newline">>[i - (length + 2)]
  BY <1>3, <1>4, ConcatProperties
<1> HIDE DEF all
<1>6. \A i \in 1..(length + 3) :
         all[i] = IF i = 1 THEN "p" ELSE IF i = 2 THEN "q"
                  ELSE IF i <= length + 2 THEN "x" ELSE "newline"
  <2> TAKE i \in 1..(length + 3)
  <2>1. CASE i <= 2 BY <1>1, <1>4, <1>5, <2>1
  <2>2. CASE i > 2 /\ i <= length + 2
    <3>1. i - 2 \in 1..length BY <2>2
    <3> QED BY <1>2, <1>4, <1>5, <2>2, <3>1
  <2>3. CASE i > length + 2 BY <1>3, <1>5, <2>3
  <2> QED BY <2>1, <2>2, <2>3
<1>7. DOMAIN all = 1..(length + 3) /\ \A i \in 1..(length + 3) : all[i] \in B
  BY <1>5, LenProperties
<1> DEFINE a == [i \in DOMAIN all |-> [byte |-> all[i], from |-> sender]]
<1>8. /\ a \in Seq(Cells) /\ Len(a) = length + 3
      /\ \A i \in 1..(length + 3) : a[i].from = sender /\ a[i].byte = all[i]
  <2>1. \A i \in 1..(length + 3) : [byte |-> all[i], from |-> sender] \in Cells
    BY <1>7 DEF Cells, B
  <2>2. a \in [1..(length + 3) -> Cells] BY <1>7, <2>1
  <2>3. \A i \in 1..(length + 3) : a[i].from = sender /\ a[i].byte = all[i] BY <1>7
  <2> HIDE DEF a
  <2> QED BY <2>2, <2>3
<1>9. a = AnswerTo(sender, length) BY DEF AnswerTo, Sent, all, start, body
<1> HIDE DEF a
<1>10. /\ a[1].byte = "p" /\ a[2].byte = "q" /\ a[length + 3].byte = "newline"
       /\ \A i \in 3..(length + 2) : a[i].byte = "x"
  BY <1>6, <1>8
<1> QED BY <1>8, <1>9, <1>10

\* What is left of an answer stays so, however the wire is shortened or added to.
LEMMA RestOfTail ==
    ASSUME NEW w \in Seq(Cells), w # <<>>, NEW i \in Nat \ {0}, NEW n \in Nat, NEW sender,
           Rest(w, i + 1, n, sender)
    PROVE  Rest(Tail(w), i, n, sender)
<1>1. /\ Len(w) \in Nat /\ Len(Tail(w)) = Len(w) - 1
      /\ \A j \in 1..(Len(w) - 1) : j + 1 \in 1..Len(w) /\ Tail(w)[j] = w[j + 1]
  BY Popped
<1>2. i + n \in 1..(Len(w) - 1) /\ (i + n) + 1 = (i + 1) + n BY <1>1 DEF Rest
<1>3. Tail(w)[i + n].byte = "newline" /\ Tail(w)[i + n].from = sender
  BY <1>1, <1>2 DEF Rest
<1>4. ASSUME NEW j \in 1..(Len(w) - 1), i <= j, j < i + n
      PROVE  Tail(w)[j].byte = "x" /\ Tail(w)[j].from = sender
  <2>1. j + 1 \in 1..Len(w) /\ i + 1 <= j + 1 /\ j + 1 < (i + 1) + n BY <1>1, <1>4
  <2> QED BY <1>1, <2>1 DEF Rest
<1> QED BY <1>1, <1>2, <1>3, <1>4 DEF Rest

LEMMA RestOfConcat ==
    ASSUME NEW w \in Seq(Cells), NEW v \in Seq(Cells), NEW i \in Nat \ {0}, NEW n \in Nat,
           NEW sender
    PROVE  /\ Rest(w, i, n, sender) => Rest(w \o v, i, n, sender)
           /\ Rest(v, i, n, sender) => Rest(w \o v, i + Len(w), n, sender)
<1>1. /\ Len(w \o v) = Len(w) + Len(v) /\ Len(w) \in Nat /\ Len(v) \in Nat
      /\ \A j \in 1..Len(w) : j \in 1..(Len(w) + Len(v)) /\ (w \o v)[j] = w[j]
      /\ \A j \in 1..Len(v) : /\ j + Len(w) \in 1..(Len(w) + Len(v))
                              /\ (w \o v)[j + Len(w)] = v[j]
  BY Pushed
<1>2. ASSUME Rest(w, i, n, sender) PROVE Rest(w \o v, i, n, sender)
  <2>1. i + n \in 1..Len(w) BY <1>2 DEF Rest
  <2>2. ASSUME NEW j \in 1..(Len(w) + Len(v)), i <= j, j < i + n
        PROVE  (w \o v)[j].byte = "x" /\ (w \o v)[j].from = sender
    <3>1. j \in 1..Len(w) BY <1>1, <2>1, <2>2
    <3> QED BY <1>1, <1>2, <2>2, <3>1 DEF Rest
  <2> QED BY <1>1, <1>2, <2>1, <2>2 DEF Rest
<1>3. ASSUME Rest(v, i, n, sender) PROVE Rest(w \o v, i + Len(w), n, sender)
  <2>1. i + n \in 1..Len(v) /\ (i + Len(w)) + n = (i + n) + Len(w) BY <1>1, <1>3 DEF Rest
  <2>2. ASSUME NEW j \in 1..(Len(w) + Len(v)), i + Len(w) <= j, j < (i + Len(w)) + n
        PROVE  (w \o v)[j].byte = "x" /\ (w \o v)[j].from = sender
    <3> DEFINE k == j - Len(w)
    <3>1. /\ k \in 1..Len(v) /\ k + Len(w) = j
          /\ i <= k /\ k < i + n BY <1>1, <2>1, <2>2
    <3> HIDE DEF k
    <3>2. v[k].byte = "x" /\ v[k].from = sender BY <1>3, <3>1 DEF Rest
    <3> QED BY <1>1, <3>1, <3>2
  <2>3. /\ (w \o v)[(i + n) + Len(w)] = v[i + n]
        /\ (i + n) + Len(w) \in 1..(Len(w) + Len(v)) BY <1>1, <2>1
  <2> QED BY <1>1, <1>3, <2>1, <2>2, <2>3 DEF Rest
<1> QED BY <1>2, <1>3

\* Whole answers stay whole.
LEMMA ShapeOfTail ==
    ASSUME NEW w \in Seq(Cells), w # <<>>, Shape(w)
    PROVE  Shape(Tail(w))
<1>1. /\ Len(w) \in Nat /\ Len(Tail(w)) = Len(w) - 1
      /\ \A j \in 1..(Len(w) - 1) : j + 1 \in 1..Len(w) /\ Tail(w)[j] = w[j + 1]
  BY Popped
<1> SUFFICES ASSUME NEW i \in 1..(Len(w) - 1)
             PROVE  /\ w[i + 1].from = 0 => w[i + 1].byte \in UserBytes
                    /\ w[i + 1].from # 0 /\ w[i + 1].byte # "newline" =>
                          /\ i < Len(w) - 1 /\ Tail(w)[i + 1].from = w[i + 1].from
                          /\ Tail(w)[i + 1].byte # "p"
                    /\ w[i + 1].byte = "q" =>
                          /\ w[i + 1].from # 0
                          /\ \E n \in AnswerLengths : Rest(Tail(w), i + 1, n, w[i + 1].from)
                    /\ i < Len(w) - 1 /\ Tail(w)[i + 1].byte = "q" =>
                          w[i + 1].byte = "p" /\ w[i + 1].from = Tail(w)[i + 1].from
  BY <1>1 DEF Shape
<1>2. i + 1 \in 1..Len(w) /\ i \in Nat /\ i # 0 BY <1>1
<1>3. i < Len(w) - 1 => Tail(w)[i + 1] = w[(i + 1) + 1] /\ i + 1 < Len(w) BY <1>1
<1>4. w[i + 1].from = 0 => w[i + 1].byte \in UserBytes BY <1>2 DEF Shape
<1>5. ASSUME w[i + 1].from # 0, w[i + 1].byte # "newline"
      PROVE  /\ i < Len(w) - 1 /\ Tail(w)[i + 1].from = w[i + 1].from
             /\ Tail(w)[i + 1].byte # "p"
  <2>1. i + 1 < Len(w) /\ w[(i + 1) + 1].from = w[i + 1].from /\ w[(i + 1) + 1].byte # "p"
    BY <1>2, <1>5 DEF Shape
  <2>2. i < Len(w) - 1 BY <1>1, <2>1
  <2> QED BY <1>3, <2>1, <2>2
<1>6. ASSUME w[i + 1].byte = "q"
      PROVE  /\ w[i + 1].from # 0
             /\ \E n \in AnswerLengths : Rest(Tail(w), i + 1, n, w[i + 1].from)
  <2>1. w[i + 1].from # 0 /\ \E n \in AnswerLengths : Rest(w, (i + 1) + 1, n, w[i + 1].from)
    BY <1>2, <1>6 DEF Shape
  <2>2. PICK n \in AnswerLengths : Rest(w, (i + 1) + 1, n, w[i + 1].from) BY <2>1
  <2>3. n \in Nat /\ i + 1 \in Nat \ {0} BY <1>2, SerialAssumption
  <2>4. Rest(Tail(w), i + 1, n, w[i + 1].from) BY <2>2, <2>3, RestOfTail
  <2> QED BY <2>1, <2>4
<1>7. ASSUME i < Len(w) - 1, Tail(w)[i + 1].byte = "q"
      PROVE  w[i + 1].byte = "p" /\ w[i + 1].from = Tail(w)[i + 1].from
  BY <1>2, <1>3, <1>7 DEF Shape
<1> QED BY <1>4, <1>5, <1>6, <1>7

LEMMA ShapeOfConcat ==
    ASSUME NEW w \in Seq(Cells), NEW v \in Seq(Cells), Shape(w), Shape(v),
           v # <<>> => v[1].byte # "q"
    PROVE  Shape(w \o v)
<1> DEFINE u == w \o v
<1>1. /\ u \in Seq(Cells) /\ Len(u) = Len(w) + Len(v) /\ Len(w) \in Nat /\ Len(v) \in Nat
      /\ \A j \in 1..Len(w) : j \in 1..(Len(w) + Len(v)) /\ u[j] = w[j]
      /\ \A j \in 1..Len(v) : /\ j + Len(w) \in 1..(Len(w) + Len(v))
                              /\ u[j + Len(w)] = v[j]
  BY Pushed
<1>2. \A sender : \A n \in Nat, i \in Nat \ {0} :
         /\ Rest(w, i, n, sender) => Rest(u, i, n, sender)
         /\ Rest(v, i, n, sender) => Rest(u, i + Len(w), n, sender)
  BY RestOfConcat
<1>3. v # <<>> \/ Len(v) = 0 BY EmptySeq
<1> HIDE DEF u
<1> DEFINE P(i) ==
       /\ u[i].from = 0 => u[i].byte \in UserBytes
       /\ u[i].from # 0 /\ u[i].byte # "newline" =>
             i < Len(u) /\ u[i + 1].from = u[i].from /\ u[i + 1].byte # "p"
       /\ u[i].byte = "q" =>
             u[i].from # 0 /\ \E n \in AnswerLengths : Rest(u, i + 1, n, u[i].from)
       /\ i < Len(u) /\ u[i + 1].byte = "q" => u[i].byte = "p" /\ u[i].from = u[i + 1].from
<1>4. ASSUME NEW i \in 1..Len(w) PROVE P(i)
  <2>1. u[i] = w[i] /\ (i < Len(w) => u[i + 1] = w[i + 1]) BY <1>1
  <2>2. u[i].from = 0 => u[i].byte \in UserBytes BY <2>1 DEF Shape
  <2>3. u[i].from # 0 /\ u[i].byte # "newline" =>
           i < Len(u) /\ u[i + 1].from = u[i].from /\ u[i + 1].byte # "p"
    BY <1>1, <2>1 DEF Shape
  <2>4. ASSUME u[i].byte = "q"
        PROVE  u[i].from # 0 /\ \E n \in AnswerLengths : Rest(u, i + 1, n, u[i].from)
    <3>1. w[i].from # 0 /\ \E n \in AnswerLengths : Rest(w, i + 1, n, w[i].from)
      BY <2>1, <2>4 DEF Shape
    <3>2. PICK n \in AnswerLengths : Rest(w, i + 1, n, w[i].from) BY <3>1
    <3>3. n \in Nat /\ i + 1 \in Nat \ {0} BY <1>1, SerialAssumption
    <3>4. Rest(u, i + 1, n, w[i].from) BY <1>2, <3>2, <3>3
    <3> QED BY <2>1, <3>1, <3>4
  <2>5. ASSUME i < Len(u), u[i + 1].byte = "q"
        PROVE  u[i].byte = "p" /\ u[i].from = u[i + 1].from
    <3>1. CASE i < Len(w) BY <2>1, <2>5, <3>1 DEF Shape
    <3>2. CASE ~(i < Len(w))
      <4>1. i = Len(w) /\ 1 \in 1..Len(v) /\ v # <<>> BY <1>1, <1>3, <2>5, <3>2
      <4>2. u[i + 1] = v[1] BY <1>1, <4>1
      <4> QED BY <2>5, <4>1, <4>2
    <3> QED BY <3>1, <3>2
  <2> QED BY <2>2, <2>3, <2>4, <2>5
<1>5. ASSUME NEW j \in 1..Len(v) PROVE P(j + Len(w))
  <2>1. /\ u[j + Len(w)] = v[j]
        /\ (j + Len(w) < Len(u)) <=> (j < Len(v))
        /\ j < Len(v) => u[(j + Len(w)) + 1] = v[j + 1]
    <3>1. j < Len(v) => j + 1 \in 1..Len(v) /\ (j + 1) + Len(w) = (j + Len(w)) + 1 BY <1>1
    <3> QED BY <1>1, <3>1
  <2>2. v[j].from = 0 => v[j].byte \in UserBytes BY DEF Shape
  <2>3. v[j].from # 0 /\ v[j].byte # "newline" =>
           j < Len(v) /\ v[j + 1].from = v[j].from /\ v[j + 1].byte # "p"
    BY DEF Shape
  <2>4. ASSUME v[j].byte = "q"
        PROVE  v[j].from # 0 /\ \E n \in AnswerLengths : Rest(u, (j + Len(w)) + 1, n, v[j].from)
    <3>1. v[j].from # 0 /\ \E n \in AnswerLengths : Rest(v, j + 1, n, v[j].from)
      BY <2>4 DEF Shape
    <3>2. PICK n \in AnswerLengths : Rest(v, j + 1, n, v[j].from) BY <3>1
    <3>3. /\ n \in Nat /\ j + 1 \in Nat \ {0} /\ (j + 1) + Len(w) = (j + Len(w)) + 1
      BY <1>1, SerialAssumption
    <3>4. Rest(u, (j + 1) + Len(w), n, v[j].from) BY <1>2, <3>2, <3>3
    <3> QED BY <3>1, <3>3, <3>4
  <2>5. j < Len(v) /\ v[j + 1].byte = "q" => v[j].byte = "p" /\ v[j].from = v[j + 1].from
    BY DEF Shape
  <2> QED BY <2>1, <2>2, <2>3, <2>4, <2>5
<1>6. ASSUME NEW i \in 1..Len(u) PROVE P(i)
  <2>1. CASE i \in 1..Len(w) BY <1>4, <2>1
  <2>2. CASE i \notin 1..Len(w)
    <3> DEFINE j == i - Len(w)
    <3>1. j \in 1..Len(v) /\ j + Len(w) = i BY <1>1, <2>2
    <3> HIDE DEF j, P
    <3>2. P(j + Len(w)) BY <1>5, <3>1
    <3> QED BY <3>1, <3>2
  <2> QED BY <2>1, <2>2
<1>7. Shape(u) BY <1>6 DEF Shape
<1> QED BY <1>7 DEF u

\* The user's bytes, and an answer.
LEMMA ShapeOfUser ==
    ASSUME NEW b \in Seq(UserBytes)
    PROVE  LET v == Sent(b, 0)
           IN  /\ v \in Seq(Cells) /\ Shape(v) /\ Len(v) = Len(b)
               /\ \A i \in 1..Len(v) : v[i].from = 0 /\ v[i].byte # "q"
<1> DEFINE v == Sent(b, 0)
<1>1. DOMAIN b = 1..Len(b) /\ Len(b) \in Nat /\ \A i \in 1..Len(b) : b[i] \in UserBytes
  BY LenProperties
<1>2. /\ v \in Seq(Cells) /\ Len(v) = Len(b)
      /\ \A i \in 1..Len(b) : v[i].from = 0 /\ v[i].byte = b[i]
  <2>1. \A i \in 1..Len(b) : [byte |-> b[i], from |-> 0] \in Cells
    <3>1. 0 \in 0..MaxRequests BY SerialAssumption
    <3>2. \A c \in UserBytes : c \in Text \cup {"backspace", "newline"}
      BY SerialAssumption DEF Text
    <3> QED BY <1>1, <3>1, <3>2 DEF Cells
  <2>2. v \in [1..Len(b) -> Cells] BY <1>1, <2>1 DEF Sent
  <2>3. \A i \in 1..Len(b) : v[i].from = 0 /\ v[i].byte = b[i] BY <1>1 DEF Sent
  <2> HIDE DEF v
  <2> QED BY <1>1, <2>2, <2>3
<1> HIDE DEF v
<1>3. "q" \notin UserBytes BY SerialAssumption
<1>4. \A i \in 1..Len(v) : v[i].from = 0 /\ v[i].byte \in UserBytes BY <1>1, <1>2
<1>5. \A i \in 1..Len(v) : i < Len(v) => i + 1 \in 1..Len(v) BY <1>1, <1>2
<1>6. Shape(v) BY <1>3, <1>4, <1>5 DEF Shape
<1> QED BY <1>2, <1>3, <1>4, <1>6 DEF v

LEMMA ShapeOfAnswer ==
    ASSUME NEW sender \in 1..MaxRequests, NEW length \in AnswerLengths
    PROVE  Shape(AnswerTo(sender, length))
<1> DEFINE a == AnswerTo(sender, length)
<1>0. length \in Nat /\ sender \in 0..MaxRequests /\ sender # 0
  BY SerialAssumption
<1>1. /\ a \in Seq(Cells) /\ Len(a) = length + 3
      /\ \A i \in 1..(length + 3) : a[i].from = sender
      /\ a[1].byte = "p" /\ a[2].byte = "q" /\ a[length + 3].byte = "newline"
      /\ \A i \in 3..(length + 2) : a[i].byte = "x"
  BY <1>0, AnswerCells
<1> HIDE DEF a
<1>2. Rest(a, 3, length, sender) BY <1>0, <1>1 DEF Rest
<1>3. ASSUME NEW i \in 1..Len(a)
      PROVE  /\ a[i].from # 0
             /\ a[i].byte # "newline" =>
                   i < Len(a) /\ a[i + 1].from = a[i].from /\ a[i + 1].byte # "p"
             /\ a[i].byte = "q" => i + 1 = 3
             /\ i < Len(a) /\ a[i + 1].byte = "q" => a[i].byte = "p" /\ a[i].from = a[i + 1].from
  <2>1. i \in 1..(length + 3) /\ a[i].from = sender BY <1>0, <1>1
  <2>2. i = length + 3 => a[i].byte = "newline" BY <1>0, <1>1
  <2>3. i < length + 3 => i + 1 \in 1..(length + 3) /\ a[i + 1].from = sender /\ a[i + 1].byte # "p"
    <3>1. \A j \in 1..(length + 3) : j = 1 \/ j = 2 \/ j = length + 3 \/ j \in 3..(length + 2)
      BY <1>0
    <3>2. \A j \in 1..(length + 3) : j # 1 => a[j].byte # "p" BY <1>1, <3>1
    <3> QED BY <1>0, <1>1, <3>2
  <2>4. \A j \in 1..(length + 3) : a[j].byte = "q" => j = 2
    <3>1. \A j \in 1..(length + 3) : j = 1 \/ j = 2 \/ j = length + 3 \/ j \in 3..(length + 2)
      BY <1>0
    <3> QED BY <1>1, <3>1
  <2>5. i < length + 3 /\ a[i + 1].byte = "q" => i = 1 BY <2>1, <2>3, <2>4
  <2> QED BY <1>0, <1>1, <2>1, <2>2, <2>3, <2>4, <2>5
<1>4. Shape(a)
  <2> SUFFICES ASSUME NEW i \in 1..Len(a), a[i].byte = "q"
               PROVE  \E n \in AnswerLengths : Rest(a, i + 1, n, a[i].from)
    BY <1>3 DEF Shape
  <2>1. i + 1 = 3 /\ a[i].from = sender BY <1>0, <1>1, <1>3
  <2> QED BY <1>2, <2>1
<1> QED BY <1>4 DEF a

-----------------------------------------------------------------------------
(* The type invariant *)

\* The constants, and the two bytes of the prefix.
LEMMA Constants ==
    /\ LineMax \in Nat \ {0} /\ PayloadMax \in Nat \ {0} /\ MaxRequests \in Nat
    /\ Len(Prefix) = 2 /\ Prefix[1] = "p" /\ Prefix[2] = "q" /\ "p" \in Text /\ "q" \in Text
BY SerialAssumption DEF Prefix, Text

\* A line that fits is stored as it is, and no line is stored beyond its buffer.
LEMMA FitsFacts ==
    ASSUME NEW line \in Seq(Text)
    PROVE  /\ Fits(line) \in Seq(Text) /\ Len(Fits(line)) <= LineMax
           /\ Len(line) <= LineMax => Fits(line) = line
<1>1. Len(line) \in Nat /\ \A i \in 1..Len(line) : line[i] \in Text BY LenProperties
<1> DEFINE n == IF Len(line) < LineMax THEN Len(line) ELSE LineMax
<1>2. n \in Nat /\ n <= Len(line) /\ n <= LineMax /\ (Len(line) <= LineMax => n = Len(line))
  BY <1>1, Constants
<1>3. Fits(line) = SubSeq(line, 1, n) BY DEF Fits
<1> HIDE DEF n
<1>4. \A i \in 1..n : line[i] \in Text BY <1>1, <1>2
<1>5. /\ SubSeq(line, 1, n) \in Seq(Text)
      /\ Len(SubSeq(line, 1, n)) = IF 1 <= n THEN n - 1 + 1 ELSE 0
  BY <1>2, <1>4, SubSeqProperties
<1>6. Len(SubSeq(line, 1, n)) = n BY <1>2, <1>5
<1> QED BY <1>2, <1>3, <1>5, <1>6, SubSeqFull

\* The bytes held back are the start of the prefix.
LEMMA HeldFacts ==
    ASSUME HeldOK
    PROVE  /\ held_echo_len \in 0..2
           /\ Held \in Seq(Text) /\ Len(Held) = held_echo_len
           /\ \A i \in 1..held_echo_len : Held[i] = Prefix[i]
           /\ held_echo_len = 0 => Held = <<>>
           /\ held_echo_len = 1 => Held = <<"p">>
<1>1. held_echo_len \in 0..2 BY Constants DEF HeldOK
<1>2. \A i \in 1..held_echo_len : Prefix[i] \in Text
  <2>1. \A i \in 1..held_echo_len : i = 1 \/ i = 2 BY <1>1
  <2> QED BY <2>1, Constants
<1>3. /\ Held \in Seq(Text)
      /\ Len(Held) = IF 1 <= held_echo_len THEN held_echo_len - 1 + 1 ELSE 0
      /\ \A i \in 1..(held_echo_len - 1 + 1) : Held[i] = Prefix[1 + i - 1]
  BY <1>1, <1>2, SubSeqProperties DEF Held
<1>4. Len(Held) = held_echo_len BY <1>1, <1>3
<1>5. \A i \in 1..held_echo_len : Held[i] = Prefix[i]
  <2> TAKE i \in 1..held_echo_len
  <2>1. i \in 1..(held_echo_len - 1 + 1) /\ 1 + i - 1 = i BY <1>1
  <2> QED BY <1>3, <2>1
<1>6. held_echo_len = 0 => Held = <<>> BY <1>3, <1>4, EmptySeq
<1>7. held_echo_len = 1 => Held = <<"p">>
  <2>1. <<"p">> \in Seq(Text) /\ Len(<<"p">>) = 1 /\ <<"p">>[1] = "p" BY Constants
  <2>2. held_echo_len = 1 => Held[1] = "p" BY <1>5, Constants
  <2>3. held_echo_len = 1 => \A i \in 1..Len(Held) : Held[i] = <<"p">>[i] BY <1>4, <2>1, <2>2
  <2> HIDE DEF Prefix
  <2> QED BY <1>3, <1>4, <2>1, <2>3, SeqEqual
<1> QED BY <1>1, <1>3, <1>4, <1>5, <1>6, <1>7

\* What the device may print while it reads or writes.
Prints == PrintText \/ PrintNewline \/ PrintNothing

\* Nothing of it begins a request; a newline ends one.
LEMMA Printed ==
    ASSUME AgentOK, BridgeOK, OutputOK, Prints
    PROVE  /\ mode' \in {"detect", "passthrough", "suppress_req"}
           /\ requested' \in Seq(1..MaxRequests)
           /\ mode' = "suppress_req" => mode = "suppress_req" /\ requested' = requested
           /\ \/ requested' = requested
              \/ mode = "suppress_req" /\ requested' = Append(requested, requests)
<1>1. mode = "suppress_req" => requests \in 1..MaxRequests
  BY Constants DEF AgentOK, OutputOK
<1>2. mode = "suppress_req" => Append(requested, requests) \in Seq(1..MaxRequests)
  BY <1>1, AppendProperties DEF BridgeOK
<1> QED BY <1>2 DEF Prints, PrintText, PrintNewline, PrintNothing, BridgeOK, OutputOK

\* What a byte that is read leaves in its range.
LEMMA ReadTypes ==
    ASSUME TInv, NEW kind, Read(kind), Prints
    PROVE  /\ wire' \in Seq(Cells) /\ AgentOK' /\ BridgeOK' /\ OutputOK'
           /\ wire # <<>> /\ wire[1] \in Cells /\ Head(wire) = wire[1] /\ wire[1].byte \in kind
           /\ wire[1].from \in 0..MaxRequests
<1>1. /\ wire # <<>> /\ Next1 \in kind /\ wire' = Tail(wire)
      /\ UNCHANGED <<exchange, requests, timeouts, pending, buffered, flushing>>
  BY DEF Read, agent, bridge
<1>2. wire' \in Seq(Cells) /\ Head(wire) = wire[1] /\ wire[1] \in Cells
  BY <1>1, Popped DEF TInv
<1>3. wire[1].byte \in kind /\ wire[1].from \in 0..MaxRequests BY <1>1, <1>2 DEF Next1, Cells
<1>4. AgentOK' /\ BridgeOK' /\ OutputOK'
  BY <1>1, Printed DEF TInv, AgentOK, BridgeOK, OutputOK
<1> QED BY <1>1, <1>2, <1>3, <1>4

LEMMA UserTypesOK ==
    ASSUME TInv, NEW byte \in Text, UserTypes(byte)
    PROVE  UserOK' /\ spoilt' \in BOOLEAN
<1>1. typed' \in Seq(Text) BY AppendProperties DEF UserTypes, TInv, UserOK, TypedOK
<1>2. Len(typed') \in Nat BY <1>1, LenProperties
<1>3. TypedFits'
  <2>1. Len(typed') > LineMax => spoilt' BY Zenon DEF UserTypes
  <2>2. ~(Len(typed') > LineMax) => Len(typed') <= LineMax BY <1>2, Constants
  <2> QED BY <2>1, <2>2, Zenon DEF TypedFits
<1>4. spoilt' \in BOOLEAN BY DEF UserTypes
<1> QED BY <1>1, <1>3, <1>4 DEF UserOK, TypedOK

\* A line without its last byte.
LEMMA Shorter ==
    ASSUME NEW line \in Seq(Text)
    PROVE  LET s == SubSeq(line, 1, Len(line) - 1)
           IN  /\ s \in Seq(Text) /\ Len(s) \in Nat /\ Len(s) <= Len(line) /\ Len(line) \in Nat
               /\ line # <<>> =>
                     /\ Len(line) >= 1 /\ Len(s) = Len(line) - 1
                     /\ \A i \in 1..(Len(line) - 1) : s[i] = line[i]
               /\ line = <<>> => s = <<>>
<1> DEFINE n == Len(line) - 1
           s == SubSeq(line, 1, n)
<1>1. Len(line) \in Nat /\ n \in Int /\ \A i \in 1..Len(line) : line[i] \in Text
  BY LenProperties
<1>2. \A i \in 1..n : line[i] \in Text BY <1>1
<1>3. line # <<>> => Len(line) >= 1 BY EmptySeq
<1> HIDE DEF n
<1>4. /\ s \in Seq(Text) /\ Len(s) = IF 1 <= n THEN n - 1 + 1 ELSE 0
      /\ \A i \in 1..(n - 1 + 1) : s[i] = line[1 + i - 1]
  BY <1>1, <1>2, SubSeqProperties
<1> HIDE DEF s
<1>5. Len(s) \in Nat /\ (n >= 0 => Len(s) = n) /\ (n < 0 => Len(s) = 0) BY <1>1, <1>4
<1>6. Len(s) <= Len(line) BY <1>1, <1>5 DEF n
<1>7. ASSUME line # <<>> PROVE Len(s) = Len(line) - 1 BY <1>1, <1>3, <1>5, <1>7 DEF n
<1>8. \A i \in 1..n : s[i] = line[i]
  <2> TAKE i \in 1..n
  <2>1. i \in 1..(n - 1 + 1) /\ 1 + i - 1 = i BY <1>1
  <2> QED BY <1>4, <2>1
<1>9. line = <<>> => s = <<>>
  <2>1. line = <<>> => Len(s) = 0 BY <1>5, EmptySeq DEF n
  <2> QED BY <1>4, <2>1, EmptySeq
<1> QED BY <1>1, <1>3, <1>4, <1>5, <1>6, <1>7, <1>8, <1>9 DEF s, n

LEMMA UserErasesOK ==
    ASSUME TInv, UserErases
    PROVE  UserOK' /\ UNCHANGED spoilt
<1>1. typed \in Seq(Text) BY DEF TInv, UserOK, TypedOK
<1>2. /\ typed' \in Seq(Text) /\ Len(typed') \in Nat /\ Len(typed) \in Nat
      /\ Len(typed') <= Len(typed)
  BY <1>1, Shorter DEF UserErases
<1>3. UNCHANGED spoilt BY DEF UserErases
<1>4. TypedFits' BY <1>2, <1>3, Constants DEF TInv, UserOK, TypedFits
<1> QED BY <1>2, <1>3, <1>4 DEF UserOK, TypedOK

LEMMA LineStartsOK ==
    ASSUME TInv, LineStarts, spoilt' \in BOOLEAN
    PROVE  ReaderOK'
<1>1. LineOK' BY Constants DEF LineStarts, LineOK
<1>2. HeldOK' BY Constants DEF LineStarts, HeldOK
<1>3. HeldAll' BY Constants DEF LineStarts, HeldAll
<1>4. FlagsOK' BY DEF LineStarts, FlagsOK
<1>5. AtStart' BY DEF LineStarts, AtStart
<1>6. PayloadOK' BY Constants DEF LineStarts, PayloadOK, TInv, ReaderOK
<1> QED BY <1>1, <1>2, <1>3, <1>4, <1>5, <1>6 DEF ReaderOK

LEMMA LineEndsOK ==
    ASSUME TInv, NEW line, LineEnds(line) PROVE UserOK' /\ spoilt' \in BOOLEAN
<1>1. CASE UserEnds(line)
  <2>1. TypedOK' BY <1>1 DEF UserEnds, TypedOK
  <2>2. TypedFits' BY <1>1, Constants DEF UserEnds, TypedFits
  <2> QED BY <1>1, <2>1, <2>2 DEF UserEnds, UserOK
<1>2. CASE AnswerEnds
  <2>1. TypedOK' /\ typed' = typed BY <1>2 DEF AnswerEnds, TInv, UserOK, TypedOK
  <2>2. (spoilt => spoilt') /\ spoilt' \in BOOLEAN BY <1>2, Zenon DEF AnswerEnds
  <2>3. TypedFits' BY <2>1, <2>2 DEF TInv, UserOK, TypedFits
  <2> QED BY <2>1, <2>2, <2>3 DEF UserOK
<1> QED BY <1>1, <1>2 DEF LineEnds

LEMMA InitTInv == Init => TInv
<1> SUFFICES ASSUME Init PROVE TInv OBVIOUS
<1> USE DEF Init
<1>1. wire \in Seq(Cells) OBVIOUS
<1>2. LineOK BY Constants DEF LineOK
<1>3. HeldOK BY Constants DEF HeldOK
<1>4. HeldAll BY Constants DEF HeldAll
<1>5. FlagsOK BY DEF FlagsOK
<1>6. AtStart BY DEF AtStart
<1>7. PayloadOK BY Constants DEF PayloadOK
<1>8. QueueOK BY DEF QueueOK
<1>9. AgentOK BY Constants DEF AgentOK
<1>10. BridgeOK BY Constants DEF BridgeOK
<1>11. OutputOK BY DEF OutputOK
<1>12. TypedOK BY DEF TypedOK
<1>13. TypedFits BY Constants DEF TypedFits
<1> QED BY <1>1, <1>2, <1>3, <1>4, <1>5, <1>6, <1>7, <1>8, <1>9, <1>10, <1>11, <1>12, <1>13
        DEF TInv, ReaderOK, UserOK

\* The bytes that are read, one by one.
LEMMA ReadByteTInv == ASSUME TInv, ReadByte PROVE TInv'
<1>0. /\ LineOK /\ HeldOK /\ HeldAll /\ FlagsOK /\ AtStart /\ PayloadOK
      /\ QueueOK /\ AgentOK /\ UserOK /\ TypedOK /\ TypedFits
  BY DEF TInv, ReaderOK, UserOK
<1>1. CASE EndBridgeLine
  <2>1. Read({"newline"}) /\ Prints BY <1>1 DEF EndBridgeLine, Prints
  <2>2. UserOK' /\ spoilt' \in BOOLEAN
    BY <1>0, <1>1 DEF EndBridgeLine, user, UserOK, TypedOK, TypedFits, FlagsOK
  <2>3. ReaderOK' BY <1>1, <2>2, LineStartsOK DEF EndBridgeLine
  <2>4. QueueOK'
    <3> DEFINE e == [len |-> bridge_payload_pos, truncated |-> bridge_payload_truncated,
                     during |-> IF exchange = "idle" THEN 0 ELSE requests]
    <3>1. e \in Entries
      <4>1. (IF exchange = "idle" THEN 0 ELSE requests) \in 0..MaxRequests
        BY <1>0, Constants DEF AgentOK
      <4>2. bridge_payload_truncated \in BOOLEAN BY <1>0 DEF FlagsOK
      <4>3. bridge_payload_pos \in 0..PayloadMax BY <1>0 DEF PayloadOK
      <4> QED BY <4>1, <4>2, <4>3 DEF Entries
    <3>2. s_llm_bridge_queue' = <<e>> BY <1>1 DEF EndBridgeLine
    <3> HIDE DEF e
    <3> QED BY <3>1, <3>2 DEF QueueOK
  <2> QED BY <2>1, <2>2, <2>3, <2>4, ReadTypes DEF TInv
<1>2. CASE EndLine
  <2>1. Read({"newline"}) /\ Prints BY <1>2 DEF EndLine, Prints
  <2>2. UserOK' /\ spoilt' \in BOOLEAN BY <1>2, LineEndsOK DEF EndLine
  <2>3. ReaderOK' BY <1>2, <2>2, LineStartsOK DEF EndLine
  <2>4. QueueOK' BY <1>0, <1>2 DEF EndLine, QueueOK
  <2> QED BY <2>1, <2>2, <2>3, <2>4, ReadTypes DEF TInv
<1>3. CASE Backspace
  <2>1. Read({"backspace"}) /\ Prints BY <1>3 DEF Backspace, Prints
  <2>2. UserOK' /\ UNCHANGED spoilt BY <1>3, UserErasesOK DEF Backspace
  <2>3. LineOK'
    <3>1. line_buf' = line_buf \/ line_buf' = SubSeq(line_buf, 1, Len(line_buf) - 1)
      BY <1>3 DEF Backspace
    <3>2. line_buf' = line_buf => LineOK' BY <1>0 DEF LineOK
    <3>3. line_buf' = SubSeq(line_buf, 1, Len(line_buf) - 1) => LineOK'
      <4>1. line_buf \in Seq(Text) /\ Len(line_buf) <= LineMax BY <1>0 DEF LineOK
      <4>2. LET s == SubSeq(line_buf, 1, Len(line_buf) - 1)
            IN  /\ s \in Seq(Text) /\ Len(s) \in Nat /\ Len(line_buf) \in Nat
                /\ Len(s) <= Len(line_buf)
        BY <4>1, Shorter
      <4> QED BY <4>1, <4>2, Constants DEF LineOK
    <3> QED BY <3>1, <3>2, <3>3
  <2>4. HeldOK' BY <1>0, <1>3, Constants DEF Backspace, HeldOK
  <2>5. HeldAll' BY <1>0, <1>3, Constants DEF Backspace, SamePayload, HeldAll, HeldOK
  <2>6. FlagsOK' BY <1>0, <1>3, <2>2 DEF Backspace, SamePayload, FlagsOK
  <2>7. AtStart' BY <1>0, <1>3 DEF Backspace, AtStart
  <2>8. PayloadOK' BY <1>0, <1>3 DEF Backspace, SamePayload, PayloadOK
  <2>9. QueueOK' BY <1>0, <1>3 DEF Backspace, QueueOK
  <2> QED BY <2>1, <2>2, <2>3, <2>4, <2>5, <2>6, <2>7, <2>8, <2>9, ReadTypes DEF TInv, ReaderOK
<1>4. CASE BridgeByte
  <2>1. Read(Text) /\ Prints BY <1>4 DEF BridgeByte, Prints
  <2>2. UserOK' BY <1>0, <1>4 DEF BridgeByte, user, UserOK, TypedOK, TypedFits
  <2>3. LineOK' /\ HeldOK' /\ HeldAll' /\ AtStart'
    BY <1>0, <1>4 DEF BridgeByte, LineOK, HeldOK, HeldAll, AtStart
  <2>4. FlagsOK' BY <1>0, <1>4 DEF BridgeByte, user, FlagsOK
  <2>5. PayloadOK'
    <3>1. Head(wire).from \in 0..MaxRequests BY <2>1, ReadTypes
    <3>2. \/ /\ bridge_payload_pos' = bridge_payload_pos + 1
             /\ bridge_payload_pos < PayloadMax
             /\ s_llm_bridge_payload' = [s_llm_bridge_payload EXCEPT ![bridge_payload_pos + 1] =
                                                        Head(wire).from]
          \/ UNCHANGED <<bridge_payload_pos, s_llm_bridge_payload>>
      BY <1>4 DEF BridgeByte
    <3>3. PayloadOK BY <1>0
    <3>4. CASE UNCHANGED <<bridge_payload_pos, s_llm_bridge_payload>> BY <3>3, <3>4 DEF PayloadOK
    <3>5. CASE /\ bridge_payload_pos' = bridge_payload_pos + 1
               /\ bridge_payload_pos < PayloadMax
               /\ s_llm_bridge_payload' = [s_llm_bridge_payload EXCEPT ![bridge_payload_pos + 1] =
                                                          Head(wire).from]
      <4>1. bridge_payload_pos' \in 0..PayloadMax BY <3>3, <3>5, Constants DEF PayloadOK
      <4>2. s_llm_bridge_payload' \in [1..PayloadMax -> 0..MaxRequests]
        BY <3>1, <3>3, <3>5 DEF PayloadOK
      <4> QED BY <4>1, <4>2 DEF PayloadOK
    <3> QED BY <3>2, <3>4, <3>5
  <2>6. QueueOK' BY <1>0, <1>4 DEF BridgeByte, QueueOK
  <2> QED BY <2>1, <2>2, <2>3, <2>4, <2>5, <2>6, ReadTypes DEF TInv, ReaderOK
<1>5. CASE PrefixByte
  <2>1. Read(Text) /\ Prints BY <1>5 DEF PrefixByte, Prints
  <2>2. UserOK' /\ spoilt' \in BOOLEAN
    <3>1. Next1 \in Text BY <2>1 DEF Read
    <3> QED BY <1>5, <3>1, UserTypesOK DEF PrefixByte
  <2>3. LineOK' BY <1>0, <1>5 DEF PrefixByte, LineOK
  <2>4. /\ ~bridge_line /\ held_echo_len' = held_echo_len + 1
        /\ held_echo_len' = Len(Prefix) => bridge_line' = TRUE /\ prefix_check_active' = FALSE
        /\ held_echo_len' # Len(Prefix) => UNCHANGED <<bridge_line, prefix_check_active>>
    BY <1>5 DEF PrefixByte, SamePayload
  <2>5. HeldOK'
    <3>1. held_echo_len # Len(Prefix) BY <1>0, <2>4 DEF HeldAll
    <3> QED BY <1>0, <2>4, <3>1, Constants DEF HeldOK
  <2>6. HeldAll' BY <2>4 DEF HeldAll
  <2>7. FlagsOK' BY <1>0, <1>5, <2>2 DEF PrefixByte, SamePayload, FlagsOK
  <2>8. AtStart'
    <3>1. UNCHANGED line_buf /\ line_buf = <<>>
      BY <1>0, <1>5 DEF PrefixByte, NextOfPrefix, AtStart
    <3> QED BY <3>1 DEF AtStart
  <2>9. PayloadOK'
    <3>1. UNCHANGED s_llm_bridge_payload /\ bridge_payload_pos' \in {0, bridge_payload_pos}
      BY <1>5 DEF PrefixByte, SamePayload
    <3> QED BY <1>0, <3>1, Constants DEF PayloadOK
  <2>10. QueueOK' BY <1>0, <1>5 DEF PrefixByte, QueueOK
  <2> QED BY <2>1, <2>2, <2>3, <2>5, <2>6, <2>7, <2>8, <2>9, <2>10, ReadTypes DEF TInv, ReaderOK
<1>6. CASE LineByte
  <2>1. Read(Text) /\ Prints BY <1>6 DEF LineByte, Prints
  <2>2. Next1 \in Text BY <2>1 DEF Read
  <2>3. LineOK'
    <3>1. line_buf \in Seq(Text) /\ Held \in Seq(Text) BY <1>0, HeldFacts DEF LineOK
    <3>2. line_buf \o Held \in Seq(Text) BY <3>1, ConcatProperties
    <3> DEFINE line == line_buf \o Held
    <3>3. line \in Seq(Text) BY <3>2
    <3> HIDE DEF line
    <3>4. Fits(line) \in Seq(Text) BY <3>3, FitsFacts
    <3>5. Fits(line_buf \o Held) \in Seq(Text) /\ <<Next1>> \in Seq(Text)
      BY <2>2, <3>4 DEF line
    <3>6. Fits(line_buf \o Held) \o <<Next1>> \in Seq(Text) BY <3>5, ConcatProperties
    <3>7. line_buf' \in Seq(Text) /\ Len(line_buf') <= LineMax
      BY <1>6, <3>6, FitsFacts DEF LineByte
    <3> QED BY <3>7 DEF LineOK
  <2>4. UserOK' /\ spoilt' \in BOOLEAN BY <1>6, <2>2, UserTypesOK DEF LineByte
  <2>5. HeldOK' /\ HeldAll'
    <3>1. held_echo_len' = 0 /\ ~bridge_line /\ UNCHANGED bridge_line
      BY <1>6 DEF LineByte, SamePayload
    <3>2. HeldOK' BY <3>1, Constants DEF HeldOK
    <3>3. HeldAll' BY <3>1, Constants DEF HeldAll
    <3> QED BY <3>2, <3>3
  <2>6. FlagsOK' BY <1>0, <1>6, <2>4 DEF LineByte, SamePayload, FlagsOK
  <2>7. AtStart' BY <1>6 DEF LineByte, AtStart
  <2>8. PayloadOK' BY <1>0, <1>6 DEF LineByte, SamePayload, PayloadOK
  <2>9. QueueOK' BY <1>0, <1>6 DEF LineByte, QueueOK
  <2> QED BY <2>1, <2>3, <2>4, <2>5, <2>6, <2>7, <2>8, <2>9, ReadTypes DEF TInv, ReaderOK
<1> QED BY <1>1, <1>2, <1>3, <1>4, <1>5, <1>6 DEF ReadByte

\* Who does not read the wire leaves the line alone.
LEMMA SameLineOK == ASSUME TInv, UNCHANGED <<reader, user>> PROVE ReaderOK' /\ UserOK'
<1>1. LineOK' /\ HeldOK' /\ HeldAll' /\ FlagsOK' /\ AtStart'
  BY DEF TInv, ReaderOK, LineOK, HeldOK, HeldAll, FlagsOK, AtStart, reader, user
<1>2. PayloadOK' BY DEF TInv, ReaderOK, PayloadOK, reader
<1>3. TypedOK' /\ TypedFits' BY DEF TInv, UserOK, TypedOK, TypedFits, user
<1> QED BY <1>1, <1>2, <1>3 DEF ReaderOK, UserOK

LEMMA WriteTInv == ASSUME TInv, Write \/ WriteNewlines PROVE TInv'
<1>1. Prints /\ UNCHANGED <<wire, reader, s_llm_bridge_queue, agent, bridge, user>>
  BY DEF Write, WriteNewlines, Prints
<1>2. QueueOK' BY <1>1 DEF TInv, QueueOK
<1>3. AgentOK' BY <1>1 DEF TInv, AgentOK, agent
<1>4. BridgeOK' /\ OutputOK' BY <1>1, Printed DEF TInv, BridgeOK, OutputOK, agent, bridge
<1> QED BY <1>1, <1>2, <1>3, <1>4, SameLineOK DEF TInv

LEMMA ExchangeTInv == ASSUME TInv, Exchange PROVE TInv'
<1>0. AgentOK /\ BridgeOK /\ OutputOK /\ QueueOK BY DEF TInv
<1>1. UNCHANGED <<wire, reader, bridge, user>>
  BY DEF Exchange, Begin, SendRequest, SendEnd, Timeout, Receive, Copy, Agent
<1>2. ReaderOK' /\ UserOK' BY <1>1, SameLineOK
<1>3. AgentOK'
  <2>1. CASE Begin BY <1>0, <2>1, Constants DEF Begin, Agent, AgentOK
  <2>2. CASE Timeout BY <1>0, <2>2 DEF Timeout, Agent, AgentOK
  <2>3. CASE SendRequest \/ SendEnd \/ Receive \/ Copy
    <3>1. /\ UNCHANGED <<requests, timeouts>> /\ exchange # "idle"
          /\ exchange' \in {"idle", "body", "waiting", "copy"}
      BY <2>3 DEF SendRequest, SendEnd, Receive, Copy, Agent
    <3> QED BY <1>0, <3>1 DEF AgentOK
  <2> QED BY <2>1, <2>2, <2>3 DEF Exchange
<1>4. QueueOK'
  BY <1>0 DEF Exchange, Begin, SendRequest, SendEnd, Timeout, Receive, Copy, QueueOK
<1>5. BridgeOK' /\ OutputOK'
  <2>1. CASE Begin
    BY <1>0, <1>1, <2>1 DEF Begin, Agent, PrintPrefix, BridgeOK, OutputOK, bridge
  <2>2. CASE ~Begin
    <3>1. /\ Prints
          /\ exchange \in {"prefix", "body"} => exchange' = "body" \/ mode' # "suppress_req"
      BY <2>2 DEF Exchange, SendRequest, SendEnd, Timeout, Receive, Copy, Agent, Prints,
                  PrintNewline
    <3> QED BY <1>0, <1>1, <3>1, Printed DEF BridgeOK, OutputOK, bridge
  <2> QED BY <2>1, <2>2
<1> QED BY <1>1, <1>2, <1>3, <1>4, <1>5 DEF TInv

LEMMA BridgeTInv == ASSUME TInv, Bridge PROVE TInv'
<1>0. wire \in Seq(Cells) /\ BridgeOK BY DEF TInv
<1>1. Host BY DEF Bridge, Type, Answer, TakeRequest, Flush
<1>2. ReaderOK' /\ UserOK' BY <1>1, SameLineOK DEF Host
<1>3. QueueOK' BY <1>1 DEF TInv, QueueOK, Host
<1>4. AgentOK' /\ OutputOK' BY <1>1 DEF TInv, AgentOK, OutputOK, Host, agent
<1>5. wire' \in Seq(Cells) /\ BridgeOK'
  <2>1. ASSUME NEW byte \in UserBytes, Type(byte) PROVE wire' \in Seq(Cells) /\ BridgeOK'
    <3>1. <<byte>> \in Seq(UserBytes) BY <2>1
    <3>2. Sent(<<byte>>, 0) \in Seq(Cells) BY <3>1, ShapeOfUser
    <3>3. wire \o Sent(<<byte>>, 0) \in Seq(Cells) BY <1>0, <3>2, Pushed
    <3>4. Append(buffered, byte) \in Seq(UserBytes) BY <1>0, <2>1, AppendProperties DEF BridgeOK
    <3> QED BY <1>0, <2>1, <3>3, <3>4 DEF Type, BridgeOK
  <2>2. CASE TakeRequest
    <3>1. Head(requested) \in 1..MaxRequests /\ Tail(requested) \in Seq(1..MaxRequests)
      BY <1>0, <2>2, HeadTailProperties DEF TakeRequest, BridgeOK
    <3> QED BY <1>0, <2>2, <3>1, Constants DEF TakeRequest, BridgeOK
  <2>3. ASSUME NEW length \in AnswerLengths, Answer(length) PROVE wire' \in Seq(Cells) /\ BridgeOK'
    <3>1. length \in Nat /\ pending \in 0..MaxRequests BY <1>0, SerialAssumption DEF BridgeOK
    <3>2. AnswerTo(pending, length) \in Seq(Cells) BY <3>1, AnswerCells
    <3>3. wire' \in Seq(Cells) BY <1>0, <2>3, <3>2, Pushed DEF Answer, AnswerTo
    <3> QED BY <1>0, <2>3, <3>3, Constants DEF Answer, BridgeOK
  <2>4. CASE Flush
    <3>1. Sent(flushing, 0) \in Seq(Cells) BY <1>0, ShapeOfUser DEF BridgeOK
    <3>2. wire' \in Seq(Cells) BY <1>0, <2>4, <3>1, Pushed DEF Flush
    <3> QED BY <1>0, <2>4, <3>2 DEF Flush, BridgeOK
  <2> QED BY <2>1, <2>2, <2>3, <2>4 DEF Bridge
<1> QED BY <1>2, <1>3, <1>4, <1>5 DEF TInv

LEMMA NextTInv == TInv /\ [Next]_vars => TInv'
<1> SUFFICES ASSUME TInv, [Next]_vars PROVE TInv' OBVIOUS
<1>1. CASE UNCHANGED vars
  <2>1. UNCHANGED <<wire, reader, user, s_llm_bridge_queue, agent, bridge, mode, requested>>
    BY <1>1 DEF vars, output
  <2>2. QueueOK' /\ AgentOK' /\ BridgeOK' /\ OutputOK'
    BY <2>1 DEF TInv, QueueOK, AgentOK, BridgeOK, OutputOK, agent, bridge
  <2> QED BY <2>1, <2>2, SameLineOK DEF TInv
<1> QED BY <1>1, ReadByteTInv, WriteTInv, ExchangeTInv, BridgeTInv DEF Next

\* Every variable stays in its range, and the indices within their buffers.
THEOREM TypeCorrect == Spec => []TypeOK
<1>1. TInv => TypeOK
  <2> SUFFICES ASSUME TInv PROVE TypeOK OBVIOUS
  <2>1. wire \in Seq([byte : Text \cup {"backspace", "newline"}, from : 0..MaxRequests])
    BY DEF TInv, Cells
  <2>2. Len(s_llm_bridge_queue) <= 1
    <3>1. CASE s_llm_bridge_queue = <<>> BY <3>1
    <3>2. CASE \E e \in Entries : s_llm_bridge_queue = <<e>> BY <3>2
    <3> QED BY <3>1, <3>2 DEF TInv, QueueOK
  <2>3. line_buf \in Seq(Text) /\ Len(line_buf) <= LineMax BY DEF TInv, ReaderOK, LineOK
  <2>4. held_echo_len \in 0..Len(Prefix) BY DEF TInv, ReaderOK, HeldOK
  <2>5. held_echo_len = Len(Prefix) <=> bridge_line BY DEF TInv, ReaderOK, HeldAll
  <2>6. /\ prefix_check_active \in BOOLEAN /\ bridge_line \in BOOLEAN
        /\ bridge_payload_truncated \in BOOLEAN
    BY DEF TInv, ReaderOK, FlagsOK
  <2>7. bridge_payload_pos \in 0..PayloadMax BY DEF TInv, ReaderOK, PayloadOK
  <2>8. /\ exchange \in {"idle", "prefix", "body", "waiting", "copy"}
        /\ requests \in 0..MaxRequests /\ timeouts \in 0..requests
    BY DEF TInv, AgentOK
  <2>9. /\ mode \in {"detect", "passthrough", "suppress_req"}
        /\ requested \in Seq(1..MaxRequests) /\ pending \in 0..MaxRequests
    BY DEF TInv, OutputOK, BridgeOK
  <2> QED BY <2>1, <2>2, <2>3, <2>4, <2>5, <2>6, <2>7, <2>8, <2>9, Zenon DEF TypeOK
<1> QED BY <1>1, InitTInv, NextTInv, PTL DEF Spec

-----------------------------------------------------------------------------
(* The lines *)

\* What the invariant says of the first byte and of those behind it.
LEMMA FirstByte ==
    ASSUME TInv, Shape(wire), wire # <<>>, wire' = Tail(wire)
    PROVE  /\ Shape(wire') /\ Head(wire) = wire[1] /\ Next1 = wire[1].byte
           /\ FromUser <=> wire[1].from = 0
           /\ wire[1].from = 0 => wire[1].byte \in UserBytes
           /\ wire[1].from # 0 /\ wire[1].byte # "newline" =>
                 wire' # <<>> /\ wire'[1].from = wire[1].from /\ wire'[1].byte # "p"
           /\ wire' # <<>> /\ wire'[1].byte = "q" => wire[1].byte = "p" /\ wire[1].from # 0
           /\ wire[1].byte = "q" =>
                 wire[1].from # 0 /\ \E n \in AnswerLengths : Rest(wire', 1, n, wire[1].from)
<1>0. wire \in Seq(Cells) BY DEF TInv
<1>1. /\ Len(wire) \in Nat /\ 1 \in 1..Len(wire) /\ Head(wire) = wire[1]
      /\ wire' \in Seq(Cells) /\ Len(wire') = Len(wire) - 1
      /\ wire' # <<>> => Len(wire) > 1 /\ wire'[1] = wire[2]
  BY <1>0, Popped
<1>2. Shape(wire') BY <1>0, ShapeOfTail
<1>3. wire[1].from = 0 => wire[1].byte \in UserBytes BY <1>1 DEF Shape
<1>4. ASSUME wire[1].from # 0, wire[1].byte # "newline"
      PROVE  wire' # <<>> /\ wire'[1].from = wire[1].from /\ wire'[1].byte # "p"
  <2>1. 1 < Len(wire) /\ wire[1 + 1].from = wire[1].from /\ wire[1 + 1].byte # "p"
    BY <1>1, <1>4 DEF Shape
  <2>2. wire' # <<>>
    <3>1. wire' = <<>> => Len(wire') = 0 BY <1>1, EmptySeq
    <3> QED BY <1>1, <2>1, <3>1
  <2> QED BY <1>1, <2>1, <2>2
<1>5. ASSUME wire' # <<>>, wire'[1].byte = "q" PROVE wire[1].byte = "p" /\ wire[1].from # 0
  <2>1. 1 < Len(wire) /\ wire[1 + 1].byte = "q" /\ 2 \in 1..Len(wire) BY <1>1, <1>5
  <2>2. wire[1].byte = "p" /\ wire[1].from = wire[1 + 1].from BY <1>1, <2>1 DEF Shape
  <2>3. wire[2].from # 0 BY <2>1 DEF Shape
  <2> QED BY <2>2, <2>3
<1>6. ASSUME wire[1].byte = "q"
      PROVE  wire[1].from # 0 /\ \E n \in AnswerLengths : Rest(wire', 1, n, wire[1].from)
  <2>1. wire[1].from # 0 /\ \E n \in AnswerLengths : Rest(wire, 1 + 1, n, wire[1].from)
    BY <1>1, <1>6 DEF Shape
  <2>2. PICK n \in AnswerLengths : Rest(wire, 1 + 1, n, wire[1].from) BY <2>1
  <2>3. n \in Nat /\ 1 \in Nat \ {0} BY SerialAssumption
  <2>4. Rest(Tail(wire), 1, n, wire[1].from) BY <1>0, <2>2, <2>3, RestOfTail
  <2> QED BY <2>1, <2>4
<1> QED BY <1>1, <1>2, <1>3, <1>4, <1>5, <1>6 DEF Next1, FromUser

\* An answer's byte before its newline leaves an answer's byte in front.
LEMMA AmidAnswer ==
    ASSUME TInv, LineInv, wire # <<>>, wire' = Tail(wire), wire[1].from # 0,
           wire[1].byte # "newline"
    PROVE  Clean'
BY FirstByte DEF LineInv, Clean

\* The two lines while no answer is being read.
LEMMA OnLine ==
    ASSUME TInv, LineInv, wire # <<>>, wire[1].from = 0 \/ wire[1].byte = "p"
    PROVE  ~bridge_line /\ (spoilt \/ typed = line_buf \o Held) /\ held_echo_len \in {0, 1}
<1>1. ~bridge_line /\ (spoilt \/ typed = line_buf \o Held) BY DEF LineInv, Clean
<1>2. held_echo_len # 2 BY <1>1, Constants DEF TInv, ReaderOK, HeldAll
<1>3. held_echo_len \in 0..2 BY HeldFacts DEF TInv, ReaderOK
<1> QED BY <1>1, <1>2, <1>3

\* At a line's start both lines are empty.
LEMMA NewLine ==
    ASSUME LineStarts, spoilt' \/ typed' = <<>>
    PROVE  Clean' /\ InAnswer' /\ PrefixIsAnswers'
<1>1. line_buf' = <<>> /\ held_echo_len' = 0 /\ bridge_line' = FALSE BY DEF LineStarts
<1>2. (line_buf \o Held)' = <<>>
  <2>1. SubSeq(Prefix, 1, 0) \in Seq(Text) /\ Len(SubSeq(Prefix, 1, 0)) = 0
    BY Constants, SubSeqProperties
  <2>2. Held' = <<>> BY <1>1, <2>1, EmptySeq DEF Held
  <2>3. <<>> \o <<>> = <<>> BY ConcatEmptySeq
  <2> QED BY <1>1, <2>2, <2>3
<1>3. Clean' BY <1>1, <1>2 DEF Clean
<1> QED BY <1>1, <1>3 DEF InAnswer, PrefixIsAnswers

\* A line ended by another byte, with and without it.
LEMMA OneMore ==
    ASSUME NEW line \in Seq(Text), NEW b \in Text
    PROVE  /\ line \o <<b>> \in Seq(Text) /\ line \o <<b>> = Append(line, b)
           /\ Len(line \o <<b>>) = Len(line) + 1 /\ Len(line) \in Nat
           /\ SubSeq(line \o <<b>>, 1, Len(line \o <<b>>) - 1) = line
           /\ line \o <<>> = line
<1>1. <<b>> \in Seq(Text) /\ Len(<<b>>) = 1 /\ <<b>>[1] = b OBVIOUS
<1>2. Len(line) \in Nat BY LenProperties
<1>3. /\ line \o <<b>> \in Seq(Text) /\ Len(line \o <<b>>) = Len(line) + 1
      /\ \A i \in 1..Len(line) : (line \o <<b>>)[i] = line[i]
      /\ (line \o <<b>>)[Len(line) + 1] = b
  <2>1. /\ line \o <<b>> \in Seq(Text) /\ Len(line \o <<b>>) = Len(line) + 1
        /\ \A i \in 1..(Len(line) + 1) :
              (line \o <<b>>)[i] = IF i <= Len(line) THEN line[i] ELSE <<b>>[i - Len(line)]
    BY <1>1, ConcatProperties
  <2>2. \A i \in 1..Len(line) : (line \o <<b>>)[i] = line[i] BY <1>2, <2>1
  <2>3. Len(line) + 1 \in 1..(Len(line) + 1) /\ ~(Len(line) + 1 <= Len(line))
        /\ Len(line) + 1 - Len(line) = 1
    BY <1>2
  <2>4. (line \o <<b>>)[Len(line) + 1] = <<b>>[1] BY <2>1, <2>3
  <2> QED BY <1>1, <2>1, <2>2, <2>4
<1>4. /\ Append(line, b) \in Seq(Text) /\ Len(Append(line, b)) = Len(line) + 1
      /\ \A i \in 1..Len(line) : Append(line, b)[i] = line[i]
      /\ Append(line, b)[Len(line) + 1] = b
  BY AppendProperties
<1> DEFINE longer == line \o <<b>>
           added == Append(line, b)
<1>5. /\ longer \in Seq(Text) /\ Len(longer) = Len(line) + 1
      /\ \A i \in 1..Len(line) : longer[i] = line[i]
      /\ longer[Len(line) + 1] = b
  BY <1>3
<1>6. /\ added \in Seq(Text) /\ Len(added) = Len(line) + 1
      /\ \A i \in 1..Len(line) : added[i] = line[i]
      /\ added[Len(line) + 1] = b
  BY <1>4
<1> HIDE DEF longer, added
<1>7. longer = added
  <2>1. \A i \in 1..Len(longer) : longer[i] = added[i]
    <3> TAKE i \in 1..Len(longer)
    <3>1. i \in 1..Len(line) \/ i = Len(line) + 1 BY <1>2, <1>5
    <3> QED BY <1>5, <1>6, <3>1
  <2> QED BY <1>5, <1>6, <2>1, SeqEqual
<1>8. SubSeq(longer, 1, Len(longer) - 1) = line
  <2> DEFINE s == SubSeq(longer, 1, Len(longer) - 1)
  <2>1. longer # <<>> BY <1>2, <1>5, EmptySeq
  <2>2. /\ s \in Seq(Text) /\ Len(s) = Len(longer) - 1
        /\ \A i \in 1..(Len(longer) - 1) : s[i] = longer[i]
    BY <1>5, <2>1, Shorter
  <2> HIDE DEF s
  <2>3. Len(longer) - 1 = Len(line) BY <1>2, <1>5
  <2>4. \A i \in 1..Len(line) : s[i] = line[i] BY <1>5, <2>2, <2>3
  <2>5. s = line BY <2>2, <2>3, <2>4, SeqEqual
  <2> QED BY <2>5 DEF s
<1> QED BY <1>2, <1>3, <1>7, <1>8, ConcatEmptySeq DEF longer, added

\* The end of an answer, and of a line.
LEMMA LineEndInv == ASSUME TInv, LineInv, EndBridgeLine \/ EndLine PROVE LineInv'
<1>1. wire # <<>> /\ Next1 = "newline" /\ wire' = Tail(wire) /\ LineStarts
  BY DEF EndBridgeLine, EndLine, Read
<1>2. Shape(wire') /\ Next1 = wire[1].byte /\ (FromUser <=> wire[1].from = 0)
  BY <1>1, FirstByte DEF LineInv
<1>3. (spoilt' \/ typed' = <<>>) /\ LinesArriveAsTyped'
  <2>1. CASE EndBridgeLine
    <3>1. UNCHANGED <<typed, spoilt, message>> BY <2>1 DEF EndBridgeLine, user
    <3>2. spoilt \/ typed = <<>> BY <2>1 DEF EndBridgeLine, LineInv, InAnswer
    <3> QED BY <3>1, <3>2 DEF LineInv, LinesArriveAsTyped
  <2>2. CASE EndLine
    <3> DEFINE line == line_buf \o Held
    <3>1. LineEnds(Fits(line)) BY <2>2 DEF EndLine
    <3>2. CASE ~FromUser
      <4>1. AnswerEnds BY <3>1, <3>2 DEF LineEnds
      <4>2. spoilt' \/ typed' = <<>> BY <4>1, Zenon DEF AnswerEnds
      <4> QED BY <4>1, <4>2 DEF AnswerEnds, LineInv, LinesArriveAsTyped
    <3>3. CASE FromUser
      <4>1. spoilt \/ typed = line BY <1>1, <1>2, <3>3, OnLine
      <4>2. spoilt \/ Len(typed) <= LineMax BY DEF TInv, UserOK, TypedFits
      <4>3. typed \in Seq(Text) BY DEF TInv, UserOK, TypedOK
      <4> HIDE DEF line
      <4>4. spoilt \/ Fits(line) = typed BY <4>1, <4>2, <4>3, FitsFacts
      <4>5. message' = [offered |-> Fits(line), typed |-> typed, spoilt |-> spoilt]
        BY <3>1, <3>3 DEF LineEnds, UserEnds
      <4> QED BY <3>1, <3>3, <4>4, <4>5 DEF LineEnds, UserEnds, LinesArriveAsTyped
    <3> QED BY <3>2, <3>3
  <2> QED BY <2>1, <2>2
<1> QED BY <1>1, <1>2, <1>3, NewLine DEF LineInv

\* While no answer is being read, and none comes to be.
LEMMA NoAnswer ==
    ASSUME TInv, LineInv, wire # <<>>, wire' = Tail(wire), ~bridge_line',
           wire[1].from = 0 => Clean', LinesArriveAsTyped',
           wire[1].byte = "p" /\ wire[1].from # 0 => PrefixIsAnswers',
           wire[1].byte # "newline"
    PROVE  LineInv'
<1>1. /\ Shape(wire')
      /\ wire' # <<>> /\ wire'[1].byte = "q" => wire[1].byte = "p" /\ wire[1].from # 0
  BY FirstByte DEF LineInv
<1>2. PrefixIsAnswers' BY <1>1 DEF PrefixIsAnswers
<1>3. Clean' BY AmidAnswer
<1>4. InAnswer' BY DEF InAnswer
<1> QED BY <1>1, <1>2, <1>3, <1>4 DEF LineInv

LEMMA BackspaceInv == ASSUME TInv, LineInv, Backspace PROVE LineInv'
<1>1. /\ wire # <<>> /\ Next1 = "backspace" /\ wire' = Tail(wire)
      /\ ~bridge_line /\ UNCHANGED bridge_line
  BY DEF Backspace, Read, SamePayload
<1>2. Next1 = wire[1].byte BY <1>1, FirstByte DEF LineInv
<1>3. LinesArriveAsTyped'
  BY DEF Backspace, UserErases, NoMessage, LinesArriveAsTyped
<1>4. ASSUME wire[1].from = 0 PROVE Clean'
  <2>1. (spoilt \/ typed = line_buf \o Held) /\ held_echo_len \in {0, 1} BY <1>1, <1>4, OnLine
  <2>2. line_buf \in Seq(Text) /\ HeldOK BY DEF TInv, ReaderOK, LineOK
  <2>3. /\ held_echo_len = 0 => Held = <<>>
        /\ held_echo_len = 1 => Held = <<"p">> /\ "p" \in Text
    BY <2>2, HeldFacts, Constants
  <2>4. line_buf \o <<>> = line_buf BY <2>2, ConcatEmptySeq
  <2>5. SubSeq(Prefix, 1, 0) = <<>>
    <3>1. SubSeq(Prefix, 1, 0) \in Seq(Text) /\ Len(SubSeq(Prefix, 1, 0)) = 0
      BY Constants, SubSeqProperties
    <3> QED BY <3>1, EmptySeq
  <2>6. CASE held_echo_len = 1
    <3>1. /\ line_buf' = line_buf /\ held_echo_len' = 0 /\ UserErases
      BY <2>6 DEF Backspace
    <3>2. (line_buf \o Held)' = line_buf BY <2>4, <2>5, <3>1 DEF Held
    <3>3. SubSeq(line_buf \o <<"p">>, 1, Len(line_buf \o <<"p">>) - 1) = line_buf
      BY <2>2, <2>3, <2>6, OneMore
    <3>4. spoilt' \/ typed' = line_buf BY <2>1, <2>3, <2>6, <3>1, <3>3 DEF UserErases
    <3> QED BY <1>1, <3>2, <3>4 DEF Clean
  <2>7. CASE held_echo_len = 0 /\ line_buf # <<>>
    <3>1. /\ line_buf' = SubSeq(line_buf, 1, Len(line_buf) - 1) /\ held_echo_len' = 0
          /\ UserErases
      BY <2>7 DEF Backspace
    <3>2. line_buf' \in Seq(Text) BY <2>2, <3>1, Shorter
    <3>3. (line_buf \o Held)' = line_buf'
      <4>1. line_buf' \o <<>> = line_buf' BY <3>2, ConcatEmptySeq
      <4> QED BY <2>5, <3>1, <4>1 DEF Held
    <3>4. spoilt' \/ typed' = line_buf' BY <2>1, <2>3, <2>4, <2>7, <3>1 DEF UserErases
    <3> QED BY <1>1, <3>3, <3>4 DEF Clean
  <2>8. CASE held_echo_len = 0 /\ line_buf = <<>>
    <3>1. UNCHANGED <<line_buf, held_echo_len>> /\ UserErases BY <2>8 DEF Backspace
    <3>2. Held = <<>> /\ Held' = Held BY <2>3, <2>8, <3>1 DEF Held
    <3>3. typed = <<>> => typed' = <<>>
      <4>1. typed \in Seq(Text) BY DEF TInv, UserOK, TypedOK
      <4>2. /\ typed' \in Seq(Text) /\ Len(typed') \in Nat /\ Len(typed') <= Len(typed)
        BY <3>1, <4>1, Shorter DEF UserErases
      <4>3. typed = <<>> => Len(typed) = 0 OBVIOUS
      <4> QED BY <4>2, <4>3, EmptySeq
    <3>4. line_buf \o Held = <<>> BY <2>4, <2>8, <3>2
    <3>5. UNCHANGED spoilt BY <3>1 DEF UserErases
    <3> QED BY <1>1, <2>1, <3>1, <3>2, <3>3, <3>4, <3>5 DEF Clean
  <2> QED BY <2>1, <2>6, <2>7, <2>8
<1> QED BY <1>1, <1>2, <1>3, <1>4, NoAnswer

\* What a byte of a line does to the user's.
LEMMA TypedByte ==
    ASSUME TInv, LineInv, NEW b \in Text, UserTypes(b)
    PROVE  /\ LinesArriveAsTyped'
           /\ ~FromUser => typed' = typed
           /\ FromUser => typed' = typed \o <<b>>
           /\ spoilt \/ typed = <<>> => FromUser \/ spoilt' \/ typed' = <<>>
           /\ spoilt' \/ (~spoilt /\ Len(typed') <= LineMax)
<1>1. typed \in Seq(Text) BY DEF TInv, UserOK, TypedOK
<1>2. Append(typed, b) = typed \o <<b>> BY <1>1, OneMore
<1>3. LinesArriveAsTyped'
  <2>1. CASE FromUser BY <2>1 DEF UserTypes, NoMessage, LinesArriveAsTyped
  <2>2. CASE ~FromUser
    <3>1. message' = message BY <2>2 DEF UserTypes
    <3> QED BY <3>1 DEF LineInv, LinesArriveAsTyped
  <2> QED BY <2>1, <2>2
<1>4. spoilt' \/ (~spoilt /\ Len(typed') <= LineMax)
  <2>1. Len(typed') \in Nat
    <3>1. typed' \in Seq(Text) BY UserTypesOK DEF UserOK, TypedOK
    <3> QED BY <3>1, LenProperties
  <2>2. spoilt \/ Len(typed') > LineMax => spoilt' BY Zenon DEF UserTypes
  <2>3. ~(Len(typed') > LineMax) => Len(typed') <= LineMax BY <2>1, Constants
  <2> QED BY <2>2, <2>3, Zenon
<1>5. spoilt => spoilt' BY Zenon DEF UserTypes
<1>6. /\ ~FromUser => typed' = typed
      /\ FromUser => typed' = typed \o <<b>>
  BY <1>2 DEF UserTypes
<1> QED BY <1>3, <1>4, <1>5, <1>6

\* A byte of an answer's body.
LEMMA BridgeByteInv == ASSUME TInv, LineInv, BridgeByte PROVE LineInv'
<1>1. /\ wire # <<>> /\ Next1 \in Text /\ wire' = Tail(wire)
      /\ bridge_line /\ UNCHANGED <<bridge_line, line_buf, held_echo_len, typed, spoilt, message>>
  BY DEF BridgeByte, Read, user
<1>2. Shape(wire') /\ Next1 = wire[1].byte /\ Head(wire) = wire[1]
  BY <1>1, FirstByte DEF LineInv
<1>3. wire[1].from # 0 /\ wire[1].byte # "newline" BY <1>1, <1>2 DEF LineInv, InAnswer, Text
<1>4. wire' # <<>> /\ wire'[1].from = wire[1].from BY <1>1, <1>3, FirstByte DEF LineInv
<1>5. Clean' BY <1>1, <1>3, AmidAnswer
<1>6. PrefixIsAnswers'
  <2>1. held_echo_len # 1 BY <1>1, Constants DEF TInv, ReaderOK, HeldAll
  <2> QED BY <1>1, <2>1 DEF PrefixIsAnswers
<1>7. \E n \in 0..Len(wire') :
         /\ Rest(wire', 1, n, wire'[1].from)
         /\ bridge_payload_truncated' \/ bridge_payload_pos' + n \in AnswerLengths
  <2>0. wire \in Seq(Cells) BY DEF TInv
  <2>1. /\ Len(wire) \in Nat /\ Len(wire') \in Nat /\ Len(wire') = Len(wire) - 1
        /\ Tail(wire) \in Seq(Cells)
    BY <1>1, <2>0, Popped, LenProperties
  <2>2. PICK n \in 0..Len(wire) :
           /\ Rest(wire, 1, n, wire[1].from)
           /\ bridge_payload_truncated \/ bridge_payload_pos + n \in AnswerLengths
    BY <1>1 DEF LineInv, InAnswer
  <2>3. n # 0 BY <1>3, <2>2 DEF Rest
  <2>4. n - 1 \in Nat /\ (1 + 1) + (n - 1) = 1 + n BY <2>1, <2>2, <2>3
  <2>5. Rest(wire, 1 + 1, n - 1, wire[1].from) BY <2>1, <2>2, <2>4 DEF Rest
  <2>6. Rest(wire', 1, n - 1, wire[1].from) BY <1>1, <2>0, <2>4, <2>5, RestOfTail
  <2>7. n - 1 \in 0..Len(wire') BY <2>1, <2>2, <2>4
  <2>8. bridge_payload_truncated' \/ bridge_payload_pos' + (n - 1) \in AnswerLengths
    <3>1. CASE bridge_payload_pos < PayloadMax
      <4>1. bridge_payload_pos' = bridge_payload_pos + 1 /\ UNCHANGED bridge_payload_truncated
        BY <3>1 DEF BridgeByte
      <4>2. bridge_payload_pos' + (n - 1) = bridge_payload_pos + n
        BY <2>4, <4>1 DEF TInv, ReaderOK, PayloadOK
      <4> QED BY <2>2, <4>1, <4>2
    <3>2. CASE ~(bridge_payload_pos < PayloadMax) BY <3>2 DEF BridgeByte
    <3> QED BY <3>1, <3>2
  <2> QED BY <1>4, <2>6, <2>7, <2>8
<1>8. ASSUME NEW i \in 1..(bridge_payload_pos') PROVE s_llm_bridge_payload'[i] = wire[1].from
  <2>1. \A j \in 1..bridge_payload_pos : s_llm_bridge_payload[j] = wire[1].from
    BY <1>1 DEF LineInv, InAnswer
  <2>2. PayloadOK BY DEF TInv, ReaderOK
  <2>3. CASE bridge_payload_pos < PayloadMax
    <3>1. /\ bridge_payload_pos' = bridge_payload_pos + 1
          /\ s_llm_bridge_payload' = [s_llm_bridge_payload EXCEPT ![bridge_payload_pos + 1] =
                                                        wire[1].from]
      BY <1>2, <2>3 DEF BridgeByte
    <3>2. bridge_payload_pos + 1 \in 1..PayloadMax /\ i \in 1..PayloadMax
      BY <2>2, <2>3, <3>1, Constants DEF PayloadOK
    <3>3. i \in 1..bridge_payload_pos \/ i = bridge_payload_pos + 1 BY <2>2, <3>1 DEF PayloadOK
    <3> QED BY <2>1, <2>2, <3>1, <3>2, <3>3 DEF PayloadOK
  <2>4. CASE ~(bridge_payload_pos < PayloadMax)
    <3>1. UNCHANGED <<bridge_payload_pos, s_llm_bridge_payload>> BY <2>4 DEF BridgeByte
    <3> QED BY <2>1, <3>1
  <2> QED BY <2>3, <2>4
<1>9. InAnswer'
  <2>1. wire'[1].from # 0 BY <1>3, <1>4
  <2>2. \A i \in 1..(bridge_payload_pos') : s_llm_bridge_payload'[i] = wire'[1].from
    BY <1>4, <1>8
  <2>3. spoilt' \/ typed' = <<>> BY <1>1 DEF LineInv, InAnswer
  <2> QED BY <1>4, <1>7, <2>1, <2>2, <2>3 DEF InAnswer
<1>10. LinesArriveAsTyped' BY <1>1 DEF LineInv, LinesArriveAsTyped
<1> QED BY <1>2, <1>5, <1>6, <1>9, <1>10 DEF LineInv

\* A byte of the prefix: the user's own "p", or an answer's two.
LEMMA PrefixByteInv == ASSUME TInv, LineInv, PrefixByte PROVE LineInv'
<1>1. /\ wire # <<>> /\ Next1 \in Text /\ wire' = Tail(wire) /\ UserTypes(Next1)
      /\ ~bridge_line /\ prefix_check_active /\ Next1 = Prefix[held_echo_len + 1]
      /\ held_echo_len' = held_echo_len + 1 /\ line_buf' = line_buf
      /\ held_echo_len' # Len(Prefix) => UNCHANGED bridge_line
      /\ held_echo_len' = Len(Prefix) => bridge_payload_pos' = 0
  BY DEF PrefixByte, Read, NextOfPrefix, SamePayload
<1>2. /\ Shape(wire') /\ Next1 = wire[1].byte /\ (FromUser <=> wire[1].from = 0)
      /\ wire[1].from = 0 => wire[1].byte \in UserBytes
  BY <1>1, FirstByte DEF LineInv
<1>3. wire[1].byte # "newline" BY <1>1, <1>2 DEF Text
<1>4. line_buf = <<>> BY <1>1 DEF TInv, ReaderOK, AtStart
<1>5. held_echo_len \in {0, 1}
  <2>1. held_echo_len # 2 BY <1>1, Constants DEF TInv, ReaderOK, HeldAll
  <2>2. held_echo_len \in 0..2 BY HeldFacts DEF TInv, ReaderOK
  <2> QED BY <2>1, <2>2
<1>6. HeldOK /\ HeldOK' BY <1>1, <1>5, Constants DEF TInv, ReaderOK, HeldOK
<1>7. /\ LinesArriveAsTyped'
      /\ ~FromUser => typed' = typed
      /\ FromUser => typed' = typed \o <<Next1>>
      /\ spoilt' \/ ~spoilt
  BY <1>1, TypedByte
<1>8. CASE held_echo_len = 0
  <2>1. Next1 = "p" /\ held_echo_len' = 1 /\ ~bridge_line' BY <1>1, <1>8, Constants
  <2>2. spoilt \/ typed = <<>>
    <3>1. spoilt \/ typed = line_buf \o Held BY <1>1, <1>2, <2>1, OnLine
    <3>2. line_buf \o Held = <<>> BY <1>4, <1>6, <1>8, HeldFacts, ConcatEmptySeq
    <3> QED BY <3>1, <3>2
  <2>3. ASSUME wire[1].from = 0 PROVE Clean'
    <3>1. Held' = <<"p">>
      <4>1. Held' = SubSeq(Prefix, 1, 1) BY <2>1 DEF Held
      <4>2. SubSeq(Prefix, 1, 1) \in Seq(Text) /\ Len(SubSeq(Prefix, 1, 1)) = 1
            /\ SubSeq(Prefix, 1, 1)[1] = "p"
        <5>1. \A i \in 1..1 : Prefix[i] \in Text BY Constants
        <5>2. /\ SubSeq(Prefix, 1, 1) \in Seq(Text)
              /\ Len(SubSeq(Prefix, 1, 1)) = IF 1 <= 1 THEN 1 - 1 + 1 ELSE 0
              /\ \A i \in 1..(1 - 1 + 1) : SubSeq(Prefix, 1, 1)[i] = Prefix[1 + i - 1]
          BY <5>1, SubSeqProperties
        <5>3. SubSeq(Prefix, 1, 1)[1] = Prefix[1] BY <5>2
        <5> QED BY <5>2, <5>3, Constants
      <4>3. SubSeq(Prefix, 1, 1) = <<"p">>
        <5>1. <<"p">> \in Seq(Text) /\ Len(<<"p">>) = 1 /\ <<"p">>[1] = "p" BY Constants
        <5> DEFINE s == SubSeq(Prefix, 1, 1)
        <5>2. s \in Seq(Text) /\ Len(s) = 1 /\ s[1] = "p" BY <4>2
        <5> HIDE DEF s
        <5>3. s = <<"p">> BY <5>1, <5>2, SeqEqual
        <5> QED BY <5>3 DEF s
      <4> QED BY <4>1, <4>3
    <3>2. (line_buf \o Held)' = <<"p">> BY <1>1, <1>4, <3>1, ConcatEmptySeq
    <3>3. spoilt' \/ typed' = <<"p">> BY <1>2, <1>7, <2>1, <2>2, <2>3, ConcatEmptySeq
    <3> QED BY <2>1, <3>2, <3>3 DEF Clean
  <2>4. ASSUME wire[1].from # 0 PROVE PrefixIsAnswers'
    BY <1>2, <1>7, <2>2, <2>4 DEF PrefixIsAnswers
  <2> QED BY <1>1, <1>3, <1>7, <2>1, <2>3, <2>4, NoAnswer
<1>9. CASE held_echo_len = 1
  <2>1. wire[1].byte = "q" /\ held_echo_len' = 2
    <3>1. Next1 = Prefix[2] /\ held_echo_len' = 2 BY <1>1, <1>9
    <3> QED BY <1>2, <3>1, Constants
  <2>2. wire[1].from # 0 /\ \E n \in AnswerLengths : Rest(wire', 1, n, wire[1].from)
    BY <1>1, <2>1, FirstByte DEF LineInv
  <2>3. wire' # <<>> /\ wire'[1].from = wire[1].from
    BY <1>1, <1>3, <2>2, FirstByte DEF LineInv
  <2>4. spoilt' \/ typed' = <<>>
    BY <1>1, <1>2, <1>7, <1>9, <2>1, <2>2 DEF LineInv, PrefixIsAnswers
  <2>5. \E n \in 0..Len(wire') :
           /\ Rest(wire', 1, n, wire'[1].from)
           /\ bridge_payload_truncated' \/ bridge_payload_pos' + n \in AnswerLengths
    <3>1. PICK n \in AnswerLengths : Rest(wire', 1, n, wire[1].from) BY <2>2
    <3>2. n \in Nat /\ 1 + n \in 1..Len(wire') BY <3>1, SerialAssumption DEF Rest
    <3>3. Len(wire') \in Nat
      <4>1. wire' \in Seq(Cells) BY <1>1, Popped DEF TInv
      <4> QED BY <4>1, LenProperties
    <3>4. n \in 0..Len(wire') /\ 0 + n = n BY <3>2, <3>3
    <3>5. bridge_payload_pos' = 0 BY <1>1, <2>1, Constants
    <3> QED BY <2>3, <3>1, <3>4, <3>5
  <2>6. \A i \in 1..(bridge_payload_pos') : FALSE BY <1>1, <2>1, Constants
  <2>7. InAnswer' BY <2>2, <2>3, <2>4, <2>5, <2>6 DEF InAnswer
  <2>8. PrefixIsAnswers' BY <2>1 DEF PrefixIsAnswers
  <2>9. Clean' BY <1>1, <1>3, <2>2, AmidAnswer
  <2> QED BY <1>2, <1>7, <2>7, <2>8, <2>9 DEF LineInv
<1> QED BY <1>5, <1>8, <1>9

\* Any other byte of a line.
LEMMA LineByteInv == ASSUME TInv, LineInv, LineByte PROVE LineInv'
<1>1. /\ wire # <<>> /\ Next1 \in Text /\ wire' = Tail(wire) /\ UserTypes(Next1)
      /\ ~bridge_line /\ UNCHANGED bridge_line /\ held_echo_len' = 0
      /\ line_buf' = Fits(Fits(line_buf \o Held) \o <<Next1>>)
  BY DEF LineByte, Read, SamePayload
<1>2. Next1 = wire[1].byte /\ (FromUser <=> wire[1].from = 0) BY <1>1, FirstByte DEF LineInv
<1>3. wire[1].byte # "newline" BY <1>1, <1>2 DEF Text
<1>4. /\ LinesArriveAsTyped' /\ (FromUser => typed' = typed \o <<Next1>>)
      /\ spoilt' \/ (~spoilt /\ Len(typed') <= LineMax)
  BY <1>1, TypedByte
<1>5. PrefixIsAnswers' BY <1>1 DEF PrefixIsAnswers
<1>6. ASSUME wire[1].from = 0 PROVE Clean'
  <2> DEFINE line == line_buf \o Held
  <2>1. spoilt \/ typed = line BY <1>1, <1>6, OnLine
  <2> HIDE DEF line
  <2>2. typed \in Seq(Text) /\ (spoilt \/ Len(typed) <= LineMax)
    BY DEF TInv, UserOK, TypedOK, TypedFits
  <2>3. spoilt \/ Fits(line) = typed BY <2>1, <2>2, FitsFacts
  <2>4. line_buf' = Fits(Fits(line) \o <<Next1>>) BY <1>1 DEF line
  <2>5. spoilt' \/ line_buf' = typed'
    <3> SUFFICES ASSUME ~spoilt' PROVE line_buf' = typed' OBVIOUS
    <3>1. ~spoilt /\ Len(typed') <= LineMax BY <1>4
    <3>2. line_buf' = Fits(typed') BY <1>2, <1>4, <1>6, <2>3, <2>4, <3>1
    <3>3. typed' \in Seq(Text) BY <1>1, UserTypesOK DEF UserOK, TypedOK
    <3> QED BY <3>1, <3>2, <3>3, FitsFacts
  <2>6. (line_buf \o Held)' = line_buf'
    <3>1. SubSeq(Prefix, 1, 0) \in Seq(Text) /\ Len(SubSeq(Prefix, 1, 0)) = 0
      BY Constants, SubSeqProperties
    <3>2. Held' = <<>> BY <1>1, <3>1, EmptySeq DEF Held
    <3>3. line_buf' \in Seq(Text)
      <4>1. ReadByte BY DEF ReadByte
      <4> QED BY <4>1, ReadByteTInv DEF TInv, ReaderOK, LineOK
    <3> QED BY <3>2, <3>3, ConcatEmptySeq
  <2> QED BY <1>1, <2>5, <2>6 DEF Clean
<1> QED BY <1>1, <1>3, <1>4, <1>5, <1>6, NoAnswer

LEMMA ReadByteInv == ASSUME TInv, LineInv, ReadByte PROVE LineInv'
BY LineEndInv, BackspaceInv, BridgeByteInv, PrefixByteInv, LineByteInv DEF ReadByte

\* What does not touch the wire leaves the line alone.
LEMMA SameLineInv == ASSUME LineInv, UNCHANGED <<wire, reader, user>> PROVE LineInv'
<1>1. Shape(wire') BY DEF LineInv
<1>2. Clean' BY DEF LineInv, Clean, Held, reader, user
<1>3. PrefixIsAnswers' BY DEF LineInv, PrefixIsAnswers, reader, user
<1>4. InAnswer' BY DEF LineInv, InAnswer, reader, user
<1>5. LinesArriveAsTyped' BY DEF LineInv, LinesArriveAsTyped, user
<1> QED BY <1>1, <1>2, <1>3, <1>4, <1>5 DEF LineInv

\* Whole answers and the user's bytes go behind what is there.
LEMMA SentInv ==
    ASSUME TInv, LineInv, UNCHANGED <<reader, user>>, NEW v \in Seq(Cells), Shape(v),
           wire' = wire \o v, v # <<>> => v[1].byte # "q"
    PROVE  LineInv'
<1>1. /\ wire \in Seq(Cells)
      /\ wire # <<>> => wire' # <<>> /\ wire'[1] = wire[1]
      /\ wire = <<>> => wire' = v
      /\ Len(wire) \in Nat /\ Len(v) \in Nat /\ Len(wire') = Len(wire) + Len(v)
  BY Pushed DEF TInv
<1>2. Shape(wire') BY <1>1, ShapeOfConcat DEF LineInv
<1>3. Clean'
  <2>1. /\ wire = <<>> \/ wire[1].from = 0 \/ wire[1].byte = "p" =>
              ~bridge_line /\ (spoilt \/ typed = line_buf \o Held)
        /\ UNCHANGED <<bridge_line, spoilt, typed, line_buf, Held>>
    BY DEF LineInv, Clean, Held, reader, user
  <2> QED BY <1>1, <2>1 DEF Clean
<1>4. PrefixIsAnswers'
  <2>1. UNCHANGED <<prefix_check_active, held_echo_len, spoilt, typed>> BY DEF reader, user
  <2> QED BY <1>1, <2>1 DEF LineInv, PrefixIsAnswers
<1>5. InAnswer'
  <2>1. UNCHANGED <<bridge_line, bridge_payload_truncated, bridge_payload_pos,
                    s_llm_bridge_payload, spoilt, typed>>
    BY DEF reader, user
  <2>2. SUFFICES ASSUME bridge_line PROVE InAnswer'
    BY <2>1 DEF InAnswer
  <2>3. wire # <<>> /\ wire'[1] = wire[1] /\ wire' # <<>> BY <1>1, <2>2 DEF LineInv, InAnswer
  <2>4. PICK n \in 0..Len(wire) :
           /\ Rest(wire, 1, n, wire[1].from)
           /\ bridge_payload_truncated \/ bridge_payload_pos + n \in AnswerLengths
    BY <2>2 DEF LineInv, InAnswer
  <2>5. n \in Nat /\ n \in 0..Len(wire') /\ 1 \in Nat \ {0} BY <1>1, <2>4
  <2>6. Rest(wire', 1, n, wire'[1].from) BY <1>1, <2>3, <2>4, <2>5, RestOfConcat
  <2>7. \E m \in 0..Len(wire') :
           /\ Rest(wire', 1, m, wire'[1].from)
           /\ bridge_payload_truncated' \/ bridge_payload_pos' + m \in AnswerLengths
    BY <2>1, <2>4, <2>5, <2>6
  <2>8. /\ wire'[1].from # 0 /\ (spoilt' \/ typed' = <<>>)
        /\ \A i \in 1..(bridge_payload_pos') : s_llm_bridge_payload'[i] = wire'[1].from
    BY <2>1, <2>2, <2>3 DEF LineInv, InAnswer
  <2> QED BY <2>3, <2>7, <2>8 DEF InAnswer
<1>6. LinesArriveAsTyped' BY DEF LineInv, LinesArriveAsTyped, user
<1> QED BY <1>2, <1>3, <1>4, <1>5, <1>6 DEF LineInv

LEMMA BridgeLineInv == ASSUME TInv, LineInv, Bridge PROVE LineInv'
<1>0. UNCHANGED <<reader, user>> /\ BridgeOK
  BY DEF Bridge, Type, Answer, TakeRequest, Flush, Host, TInv
<1>1. ASSUME NEW b \in Seq(UserBytes), wire' = wire \o Sent(b, 0) PROVE LineInv'
  <2> DEFINE v == Sent(b, 0)
  <2>1. v \in Seq(Cells) /\ Shape(v) /\ \A i \in 1..Len(v) : v[i].byte # "q" BY ShapeOfUser
  <2>2. wire' = wire \o v BY <1>1
  <2> HIDE DEF v
  <2>3. v # <<>> => v[1].byte # "q" BY <2>1, Popped
  <2> QED BY <1>0, <2>1, <2>2, <2>3, SentInv
<1>2. CASE UNCHANGED wire BY <1>0, <1>2, SameLineInv
<1>3. ASSUME NEW byte \in UserBytes, Type(byte) PROVE LineInv'
  <2>1. <<byte>> \in Seq(UserBytes) OBVIOUS
  <2>2. UNCHANGED wire \/ wire' = wire \o Sent(<<byte>>, 0) BY <1>3 DEF Type
  <2> QED BY <1>1, <1>2, <2>1, <2>2
<1>4. ASSUME NEW length \in AnswerLengths, Answer(length) PROVE LineInv'
  <2> DEFINE v == AnswerTo(pending, length)
  <2>1. pending \in 1..MaxRequests /\ pending \in 0..MaxRequests /\ length \in Nat
    BY <1>0, <1>4, SerialAssumption DEF BridgeOK, Answer
  <2>2. v \in Seq(Cells) /\ v[1].byte = "p" BY <2>1, AnswerCells
  <2>3. Shape(v) BY <2>1, ShapeOfAnswer
  <2>4. wire' = wire \o v BY <1>4 DEF Answer, AnswerTo
  <2> HIDE DEF v
  <2> QED BY <1>0, <2>2, <2>3, <2>4, SentInv
<1>5. CASE TakeRequest BY <1>2, <1>5 DEF TakeRequest
<1>6. CASE Flush BY <1>0, <1>1, <1>6 DEF Flush, BridgeOK
<1> QED BY <1>3, <1>4, <1>5, <1>6 DEF Bridge

LEMMA InitLineInv == Init => LineInv
<1> SUFFICES ASSUME Init PROVE LineInv OBVIOUS
<1> USE DEF Init
<1>1. Shape(wire) BY DEF Shape
<1>2. Clean
  <2>1. HeldOK /\ held_echo_len = 0 BY Constants DEF HeldOK
  <2>2. Held = <<>> BY <2>1, HeldFacts
  <2>3. <<>> \o <<>> = <<>> BY ConcatEmptySeq
  <2> QED BY <2>2, <2>3 DEF Clean
<1>3. PrefixIsAnswers /\ InAnswer BY DEF PrefixIsAnswers, InAnswer
<1>4. LinesArriveAsTyped BY DEF LinesArriveAsTyped, NoMessage
<1> QED BY <1>1, <1>2, <1>3, <1>4 DEF LineInv

LEMMA NextLineInv == TInv /\ LineInv /\ [Next]_vars => LineInv'
<1> SUFFICES ASSUME TInv, LineInv, [Next]_vars PROVE LineInv' OBVIOUS
<1>1. CASE UNCHANGED vars BY <1>1, SameLineInv DEF vars
<1>2. CASE Write \/ WriteNewlines BY <1>2, SameLineInv DEF Write, WriteNewlines
<1>3. CASE Exchange
  BY <1>3, SameLineInv DEF Exchange, Begin, SendRequest, SendEnd, Timeout, Receive, Copy, Agent
<1> QED BY <1>1, <1>2, <1>3, ReadByteInv, BridgeLineInv DEF Next

\* A line that the user ends reaches the agent as the user edited it, unless it was
\* ever longer than the buffer or an answer came while a part of it was typed: the
\* answer's newline ends that part, and the agent gets the line in two.
THEOREM LinesKept == Spec => []LinesArriveAsTyped
<1>1. Init => TInv /\ LineInv BY InitTInv, InitLineInv
<1>2. TInv /\ LineInv /\ [Next]_vars => (TInv /\ LineInv)' BY NextTInv, NextLineInv
<1>3. TInv /\ LineInv => LinesArriveAsTyped BY DEF LineInv
<1> QED BY <1>1, <1>2, <1>3, PTL DEF Spec

-----------------------------------------------------------------------------
(* The order of requests and answers *)

\* The numbers that the invariant compares.
LEMMA Numbers ==
    ASSUME TInv
    PROVE  /\ requests \in Nat /\ requests <= MaxRequests /\ MaxRequests \in Nat
           /\ timeouts \in Nat /\ timeouts <= requests /\ Done \in Int /\ Low \in Int
           /\ exchange # "idle" => requests \in 1..MaxRequests
           /\ exchange = "idle" => mode # "suppress_req" /\ Done = requests - timeouts /\ ~Got
           /\ exchange # "idle" => Done = requests - timeouts - 1
           /\ Got => Low = Done + 1
           /\ ~Got => Low = Done
<1>1. AgentOK /\ OutputOK /\ MaxRequests \in Nat BY Constants DEF TInv
<1>2. requests \in Nat /\ timeouts \in Nat /\ timeouts <= requests /\ requests <= MaxRequests
  BY <1>1 DEF AgentOK
<1>3. exchange # "idle" => requests \in 1..MaxRequests BY <1>1, <1>2 DEF AgentOK
<1>4. /\ exchange = "idle" => Done = requests - timeouts
      /\ exchange # "idle" => Done = requests - timeouts - 1
  BY <1>2 DEF Done
<1>5. Done \in Int BY <1>2, <1>4
<1>6. Low \in Int /\ (Got => Low = Done + 1) /\ (~Got => Low = Done) BY <1>5 DEF Low
<1>7. exchange = "idle" => mode # "suppress_req" /\ ~Got BY <1>1 DEF OutputOK, Got
<1> QED BY <1>1, <1>2, <1>3, <1>4, <1>5, <1>6, <1>7

\* Reading the first byte, and sending more.
LEMMA SendersOfTail ==
    ASSUME NEW w \in Seq(Cells), w # <<>>, InOrder(w)
    PROVE  /\ InOrder(Tail(w)) /\ Senders(Tail(w)) \subseteq Senders(w)
           /\ w[1].from # 0 => w[1].from \in Senders(w)
           /\ w[1].from # 0 /\ w[1].byte = "newline" =>
                 \A n \in Senders(Tail(w)) : w[1].from < n
<1>1. /\ Len(w) \in Nat /\ Len(Tail(w)) = Len(w) - 1 /\ 1 \in 1..Len(w) /\ w[1] \in Cells
      /\ \A j \in 1..(Len(w) - 1) : j + 1 \in 1..Len(w) /\ Tail(w)[j] = w[j + 1]
  BY Popped
<1>2. InOrder(Tail(w))
  <2> SUFFICES ASSUME NEW i \in 1..(Len(w) - 1), NEW j \in 1..(Len(w) - 1), i < j,
                      w[i + 1].from # 0, w[j + 1].from # 0
               PROVE  /\ w[i + 1].from <= w[j + 1].from
                      /\ w[i + 1].byte = "newline" => w[i + 1].from < w[j + 1].from
    BY <1>1 DEF InOrder
  <2>1. i + 1 \in 1..Len(w) /\ j + 1 \in 1..Len(w) /\ i + 1 < j + 1 BY <1>1
  <2> QED BY <2>1 DEF InOrder
<1>3. Senders(Tail(w)) \subseteq Senders(w) BY <1>1 DEF Senders
<1>4. w[1].from # 0 => w[1].from \in Senders(w)
  <2>1. w[1].from \in 0..MaxRequests BY <1>1 DEF Cells
  <2> QED BY <1>1, <2>1, Constants DEF Senders
<1>5. ASSUME w[1].from # 0, w[1].byte = "newline", NEW n \in Senders(Tail(w))
      PROVE  w[1].from < n
  <2>1. PICK i \in 1..(Len(w) - 1) : Tail(w)[i].from = n BY <1>1 DEF Senders
  <2>2. i + 1 \in 1..Len(w) /\ 1 < i + 1 /\ w[i + 1].from = n /\ n # 0
    BY <1>1, <2>1 DEF Senders
  <2> QED BY <1>1, <1>5, <2>2 DEF InOrder
<1> QED BY <1>2, <1>3, <1>4, <1>5

LEMMA SendersOfConcat ==
    ASSUME NEW w \in Seq(Cells), NEW v \in Seq(Cells), InOrder(w), InOrder(v),
           \A m \in Senders(w), n \in Senders(v) : m < n
    PROVE  /\ InOrder(w \o v)
           /\ \A n \in Senders(w \o v) : n \in Senders(w) \/ n \in Senders(v)
<1> DEFINE u == w \o v
<1>1. /\ Len(u) = Len(w) + Len(v) /\ Len(w) \in Nat /\ Len(v) \in Nat
      /\ \A i \in 1..Len(w) : u[i] = w[i]
      /\ \A i \in 1..(Len(w) + Len(v)) :
            i \notin 1..Len(w) => i - Len(w) \in 1..Len(v) /\ u[i] = v[i - Len(w)]
  BY Pushed
<1> HIDE DEF u
<1>2. /\ \A i \in 1..Len(w) : w[i].from \in 0..MaxRequests
      /\ \A i \in 1..Len(v) : v[i].from \in 0..MaxRequests
  <2>1. /\ \A i \in 1..Len(w) : w[i] \in Cells
        /\ \A i \in 1..Len(v) : v[i] \in Cells
    BY ElementOfSeq
  <2> QED BY <2>1 DEF Cells
<1>3. /\ \A i \in 1..Len(w) : w[i].from # 0 => w[i].from \in Senders(w)
      /\ \A i \in 1..Len(v) : v[i].from # 0 => v[i].from \in Senders(v)
  <2>1. \A n \in 0..MaxRequests : n # 0 => n \in 1..MaxRequests BY Constants
  <2> QED BY <1>2, <2>1 DEF Senders
<1>4. ASSUME NEW i \in 1..Len(u), NEW j \in 1..Len(u), i < j, u[i].from # 0, u[j].from # 0
      PROVE  u[i].from <= u[j].from /\ (u[i].byte = "newline" => u[i].from < u[j].from)
  <2>1. CASE i \in 1..Len(w) /\ j \in 1..Len(w)
    <3>1. u[i] = w[i] /\ u[j] = w[j] BY <1>1, <2>1
    <3> QED BY <1>4, <2>1, <3>1 DEF InOrder
  <2>2. CASE i \in 1..Len(w) /\ j \notin 1..Len(w)
    <3>1. u[i] = w[i] /\ j - Len(w) \in 1..Len(v) /\ u[j] = v[j - Len(w)] BY <1>1, <2>2
    <3>2. u[i].from \in Senders(w) /\ u[j].from \in Senders(v) BY <1>3, <1>4, <2>2, <3>1
    <3>3. u[i].from < u[j].from BY <3>2
    <3>4. u[i].from \in Int /\ u[j].from \in Int BY <3>2 DEF Senders
    <3> QED BY <3>3, <3>4
  <2>3. CASE i \notin 1..Len(w)
    <3> DEFINE k == i - Len(w)
               l == j - Len(w)
    <3>1. j \notin 1..Len(w) BY <1>1, <1>4, <2>3
    <3>2. /\ k \in 1..Len(v) /\ u[i] = v[k] /\ l \in 1..Len(v) /\ u[j] = v[l]
          /\ k < l
      BY <1>1, <1>4, <2>3, <3>1
    <3> HIDE DEF k, l
    <3> QED BY <1>4, <3>2 DEF InOrder
  <2> QED BY <2>1, <2>2, <2>3
<1>5. InOrder(u) BY <1>4 DEF InOrder
<1>6. ASSUME NEW n \in Senders(u) PROVE n \in Senders(w) \/ n \in Senders(v)
  <2>1. PICK i \in 1..Len(u) : u[i].from = n BY DEF Senders
  <2>2. n # 0 BY DEF Senders
  <2>3. CASE i \in 1..Len(w) BY <1>1, <1>3, <2>1, <2>2, <2>3
  <2>4. CASE i \notin 1..Len(w)
    <3>1. i - Len(w) \in 1..Len(v) /\ u[i] = v[i - Len(w)] BY <1>1, <2>4
    <3> QED BY <1>3, <2>1, <2>2, <3>1
  <2> QED BY <2>3, <2>4
<1> QED BY <1>5, <1>6 DEF u

\* Nothing of what the device prints, but a request's prefix, adds to what is to come.
LEMMA PrintsInOrder ==
    ASSUME TInv, ReadInOrder, Prints, UNCHANGED <<pending, requests>>
    PROVE  ReadInOrder' /\ ToCome' \subseteq ToCome
<1>0. /\ requested \in Seq(1..MaxRequests) /\ pending \in 0..MaxRequests
      /\ Len(requested) \in Nat /\ requests \in Nat
  BY Numbers, LenProperties DEF TInv, BridgeOK
<1>1. /\ mode' = "suppress_req" => mode = "suppress_req" /\ requested' = requested
      /\ \/ requested' = requested
         \/ mode = "suppress_req" /\ requested' = Append(requested, requests)
  BY Printed DEF TInv
<1>2. CASE requested' = requested BY <1>1, <1>2 DEF ReadInOrder, ToCome
<1>3. CASE requested' # requested
  <2>1. mode = "suppress_req" /\ requested' = Append(requested, requests)
        /\ mode' # "suppress_req"
    BY <1>1, <1>3
  <2>2. requests \in 1..MaxRequests BY <2>1, Numbers
  <2>3. /\ Len(requested') = Len(requested) + 1
        /\ \A k \in 1..Len(requested) : requested'[k] = requested[k]
        /\ requested'[Len(requested) + 1] = requests
    BY <1>0, <2>1, <2>2, AppendProperties
  <2>4. \A k \in 1..Len(requested') : k \in 1..Len(requested) \/ k = Len(requested) + 1
    BY <1>0, <2>3
  <2>5. ASSUME NEW k \in 1..Len(requested'), NEW l \in 1..Len(requested'), k < l
        PROVE  requested'[k] < requested'[l]
    <3>1. k \in 1..Len(requested) BY <1>0, <2>3, <2>5
    <3>2. CASE l \in 1..Len(requested) BY <2>3, <2>5, <3>1, <3>2 DEF ReadInOrder
    <3>3. CASE l = Len(requested) + 1 BY <2>1, <2>3, <3>1, <3>3 DEF ReadInOrder
    <3> QED BY <2>4, <3>2, <3>3
  <2>6. ASSUME pending # 0, NEW k \in 1..Len(requested') PROVE pending < requested'[k]
    BY <2>1, <2>3, <2>4, <2>6 DEF ReadInOrder
  <2>7. ReadInOrder' BY <2>1, <2>5, <2>6 DEF ReadInOrder
  <2>8. ToCome' \subseteq ToCome
    <3> SUFFICES ASSUME NEW n \in ToCome' PROVE n \in ToCome OBVIOUS
    <3>1. n \in 1..MaxRequests
          /\ (n = pending \/ \E k \in 1..Len(requested') : requested'[k] = n)
      BY <2>1 DEF ToCome
    <3>2. CASE n = pending BY <3>1, <3>2 DEF ToCome
    <3>3. CASE \E k \in 1..Len(requested') : requested'[k] = n
      <4>1. PICK k \in 1..Len(requested') : requested'[k] = n BY <3>3
      <4>2. CASE k \in 1..Len(requested) BY <2>3, <3>1, <4>1, <4>2 DEF ToCome
      <4>3. CASE k = Len(requested) + 1 BY <2>1, <2>3, <3>1, <4>1, <4>3 DEF ToCome
      <4> QED BY <2>4, <4>2, <4>3
    <3> QED BY <3>1, <3>2, <3>3
  <2> QED BY <2>7, <2>8
<1> QED BY <1>2, <1>3

\* Less that is outstanding is still in order.
LEMMA StillInOrder ==
    ASSUME OrderInv, InOrder(wire'), ReadInOrder', Senders(wire') \subseteq Senders(wire),
           ToCome' \subseteq ToCome, UNCHANGED requests
    PROVE  OrderInv' /\ Outstanding' \subseteq Outstanding
<1>1. AnsweredFirst' BY DEF OrderInv, AnsweredFirst
<1>2. Outstanding' \subseteq Outstanding BY DEF Outstanding
<1>3. Begun' BY <1>2 DEF OrderInv, Begun
<1> QED BY <1>1, <1>2, <1>3 DEF OrderInv

LEMMA InitOrderInv == Init => OrderInv
<1> SUFFICES ASSUME Init PROVE OrderInv OBVIOUS
<1> USE DEF Init
<1>1. Outstanding = {} BY DEF Outstanding, Senders, ToCome
<1>2. AnsweredFirst BY <1>1 DEF AnsweredFirst, Outstanding
<1>3. Begun BY <1>1 DEF Begun
<1>4. InOrder(wire) /\ ReadInOrder BY DEF InOrder, ReadInOrder
<1> QED BY <1>2, <1>3, <1>4 DEF OrderInv

\* A byte is read, or something is printed.
LEMMA ReadOrderInv ==
    ASSUME TInv, OrderInv, ReadByte
    PROVE  OrderInv' /\ Outstanding' \subseteq Outstanding
<1>1. /\ wire # <<>> /\ wire' = Tail(wire) /\ Prints /\ UNCHANGED <<pending, requests>>
  BY DEF ReadByte, EndBridgeLine, EndLine, Backspace, BridgeByte, PrefixByte, LineByte,
         Read, Prints, agent, bridge
<1>2. ReadInOrder' /\ ToCome' \subseteq ToCome BY <1>1, PrintsInOrder DEF OrderInv
<1>3. InOrder(wire') /\ Senders(wire') \subseteq Senders(wire)
  BY <1>1, SendersOfTail DEF TInv, OrderInv
<1> QED BY <1>1, <1>2, <1>3, StillInOrder

LEMMA PrintOrderInv ==
    ASSUME TInv, OrderInv, Prints, UNCHANGED <<wire, pending, requests>>
    PROVE  OrderInv' /\ Outstanding' \subseteq Outstanding
<1>1. ReadInOrder' /\ ToCome' \subseteq ToCome BY PrintsInOrder DEF OrderInv
<1> QED BY <1>1, StillInOrder DEF OrderInv

\* A request is the last of all.
LEMMA BeginOrderInv ==
    ASSUME TInv, OrderInv, Begin
    PROVE  OrderInv' /\ \A n \in Outstanding' : n \in Outstanding \/ n = requests + 1
<1>1. /\ exchange = "idle" /\ requests' = requests + 1
      /\ UNCHANGED <<wire, pending, requested>>
  BY DEF Begin, Agent, PrintPrefix, bridge
<1>2. requests \in Nat /\ mode # "suppress_req" BY <1>1, Numbers
<1>3. \A n \in ToCome' : n \in ToCome \/ n = requests + 1 BY <1>1 DEF ToCome
<1>4. \A n \in Outstanding : n < requests + 1 /\ n \in 1..MaxRequests
  <2>1. \A n \in Outstanding : n <= requests BY DEF OrderInv, Begun
  <2>2. \A n \in Outstanding : n \in 1..MaxRequests BY DEF Outstanding, Senders, ToCome
  <2> QED BY <1>2, <2>1, <2>2, Constants
<1>5. \A n \in Outstanding' : n \in Outstanding \/ n = requests + 1
  BY <1>1, <1>3 DEF Outstanding
<1>6. ReadInOrder'
  <2>1. pending < requests + 1
    <3>1. pending = 0 \/ pending \in Outstanding
      BY DEF TInv, BridgeOK, Outstanding, ToCome
    <3> QED BY <1>2, <1>4, <3>1
  <2>2. ASSUME NEW k \in 1..Len(requested) PROVE requested[k] < requests + 1
    <3>1. requested[k] \in 1..MaxRequests BY ElementOfSeq DEF TInv, BridgeOK
    <3>2. requested[k] \in Outstanding BY <3>1 DEF Outstanding, ToCome
    <3> QED BY <1>4, <3>2
  <2> QED BY <1>1, <2>1, <2>2 DEF OrderInv, ReadInOrder
<1>7. AnsweredFirst'
  <2> SUFFICES ASSUME NEW m \in Senders(wire), NEW n \in ToCome' PROVE m < n
    BY <1>1 DEF AnsweredFirst
  <2>1. CASE n \in ToCome BY <2>1 DEF OrderInv, AnsweredFirst
  <2>2. CASE n = requests + 1 BY <1>4, <2>2 DEF Outstanding
  <2> QED BY <1>3, <2>1, <2>2
<1>8. Begun' BY <1>1, <1>2, <1>4, <1>5 DEF OrderInv, Begun
<1> QED BY <1>1, <1>5, <1>6, <1>7, <1>8 DEF OrderInv

\* The bridge answers what it took first.
LEMMA BridgeOrderInv ==
    ASSUME TInv, OrderInv, Bridge
    PROVE  OrderInv' /\ Outstanding' \subseteq Outstanding
<1>0. /\ UNCHANGED <<mode, requests>> /\ wire \in Seq(Cells)
      /\ requested \in Seq(1..MaxRequests) /\ pending \in 0..MaxRequests
      /\ flushing \in Seq(UserBytes) /\ requests \in Nat
  BY Numbers DEF Bridge, Type, Answer, TakeRequest, Flush, Host, TInv, BridgeOK, agent
<1>1. ASSUME NEW b \in Seq(UserBytes), wire' = wire \o Sent(b, 0),
             UNCHANGED <<pending, requested>>
      PROVE  OrderInv' /\ Outstanding' \subseteq Outstanding
  <2> DEFINE v == Sent(b, 0)
  <2>1. v \in Seq(Cells) /\ \A i \in 1..Len(v) : v[i].from = 0 BY ShapeOfUser
  <2>2. wire' = wire \o v BY <1>1
  <2> HIDE DEF v
  <2>3. InOrder(v) /\ Senders(v) = {} BY <2>1 DEF InOrder, Senders
  <2>4. InOrder(wire') /\ Senders(wire') \subseteq Senders(wire)
    BY <1>0, <2>1, <2>2, <2>3, SendersOfConcat DEF OrderInv
  <2>5. ReadInOrder' /\ ToCome' = ToCome BY <1>0, <1>1 DEF OrderInv, ReadInOrder, ToCome
  <2> QED BY <1>0, <2>4, <2>5, StillInOrder
<1>2. CASE UNCHANGED <<wire, pending, requested>>
  <2>1. ReadInOrder' /\ ToCome' = ToCome BY <1>0, <1>2 DEF OrderInv, ReadInOrder, ToCome
  <2> QED BY <1>0, <1>2, <2>1, StillInOrder DEF OrderInv
<1>3. ASSUME NEW byte \in UserBytes, Type(byte)
      PROVE  OrderInv' /\ Outstanding' \subseteq Outstanding
  <2>1. <<byte>> \in Seq(UserBytes) OBVIOUS
  <2>2. /\ UNCHANGED <<pending, requested>>
        /\ UNCHANGED wire \/ wire' = wire \o Sent(<<byte>>, 0)
    BY <1>3 DEF Type
  <2> QED BY <1>1, <1>2, <2>1, <2>2
<1>4. CASE TakeRequest
  <2>1. /\ pending = 0 /\ requested # <<>> /\ pending' = Head(requested)
        /\ requested' = Tail(requested) /\ UNCHANGED wire
    BY <1>4 DEF TakeRequest
  <2>2. /\ Len(requested) \in Nat /\ 1 \in 1..Len(requested) /\ pending' = requested[1]
        /\ pending' \in 1..MaxRequests /\ Len(requested') = Len(requested) - 1
        /\ \A k \in 1..(Len(requested) - 1) :
              k + 1 \in 1..Len(requested) /\ requested'[k] = requested[k + 1]
    BY <1>0, <2>1, Popped
  <2>3. ReadInOrder'
    <3>1. ASSUME NEW k \in 1..Len(requested'), NEW l \in 1..Len(requested'), k < l
          PROVE  requested'[k] < requested'[l]
      <4>1. /\ k + 1 \in 1..Len(requested) /\ l + 1 \in 1..Len(requested) /\ k + 1 < l + 1
            /\ requested'[k] = requested[k + 1] /\ requested'[l] = requested[l + 1]
        BY <2>2, <3>1
      <4> QED BY <4>1 DEF OrderInv, ReadInOrder
    <3>2. ASSUME NEW k \in 1..Len(requested') PROVE pending' < requested'[k]
      <4>1. /\ k + 1 \in 1..Len(requested) /\ 1 < k + 1
            /\ requested'[k] = requested[k + 1]
        BY <2>2
      <4> QED BY <2>2, <4>1 DEF OrderInv, ReadInOrder
    <3>3. mode = "suppress_req" =>
             pending' < requests /\ \A k \in 1..Len(requested') : requested'[k] < requests
      BY <2>2 DEF OrderInv, ReadInOrder
    <3> QED BY <1>0, <3>1, <3>2, <3>3 DEF ReadInOrder
  <2>4. ToCome' \subseteq ToCome
    <3> SUFFICES ASSUME NEW n \in ToCome' PROVE n \in ToCome OBVIOUS
    <3>1. \/ n = pending' \/ (mode = "suppress_req" /\ n = requests)
          \/ \E k \in 1..Len(requested') : requested'[k] = n
      BY <1>0 DEF ToCome
    <3>2. n \in 1..MaxRequests BY DEF ToCome
    <3>3. n = pending' \/ (\E k \in 1..Len(requested') : requested'[k] = n) =>
             \E k \in 1..Len(requested) : requested[k] = n
      BY <2>2
    <3> QED BY <3>1, <3>2, <3>3 DEF ToCome
  <2> QED BY <1>0, <2>1, <2>3, <2>4, StillInOrder DEF OrderInv
<1>5. ASSUME NEW length \in AnswerLengths, Answer(length)
      PROVE  OrderInv' /\ Outstanding' \subseteq Outstanding
  <2> DEFINE v == AnswerTo(pending, length)
  <2>1. /\ pending # 0 /\ pending \in 1..MaxRequests /\ pending' = 0
        /\ UNCHANGED requested /\ length \in Nat
    BY <1>0, <1>5, SerialAssumption DEF Answer
  <2>2. /\ v \in Seq(Cells) /\ Len(v) = length + 3
        /\ \A i \in 1..(length + 3) : v[i].from = pending
        /\ v[1].byte = "p" /\ v[2].byte = "q" /\ \A i \in 3..(length + 2) : v[i].byte = "x"
    BY <1>0, <2>1, AnswerCells
  <2>3. wire' = wire \o v BY <1>5 DEF Answer, AnswerTo
  <2> HIDE DEF v
  <2>4. Senders(v) = {pending}
    <3>1. 1 \in 1..Len(v) BY <2>1, <2>2
    <3> QED BY <2>1, <2>2, <3>1 DEF Senders
  <2>5. InOrder(v)
    <3>1. \A i \in 1..Len(v) : i < length + 3 => v[i].byte # "newline"
      <4>1. \A i \in 1..Len(v) : i < length + 3 => i = 1 \/ i = 2 \/ i \in 3..(length + 2)
        BY <2>1, <2>2
      <4> QED BY <2>2, <4>1
    <3>2. \A i, j \in 1..Len(v) : i < j => i < length + 3 BY <2>1, <2>2
    <3>3. \A i \in 1..Len(v) : v[i].from = pending /\ pending <= pending BY <2>1, <2>2
    <3> QED BY <3>1, <3>2, <3>3 DEF InOrder
  <2>6. pending \in ToCome BY <2>1 DEF ToCome
  <2>7. \A m \in Senders(wire) : m < pending BY <2>6 DEF OrderInv, AnsweredFirst
  <2>8. /\ InOrder(wire')
        /\ \A n \in Senders(wire') : n \in Senders(wire) \/ n = pending
    <3>1. \A m \in Senders(wire), n \in Senders(v) : m < n BY <2>4, <2>7
    <3>2. /\ InOrder(wire \o v)
          /\ \A n \in Senders(wire \o v) : n \in Senders(wire) \/ n \in Senders(v)
      BY <1>0, <2>2, <2>5, <3>1, SendersOfConcat DEF OrderInv
    <3> QED BY <2>3, <2>4, <3>2
  <2>9. \A n \in ToCome' : n \in ToCome /\ pending < n
    <3> TAKE n \in ToCome'
    <3>1. /\ n \in 1..MaxRequests
          /\ \/ mode = "suppress_req" /\ n = requests
             \/ \E k \in 1..Len(requested) : requested[k] = n
      BY <1>0, <2>1 DEF ToCome
    <3>2. n \in ToCome BY <3>1 DEF ToCome
    <3>3. pending < n BY <2>1, <3>1 DEF OrderInv, ReadInOrder
    <3> QED BY <3>2, <3>3
  <2>10. ReadInOrder' BY <1>0, <2>1 DEF OrderInv, ReadInOrder
  <2>11. AnsweredFirst'
    <3> SUFFICES ASSUME NEW m \in Senders(wire'), NEW n \in ToCome' PROVE m < n
      BY DEF AnsweredFirst
    <3>1. CASE m = pending BY <2>9, <3>1
    <3>2. CASE m \in Senders(wire) BY <2>9, <3>2 DEF OrderInv, AnsweredFirst
    <3> QED BY <2>8, <3>1, <3>2
  <2>12. Outstanding' \subseteq Outstanding BY <2>6, <2>8, <2>9 DEF Outstanding
  <2>13. Begun' BY <1>0, <2>12 DEF OrderInv, Begun
  <2> QED BY <2>8, <2>10, <2>11, <2>12, <2>13 DEF OrderInv
<1>6. CASE Flush BY <1>0, <1>1, <1>6 DEF Flush
<1> QED BY <1>3, <1>4, <1>5, <1>6 DEF Bridge

-----------------------------------------------------------------------------
(* The answers *)

LEMMA InitLagInv == Init => LagInv
<1> SUFFICES ASSUME Init PROVE LagInv OBVIOUS
<1> USE DEF Init
<1>1. Outstanding = {} BY DEF Outstanding, Senders, ToCome
<1>2. LaterThanTaken BY <1>1 DEF LaterThanTaken
<1>3. Queued /\ Received /\ Returned BY DEF Queued, Received, Returned
<1>4. AnswersLagByTimeouts BY DEF AnswersLagByTimeouts
<1> QED BY <1>2, <1>3, <1>4 DEF LagInv

\* What is still outstanding may be stored for the exchange that runs.
LEMMA Stored ==
    ASSUME TInv, OrderInv, LagInv, NEW n \in Outstanding
    PROVE  n \in (Done + 1)..requests /\ (Got => n > Done + 1)
<1>1. n \in 1..MaxRequests BY DEF Outstanding, Senders, ToCome
<1>2. n > Low /\ n <= requests BY DEF LagInv, LaterThanTaken, OrderInv, Begun
<1>3. (Got => Low = Done + 1) /\ (~Got => Low = Done) /\ Done \in Int /\ requests \in Nat
  BY Numbers
<1>4. CASE Got BY <1>1, <1>2, <1>3, <1>4
<1>5. CASE ~Got BY <1>1, <1>2, <1>3, <1>5
<1> QED BY <1>4, <1>5

\* While the agent and the queue stay, bytes may be stored.
LEMMA LagStays ==
    ASSUME TInv, OrderInv, LagInv, UNCHANGED <<agent, s_llm_bridge_queue>>,
           Outstanding' \subseteq Outstanding,
           \A i \in 1..PayloadMax : \/ s_llm_bridge_payload'[i] = s_llm_bridge_payload[i]
                                    \/ s_llm_bridge_payload'[i] \in Outstanding
    PROVE  LagInv'
<1>1. /\ UNCHANGED <<exchange, requests, timeouts, resp, outcome, s_llm_bridge_queue>>
      /\ Done' = Done /\ Low' = Low
  BY DEF agent, Done, Low, Got
<1>2. LaterThanTaken' BY <1>1 DEF LagInv, LaterThanTaken
<1>3. ASSUME NEW e, Answers(e)
      PROVE  \A i \in 1..e.len : s_llm_bridge_payload'[i] \in (Done + 1)..requests
  <2> TAKE i \in 1..e.len
  <2>1. i \in 1..PayloadMax
    <3>1. e.len \in 0..PayloadMax BY <1>3 DEF Answers
    <3> QED BY <3>1, Constants
  <2>2. s_llm_bridge_payload[i] \in (Done + 1)..requests BY <1>3 DEF Answers
  <2> QED BY <2>1, <2>2, Stored
<1>4. Queued'
  <2> SUFFICES ASSUME exchange # "idle", s_llm_bridge_queue # <<>>
               PROVE  Answers(Head(s_llm_bridge_queue))'
    BY <1>1 DEF Queued
  <2>1. Answers(Head(s_llm_bridge_queue)) BY DEF LagInv, Queued
  <2>2. \A i \in 1..Head(s_llm_bridge_queue).len :
           s_llm_bridge_payload'[i] \in (Done + 1)..requests
    BY <1>3, <2>1
  <2> QED BY <1>1, <2>1, <2>2 DEF Answers
<1>5. Received'
  <2> SUFFICES ASSUME exchange = "copy" PROVE Answers(resp)' /\ ~resp.truncated
    BY <1>1 DEF Received
  <2>1. Answers(resp) /\ ~resp.truncated BY DEF LagInv, Received
  <2>2. \A i \in 1..resp.len : s_llm_bridge_payload'[i] \in (Done + 1)..requests
    BY <1>3, <2>1
  <2> QED BY <1>1, <2>1, <2>2 DEF Answers
<1>6. Returned' /\ AnswersLagByTimeouts'
  BY <1>1 DEF LagInv, Returned, AnswersLagByTimeouts
<1> QED BY <1>2, <1>4, <1>5, <1>6 DEF LagInv

\* The end of an answer: it is later than all that have been taken, and no answer
\* behind it is its own.
LEMMA AnswerEndLag ==
    ASSUME TInv, LineInv, OrderInv, LagInv, EndBridgeLine
    PROVE  LagInv'
<1>1. /\ bridge_line /\ wire # <<>> /\ wire' = Tail(wire) /\ Next1 = "newline"
      /\ UNCHANGED <<exchange, requests, resp, outcome, timeouts, s_llm_bridge_payload>>
      /\ s_llm_bridge_queue' = <<[len |-> bridge_payload_pos,
                                  truncated |-> bridge_payload_truncated,
                                  during |-> IF exchange = "idle" THEN 0 ELSE requests]>>
  BY DEF EndBridgeLine, Read, LineStarts, agent
<1>2. Next1 = wire[1].byte BY <1>1, FirstByte DEF LineInv
<1>3. wire[1].from # 0 BY <1>1 DEF LineInv, InAnswer
<1>4. wire \in Seq(Cells) BY DEF TInv
<1>5. wire[1].from \in Senders(wire) /\ \A n \in Senders(wire') : wire[1].from < n
  BY <1>1, <1>2, <1>3, <1>4, SendersOfTail DEF OrderInv
<1>6. wire[1].from \in Outstanding BY <1>5 DEF Outstanding
<1>7. Outstanding' \subseteq Outstanding
  <2>1. ReadByte BY DEF ReadByte
  <2> QED BY <2>1, ReadOrderInv
<1>8. \A n \in Outstanding' : wire[1].from < n
  <2>1. ToCome' \subseteq ToCome
    <3>1. Prints /\ UNCHANGED <<pending, requests>>
      BY DEF EndBridgeLine, Prints, Read, bridge, agent
    <3> QED BY <3>1, PrintsInOrder DEF OrderInv
  <2> QED BY <1>5, <2>1 DEF OrderInv, AnsweredFirst, Outstanding
<1>9. Done' = Done /\ Done \in Int /\ (~Got => Low = Done) /\ (Got => Low = Done + 1)
  BY <1>1, Numbers DEF Done
<1>10. LaterThanTaken'
  <2> SUFFICES ASSUME NEW n \in Outstanding' PROVE n > Low' BY DEF LaterThanTaken
  <2>1. n \in Outstanding /\ n \in 1..MaxRequests
    BY <1>7 DEF Outstanding, Senders, ToCome
  <2>2. n > Low BY <2>1 DEF LagInv, LaterThanTaken
  <2>3. wire[1].from > Low BY <1>6 DEF LagInv, LaterThanTaken
  <2>4. wire[1].from \in Int BY <1>5 DEF Senders
  <2>5. n > Done + 1
    <3>1. CASE Got BY <1>9, <2>2, <3>1
    <3>2. CASE ~Got
      <4>1. wire[1].from > Done /\ wire[1].from < n BY <1>8, <1>9, <2>3, <3>2
      <4> QED BY <1>9, <2>1, <2>4, <4>1
    <3> QED BY <3>1, <3>2
  <2>6. Low' = Done + 1 \/ Low' = Done BY <1>9 DEF Low
  <2> QED BY <1>9, <2>1, <2>5, <2>6
<1>11. Queued'
  <2> DEFINE e == [len |-> bridge_payload_pos, truncated |-> bridge_payload_truncated,
                   during |-> IF exchange = "idle" THEN 0 ELSE requests]
  <2> SUFFICES ASSUME exchange # "idle" PROVE Answers(Head(s_llm_bridge_queue))'
    BY <1>1 DEF Queued
  <2>1. Head(s_llm_bridge_queue') = e BY <1>1
  <2>2. e.during = requests /\ e.len = bridge_payload_pos /\ e.truncated = bridge_payload_truncated
    OBVIOUS
  <2> HIDE DEF e
  <2>3. bridge_payload_pos \in 0..PayloadMax BY DEF TInv, ReaderOK, PayloadOK
  <2>4. bridge_payload_truncated \/ bridge_payload_pos \in AnswerLengths
    <3>1. PICK n \in 0..Len(wire) :
             /\ Rest(wire, 1, n, wire[1].from)
             /\ bridge_payload_truncated \/ bridge_payload_pos + n \in AnswerLengths
      BY <1>1 DEF LineInv, InAnswer
    <3>2. n = 0
      <4>1. Len(wire) \in Nat /\ 1 \in 1..Len(wire) BY <1>1, <1>4, Popped
      <4>2. n > 0 => wire[1].byte = "x" BY <3>1, <4>1 DEF Rest
      <4> QED BY <1>1, <1>2, <3>1, <4>1, <4>2
    <3>3. bridge_payload_pos + 0 = bridge_payload_pos BY <2>3
    <3> QED BY <3>1, <3>2, <3>3
  <2>5. \A i \in 1..bridge_payload_pos : s_llm_bridge_payload[i] \in (Done + 1)..requests
    BY <1>1, <1>6, Stored DEF LineInv, InAnswer
  <2> QED BY <1>1, <1>9, <2>1, <2>2, <2>3, <2>4, <2>5 DEF Answers
<1>12. Received' BY <1>1, <1>9 DEF LagInv, Received, Answers
<1>13. Returned' /\ AnswersLagByTimeouts'
  BY <1>1 DEF LagInv, Returned, AnswersLagByTimeouts
<1> QED BY <1>10, <1>11, <1>12, <1>13 DEF LagInv

LEMMA ReadLag == ASSUME TInv, LineInv, OrderInv, LagInv, ReadByte PROVE LagInv'
<1>1. Outstanding' \subseteq Outstanding BY ReadOrderInv
<1>2. CASE EndBridgeLine BY <1>2, AnswerEndLag
<1>3. CASE EndLine \/ Backspace \/ PrefixByte \/ LineByte
  <2>1. UNCHANGED <<agent, s_llm_bridge_queue, s_llm_bridge_payload>>
    BY <1>3 DEF EndLine, Backspace, PrefixByte, LineByte, Read, LineStarts, SamePayload
  <2> QED BY <1>1, <2>1, LagStays
<1>4. CASE BridgeByte
  <2>1. /\ UNCHANGED <<agent, s_llm_bridge_queue>> /\ bridge_line /\ wire # <<>>
        /\ \/ UNCHANGED s_llm_bridge_payload
           \/ s_llm_bridge_payload' = [s_llm_bridge_payload EXCEPT ![bridge_payload_pos + 1] =
                                                        Head(wire).from]
    BY <1>4 DEF BridgeByte, Read
  <2>2. wire \in Seq(Cells) /\ wire[1].from # 0 BY <2>1 DEF TInv, LineInv, InAnswer
  <2>3. Head(wire).from \in Outstanding
    BY <2>1, <2>2, Popped, SendersOfTail DEF OrderInv, Outstanding
  <2>4. PayloadOK BY DEF TInv, ReaderOK
  <2>5. \A i \in 1..PayloadMax : \/ s_llm_bridge_payload'[i] = s_llm_bridge_payload[i]
                                 \/ s_llm_bridge_payload'[i] \in Outstanding
    BY <2>1, <2>3, <2>4 DEF PayloadOK
  <2> QED BY <1>1, <2>1, <2>5, LagStays
<1> QED BY <1>2, <1>3, <1>4 DEF ReadByte

\* The agent's steps.
LEMMA ExchangeLag ==
    ASSUME TInv, OrderInv, LagInv, Exchange PROVE OrderInv' /\ LagInv'
<1>0. /\ UNCHANGED <<wire, s_llm_bridge_payload, pending>>
      /\ Done \in Int /\ requests \in Nat /\ timeouts \in Nat /\ timeouts <= requests
  BY Numbers DEF Exchange, Begin, SendRequest, SendEnd, Timeout, Receive, Copy, Agent, reader,
                 bridge
<1>1. CASE Begin
  <2>1. /\ exchange = "idle" /\ exchange' = "prefix" /\ requests' = requests + 1
        /\ outcome' = <<>> /\ s_llm_bridge_queue' = <<>> /\ UNCHANGED timeouts
    BY <1>1 DEF Begin, Agent
  <2>2. Low = Done /\ Done = requests - timeouts BY <2>1, Numbers
  <2>3. Low' = Low
    <3>1. ~Got' BY <2>1 DEF Got
    <3>2. Low' = Done' BY <3>1 DEF Low
    <3>3. Done' = (requests + 1) - timeouts - 1 BY <2>1 DEF Done
    <3> QED BY <1>0, <2>2, <3>2, <3>3
  <2>4. OrderInv' /\ \A n \in Outstanding' : n \in Outstanding \/ n = requests + 1
    BY <1>1, BeginOrderInv
  <2>5. LaterThanTaken'
    <3>1. requests + 1 > Low BY <1>0, <2>2
    <3> QED BY <2>3, <2>4, <3>1 DEF LagInv, LaterThanTaken
  <2>6. Queued' /\ Received' /\ Returned' /\ AnswersLagByTimeouts'
    BY <2>1 DEF Queued, Received, Returned, AnswersLagByTimeouts
  <2> QED BY <2>4, <2>5, <2>6 DEF LagInv
<1>2. CASE SendRequest \/ SendEnd \/ Timeout \/ Receive \/ Copy
  <2>1. Prints /\ UNCHANGED requests
    BY <1>2 DEF SendRequest, SendEnd, Timeout, Receive, Copy, Prints
  <2>2. OrderInv' /\ Outstanding' \subseteq Outstanding BY <1>0, <2>1, PrintOrderInv
  <2>3. exchange # "idle" /\ outcome = <<>> /\ Done = requests - timeouts - 1
    <3>1. exchange # "idle" BY <1>2 DEF SendRequest, SendEnd, Timeout, Receive, Copy, Agent
    <3> QED BY <3>1, Numbers DEF LagInv, Returned
  <2>4. SUFFICES LagInv' BY <2>2
  <2>5. CASE SendRequest \/ SendEnd
    <3>1. /\ UNCHANGED <<requests, timeouts, s_llm_bridge_queue, outcome, resp>>
          /\ exchange' # "idle" /\ exchange' # "copy" /\ exchange # "copy"
      BY <2>5 DEF SendRequest, SendEnd, Agent
    <3>2. Done' = Done /\ (Got' <=> Got) BY <2>3, <3>1 DEF Done, Got
    <3>3. Low' = Low BY <3>2 DEF Low
    <3>4. LaterThanTaken' BY <2>2, <3>3 DEF LagInv, LaterThanTaken
    <3>5. Queued' BY <1>0, <2>3, <3>1, <3>2 DEF LagInv, Queued, Answers
    <3>6. Received' /\ Returned' /\ AnswersLagByTimeouts'
      BY <2>3, <3>1 DEF Received, Returned, AnswersLagByTimeouts
    <3> QED BY <3>4, <3>5, <3>6 DEF LagInv
  <2>6. CASE Timeout
    <3>1. /\ s_llm_bridge_queue = <<>> /\ exchange = "waiting" /\ exchange' = "idle"
          /\ timeouts' = timeouts + 1 /\ outcome' = <<"timeout">>
      BY <2>6 DEF Timeout, Agent
    <3>2. ~Got /\ ~Got' /\ Done' = requests - (timeouts + 1) - 0 BY <2>1, <3>1 DEF Got, Done
    <3>3. Low' = Low
      <4>1. Low' = Done' /\ Low = Done BY <3>2, Numbers DEF Low
      <4> QED BY <1>0, <2>3, <3>2, <4>1
    <3>4. LaterThanTaken' BY <2>2, <3>3 DEF LagInv, LaterThanTaken
    <3>5. Queued' /\ Received' /\ Returned' BY <3>1 DEF Queued, Received, Returned
    <3>6. AnswersLagByTimeouts' BY <3>1 DEF AnswersLagByTimeouts
    <3> QED BY <3>4, <3>5, <3>6 DEF LagInv
  <2>7. CASE Receive
    <3>1. /\ s_llm_bridge_queue # <<>> /\ s_llm_bridge_queue' = <<>> /\ exchange = "waiting"
          /\ UNCHANGED <<requests, timeouts>>
      BY <2>7 DEF Receive, Agent
    <3>2. Low = Done + 1 BY <3>1, Numbers DEF Got
    <3>3. \/ exchange' = "idle" /\ outcome' = <<"too long">>
          \/ /\ exchange' = "copy" /\ outcome' = outcome /\ resp' = Head(s_llm_bridge_queue)
             /\ ~Head(s_llm_bridge_queue).truncated
      BY <2>7 DEF Receive, Agent
    <3>4. Low' = Low
      <4>1. CASE exchange' = "idle"
        <5>1. ~Got' /\ Done' = requests - timeouts - 0 BY <3>1, <4>1 DEF Got, Done
        <5>2. Low' = Done' BY <5>1 DEF Low
        <5> QED BY <1>0, <2>3, <3>2, <5>1, <5>2
      <4>2. CASE exchange' = "copy"
        <5>1. Got' /\ Done' = Done BY <2>3, <3>1, <4>2 DEF Got, Done
        <5>2. Low' = Done' + 1 BY <5>1 DEF Low
        <5> QED BY <3>2, <5>1, <5>2
      <4> QED BY <3>3, <4>1, <4>2
    <3>5. LaterThanTaken' BY <2>2, <3>4 DEF LagInv, LaterThanTaken
    <3>6. Queued' BY <3>1 DEF Queued
    <3>7. Received'
      <4> SUFFICES ASSUME exchange' = "copy" PROVE Answers(resp)' /\ ~resp'.truncated
        BY DEF Received
      <4>1. resp' = Head(s_llm_bridge_queue) /\ ~Head(s_llm_bridge_queue).truncated BY <3>3
      <4>2. Answers(Head(s_llm_bridge_queue)) BY <2>3, <3>1 DEF LagInv, Queued
      <4>3. Done' = Done BY <2>3, <3>1 DEF Done
      <4> QED BY <1>0, <3>1, <4>1, <4>2, <4>3 DEF Answers
    <3>8. Returned' BY <2>3, <3>3 DEF Returned
    <3>9. AnswersLagByTimeouts'
      <4>1. outcome' = <<"too long">> \/ outcome' = <<>> BY <2>3, <3>3
      <4>2. CASE outcome' = <<"too long">> BY <4>2 DEF AnswersLagByTimeouts
      <4>3. CASE outcome' = <<>> BY <4>3 DEF AnswersLagByTimeouts
      <4> QED BY <4>1, <4>2, <4>3
    <3> QED BY <3>5, <3>6, <3>7, <3>8, <3>9 DEF LagInv
  <2>8. CASE Copy
    <3>1. /\ exchange = "copy" /\ exchange' = "idle" /\ UNCHANGED <<requests, timeouts, resp>>
          /\ outcome' = <<"answer", [i \in 1..resp.len |-> s_llm_bridge_payload[i]]>>
      BY <2>8 DEF Copy, Agent
    <3>2. Low = Done + 1 BY <3>1, Numbers DEF Got
    <3>3. Low' = Low
      <4>1. ~Got' /\ Done' = requests - timeouts - 0 BY <3>1 DEF Got, Done
      <4>2. Low' = Done' BY <4>1 DEF Low
      <4> QED BY <1>0, <2>3, <3>2, <4>1, <4>2
    <3>4. LaterThanTaken' BY <2>2, <3>3 DEF LagInv, LaterThanTaken
    <3>5. Queued' /\ Received' /\ Returned' BY <3>1 DEF Queued, Received, Returned
    <3>6. AnswersLagByTimeouts'
      <4> DEFINE copied == [i \in 1..resp.len |-> s_llm_bridge_payload[i]]
      <4>1. Answers(resp) /\ ~resp.truncated BY <3>1 DEF LagInv, Received
      <4>2. resp.len \in Nat BY <4>1, Constants DEF Answers
      <4>3. Len(copied) = resp.len /\ DOMAIN copied = 1..resp.len BY <4>2
      <4>4. ASSUME NEW i \in 1..resp.len PROVE requests - copied[i] \in 0..timeouts
        <5>1. copied[i] = s_llm_bridge_payload[i] OBVIOUS
        <5>2. s_llm_bridge_payload[i] \in (Done + 1)..requests BY <4>1 DEF Answers
        <5> HIDE DEF copied
        <5> QED BY <1>0, <2>3, <5>1, <5>2
      <4>5. outcome' = <<"answer", copied>> BY <3>1
      <4> HIDE DEF copied
      <4>6. outcome'[2] = copied BY <4>5
      <4>7. resp.during = requests /\ resp.len \in AnswerLengths BY <4>1 DEF Answers
      <4> QED BY <3>1, <4>3, <4>4, <4>6, <4>7 DEF AnswersLagByTimeouts
    <3> QED BY <3>4, <3>5, <3>6 DEF LagInv
  <2> QED BY <1>2, <2>5, <2>6, <2>7, <2>8
<1> QED BY <1>1, <1>2 DEF Exchange

LEMMA NextLagInv ==
    TInv /\ LineInv /\ OrderInv /\ LagInv /\ [Next]_vars => OrderInv' /\ LagInv'
<1> SUFFICES ASSUME TInv, LineInv, OrderInv, LagInv, [Next]_vars PROVE OrderInv' /\ LagInv'
  OBVIOUS
<1>1. CASE ReadByte BY <1>1, ReadOrderInv, ReadLag
<1>2. CASE Exchange BY <1>2, ExchangeLag
<1>3. ASSUME OrderInv', Outstanding' \subseteq Outstanding,
             UNCHANGED <<agent, s_llm_bridge_queue, reader>>
      PROVE  OrderInv' /\ LagInv'
  <2>1. UNCHANGED s_llm_bridge_payload BY <1>3 DEF reader
  <2> QED BY <1>3, <2>1, LagStays
<1>4. CASE Write \/ WriteNewlines
  <2>1. /\ Prints
        /\ UNCHANGED <<wire, pending, requests, agent, s_llm_bridge_queue, reader>>
    BY <1>4 DEF Write, WriteNewlines, Prints, agent, bridge
  <2>2. OrderInv' /\ Outstanding' \subseteq Outstanding BY <2>1, PrintOrderInv
  <2> QED BY <1>3, <2>1, <2>2
<1>5. CASE Bridge
  <2>1. UNCHANGED <<agent, s_llm_bridge_queue, reader>>
    BY <1>5 DEF Bridge, Type, Answer, TakeRequest, Flush, Host
  <2> QED BY <1>3, <1>5, <2>1, BridgeOrderInv
<1>6. CASE UNCHANGED vars
  <2>1. UNCHANGED <<wire, pending, requests, agent, s_llm_bridge_queue, reader>> /\ Prints
    BY <1>6 DEF vars, agent, bridge, output, Prints, PrintNothing
  <2>2. OrderInv' /\ Outstanding' \subseteq Outstanding BY <2>1, PrintOrderInv
  <2> QED BY <1>3, <2>1, <2>2
<1> QED BY <1>1, <1>2, <1>4, <1>5, <1>6 DEF Next

\* The inductive invariant.
THEOREM Inductive == Spec => []IInv
<1>1. Init => IInv BY InitTInv, InitLineInv, InitOrderInv, InitLagInv DEF IInv
<1>2. IInv /\ [Next]_vars => IInv' BY NextTInv, NextLineInv, NextLagInv DEF IInv
<1> QED BY <1>1, <1>2, PTL DEF Spec

\* An exchange that succeeds returns one whole answer that ended while it ran, and one
\* that lags behind its request by no more than there were timeouts.
THEOREM AnswersLag == Spec => []AnswersLagByTimeouts
<1>1. IInv => AnswersLagByTimeouts BY DEF IInv, LagInv
<1> QED BY <1>1, Inductive, PTL

=============================================================================
