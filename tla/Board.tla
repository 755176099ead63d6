------------------------------- MODULE Board --------------------------------
(***************************************************************************)
(* The tools that work the board's pins for longer than one register write: *)
(* dht_read (main/tools_dht.c), the i2c tools (main/tools_i2c.c) and delay  *)
(* (main/tools_gpio.c), on the pins that main/gpio_policy.c allows. The     *)
(* agent task runs one call at a time. A call with an argument that its     *)
(* handler refuses changes nothing and is left out.                         *)
(*                                                                          *)
(* There are two clocks: now counts half ticks of the scheduler, in which   *)
(* vTaskDelay wakes up at whole ticks, and t counts 10 us in one capture of *)
(* a DHT sensor's signal. A byte of the sensor is one bit wide here, and so *)
(* is the checksum.                                                         *)
(***************************************************************************)
EXTENDS Integers, Sequences, FiniteSets, FiniteSetsExt

CONSTANTS
    AllowedPins,      \* GPIO_ALLOWED_PINS_CSV, empty if there is none
    MinPin, MaxPin,   \* GPIO_MIN_PIN, GPIO_MAX_PIN
    FlashPins,        \* 6 to 11 on the classic ESP32, else none
    SensorPins,       \* the pins on which dht_read is called
    MinInterval,      \* of each model of sensor, in ticks
    StartLow,         \* the start signal, in ticks
    MaxRetries,       \* DHT_MAX_RETRIES
    Addresses,        \* how many I2C addresses a scan tries
    MaxTime           \* bound: no call begins later

Models == {"dht11", "dht22"}

ASSUME BoardAssumption ==
    /\ AllowedPins \subseteq Nat /\ FlashPins \subseteq Nat
    /\ MinPin \in Nat /\ MaxPin \in Nat
    /\ SensorPins \subseteq Nat /\ MinInterval \in [Models -> Nat \ {0}] /\ StartLow \in Nat \ {0}
    /\ MaxRetries \in Nat \ {0} /\ Addresses \in Nat /\ MaxTime \in Nat

VARIABLES
    now,
    s_last_read,     \* s_last_read_us: of each pin, 0 at the start
    step, call,      \* where the agent is in which call
    attempt,
    sensor,          \* what the sensor does in this capture
    t, data,         \* the capture's clock, and the bits it has
    punctual,        \* whether each step of the capture came within 10 us
    reading,         \* what the call that has just returned gave, if it succeeded
    ended,           \* when the last capture of a pin ended; forgotten if its
                     \* call failed
    driver,          \* the pins the I2C driver is installed for
    address          \* the next that a scan tries

dht == <<sensor, t, data, punctual>>
boardVars == <<now, s_last_read, step, call, attempt, dht, reading, ended, driver, address>>

\* pin_is_allowed_impl: the list, or else the range, and never a flash pin.
Allowed(pin) == /\ pin \notin FlashPins
                /\ IF AllowedPins # {} THEN pin \in AllowedPins
                   ELSE pin \in MinPin..MaxPin

Pins == {pin \in AllowedPins \cup MinPin..MaxPin : Allowed(pin)}

Bytes == 5
Frames == {f \in [1..Bytes -> {0, 1}] : f[5] = (f[1] + f[2] + f[3] + f[4]) % 2}
Never == -1
NoCall == [tool |-> "none"]
Idle == step = "idle" /\ reading' = <<>> /\ UNCHANGED <<dht, attempt, s_last_read, ended>>

BoardInit ==
    /\ now = 1 /\ s_last_read = [p \in Pins |-> 0]
    /\ step = "idle" /\ call = NoCall /\ attempt = 0
    /\ sensor = <<>> /\ t = 0 /\ data = <<>> /\ punctual = TRUE
    /\ reading = <<>> /\ ended = [p \in Pins |-> Never]
    /\ driver = <<>> /\ address = 0

-----------------------------------------------------------------------------
(* Delays. vTaskDelay(n) wakes up at the n-th tick from now. *)

Woken(ticks) == ((now \div 2) + ticks) * 2

\* The agent is busy elsewhere.
Pass == /\ Idle /\ now < MaxTime
        /\ now' = now + 1
        /\ UNCHANGED <<step, call, driver, address>>

delay(ticks) == /\ Idle /\ now < MaxTime
                /\ now' = Woken(ticks)
                /\ UNCHANGED <<step, call, driver, address>>

-----------------------------------------------------------------------------
(* The sensor's signal, by the time since the end of the start signal: after    *)
(* 20 or 40 us it answers with 80 us low and 80 us high. Each bit is 50 us low *)
(* and then high for 30 us, a 0, or 70 us, a 1; after the last it is low once   *)
(* more. A line that nobody drives is high. Noise may turn one bit, and a      *)
(* sensor may hang before any bit, or not be there.                           *)

HighTime(bit) == IF bit = 1 THEN 7 ELSE 3

\* When the line falls before each bit and after the last, for a sensor that answers
\* at a time and sends bits.
Falls(answers, bits) ==
    LET fall[i \in 1..(Len(bits) + 1)] ==
            IF i = 1 THEN answers + 16 ELSE fall[i - 1] + 5 + HighTime(bits[i - 1])
    IN  fall

\* When the line is low.
Low(answers, bits) ==
    LET fall == Falls(answers, bits)
    IN  answers..(answers + 7) \cup UNION {fall[i]..(fall[i] + 4) : i \in 1..(Len(bits) + 1)}

Turned(frame) == {[frame EXCEPT ![i] = 1 - @] : i \in 1..Bytes}
HangsLow(low) == low \cup Max(low)..100

Good == {[frame |-> f, good |-> TRUE, low |-> Low(a, f)] : f \in Frames, a \in {2, 4}}
Noisy == UNION {{[frame |-> f, good |-> FALSE, low |-> Low(2, n)] : n \in Turned(f)} :
                f \in Frames}
Hung == UNION {UNION {{[frame |-> f, good |-> FALSE, low |-> low],
                       [frame |-> f, good |-> FALSE, low |-> HangsLow(low)]} :
                      low \in {Low(2, SubSeq(f, 1, n)) : n \in 0..(Bytes - 1)}} :
               f \in Frames}
Absent == {[frame |-> <<>>, good |-> FALSE, low |-> {}]}
Sensors == Good \cup Noisy \cup Hung \cup Absent

Level(u) == IF u \in sensor.low THEN 0 ELSE 1

-----------------------------------------------------------------------------
(* dht_read *)

CallDht(pin, model, retries) ==
    /\ step = "idle" /\ now < MaxTime
    /\ Allowed(pin)
    /\ call' = [tool |-> "dht", pin |-> pin, model |-> model, retries |-> retries]
    /\ step' = "interval" /\ attempt' = 0 /\ reading' = <<>>
    /\ UNCHANGED <<now, s_last_read, dht, ended, driver, address>>

\* Mutant: the next read does not wait.
NoInterval == now

\* dht_enforce_min_interval: what is left of the interval, rounded up to a tick.
AfterInterval ==
    LET remaining == 2 * MinInterval[call.model] - (now - s_last_read[call.pin])
    IN  IF s_last_read[call.pin] = 0 \/ remaining <= 0 THEN now
        ELSE Woken((remaining + 1) \div 2)

\* The wait and the start signal.
CaptureBegins ==
    /\ step = "interval"
    /\ now' = AfterInterval
    /\ UNCHANGED <<s_last_read, call, attempt, reading, ended, driver, address>>

\* The sensor has seen the line high for 40 us when the capture begins. Each step of
\* it comes up to 10 us late.
Start == /\ CaptureBegins
         /\ punctual' = TRUE /\ sensor' \in Sensors
         /\ t' \in 4..5 /\ data' = <<>>
         /\ step' = "answer"

\* Or some step of it comes later: interrupts are on, and other tasks run. What the
\* capture makes of the signal then may be anything, whatever the sensor.
Slip == /\ CaptureBegins
        /\ punctual' = FALSE /\ sensor' \in Absent
        /\ t' = 0
        /\ \/ step' = "check" /\ data' \in [1..Bytes -> {0, 1}]
           \/ step' = "failed" /\ data' = <<>>

Comes(moment) == t' \in moment..(moment + 1) /\ UNCHANGED punctual

InCapture(at) == /\ step = at
                 /\ UNCHANGED <<now, s_last_read, call, attempt, sensor, reading,
                                ended, driver, address>>

\* dht_wait_for_level: when the line first has the level, before the timeout.
Found(level) == {u \in t..(t + 11) : Level(u) = level}

WaitFor(level, next) ==
    /\ UNCHANGED data
    /\ IF Found(level) = {} THEN step' = "failed" /\ UNCHANGED <<t, punctual>>
       ELSE step' = next /\ Comes(Min(Found(level)))

\* The answer is low, high and low again.
AnswerLow == InCapture("answer") /\ WaitFor(0, "answer_high")
AnswerHigh == InCapture("answer_high") /\ WaitFor(1, "fall")

Fell == InCapture("fall") /\ WaitFor(0, "rise")
Rise == InCapture("rise") /\ WaitFor(1, "sample")

\* Mutant: the sample is taken after 80 us.
SampleLate ==
    /\ InCapture("sample")
    /\ t' = t + 8 /\ UNCHANGED punctual
    /\ data' = Append(data, Level(t'))
    /\ step' = IF Len(data') < Bytes THEN "fall" ELSE "check"

\* A bit is what the line is 40 us after it has risen.
Sample ==
    /\ InCapture("sample")
    /\ Comes(t + 4)
    /\ data' = Append(data, Level(t'))
    /\ step' = IF Len(data') < Bytes THEN "fall" ELSE "check"

Returns == /\ step' = "idle" /\ call' = NoCall
           /\ attempt' = 0 /\ sensor' = <<>> /\ t' = 0 /\ data' = <<>> /\ punctual' = TRUE

\* Mutant: the checksum is not compared.
ChecksumAny == TRUE

ChecksumHolds == (data[1] + data[2] + data[3] + data[4]) % 2 = data[5]

\* When the capture ends: after the start signal, and the bits.
CaptureEnds == {Woken(StartLow), Woken(StartLow) + 1}

Succeed ==
    /\ step = "check" /\ ChecksumHolds
    /\ now' \in CaptureEnds
    /\ s_last_read' = [s_last_read EXCEPT ![call.pin] = now']
    /\ ended' = [ended EXCEPT ![call.pin] = now']
    /\ reading' = [got |-> data, sent |-> sensor.frame, punctual |-> punctual]
    /\ Returns
    /\ UNCHANGED <<driver, address>>

Mismatch == /\ InCapture("check") /\ ~ChecksumHolds
            /\ step' = "failed" /\ UNCHANGED <<t, data, punctual>>

\* After a failure there is the interval and another attempt, or none.
Fail ==
    /\ step = "failed"
    /\ UNCHANGED <<s_last_read, reading, driver, address>>
    /\ \E end \in CaptureEnds :
          IF attempt + 1 < call.retries
          THEN /\ ended' = [ended EXCEPT ![call.pin] = end]
               /\ now' = ((end \div 2) + MinInterval[call.model]) * 2
               /\ attempt' = attempt + 1 /\ step' = "interval"
               /\ UNCHANGED <<call, dht>>
          ELSE /\ ended' = [ended EXCEPT ![call.pin] = Never]
               /\ now' = end
               /\ Returns

-----------------------------------------------------------------------------
(* The i2c tools: three transfers and a scan *)

CallI2c(tool, sda, scl) ==
    /\ Idle /\ sda # scl /\ Allowed(sda) /\ Allowed(scl)
    /\ call' = [tool |-> tool, pins |-> <<sda, scl>>]
    /\ step' = "i2c_init"
    /\ UNCHANGED <<now, driver, address>>

InI2c(at) == /\ step = at
             /\ UNCHANGED <<now, s_last_read, attempt, dht, reading, ended>>

I2cReturns == step' = "idle" /\ call' = NoCall /\ address' = 0

\* init_i2c_master: what was installed is deleted, and the port is configured
\* and installed anew, or an error returned.
InstallDriver ==
    /\ InI2c("i2c_init")
    /\ driver' = call.pins
    /\ step' = IF call.tool = "scan" THEN "i2c_scan" ELSE "i2c_transfer"
    /\ UNCHANGED <<call, address>>

InstallFails == /\ InI2c("i2c_init") /\ driver' = <<>> /\ I2cReturns

\* The driver is deleted whatever has become of the transfer.
Transfer == /\ InI2c("i2c_transfer") /\ driver' = <<>> /\ I2cReturns

\* An address that does not answer, whatever the reason, is not found.
ScanNext == /\ InI2c("i2c_scan") /\ address < Addresses
            /\ address' = address + 1
            /\ UNCHANGED <<step, call, driver>>

\* Mutant: the driver is left installed when there is no memory for a command.
ScanFailsInstalled ==
    /\ InI2c("i2c_scan") /\ address < Addresses
    /\ I2cReturns /\ UNCHANGED driver

ScanFails == /\ InI2c("i2c_scan") /\ address < Addresses
             /\ driver' = <<>> /\ I2cReturns

ScanEnds == /\ InI2c("i2c_scan") /\ address = Addresses
            /\ driver' = <<>> /\ I2cReturns

-----------------------------------------------------------------------------
Dht == \/ \E pin \in SensorPins, model \in Models, retries \in 1..MaxRetries :
             CallDht(pin, model, retries)
       \/ Start \/ AnswerLow \/ AnswerHigh \/ Fell \/ Rise \/ Sample
       \/ Slip \/ Succeed \/ Mismatch \/ Fail

I2c == \/ \E tool \in {"transfer", "scan"}, sda, scl \in Pins : CallI2c(tool, sda, scl)
       \/ InstallDriver \/ InstallFails \/ Transfer \/ ScanNext \/ ScanFails \/ ScanEnds

BoardNext == Pass \/ (\E ticks \in {1} : delay(ticks)) \/ Dht \/ I2c

BoardSpec == BoardInit /\ [][BoardNext]_boardVars

-----------------------------------------------------------------------------
(* Properties *)

\* Every variable stays in its range, and the I2C driver is installed only within
\* a call, for the pins of that call: every path out of one deletes it.
BoardTypeOK ==
    /\ now \in Nat /\ s_last_read \in [Pins -> 0..now] /\ attempt \in 0..(MaxRetries - 1)
    /\ step \in {"idle", "interval", "answer", "answer_high", "fall", "rise", "sample", "check", "failed",
               "i2c_init", "i2c_transfer", "i2c_scan"}
    /\ step = "idle" <=> call = NoCall
    /\ t \in Nat /\ data \in Seq({0, 1}) /\ Len(data) <= Bytes
    /\ ended \in [Pins -> {Never} \cup 0..now]
    /\ address \in 0..Addresses
    /\ driver = IF step \in {"i2c_transfer", "i2c_scan"} THEN call.pins ELSE <<>>

\* A reading is the sensor's when every step of its capture came within 10 us, though
\* each came late, one bit be wrong, or the sensor hang: the samples stay within the
\* bits, none is missed or taken twice, and the checksum refuses a wrong frame. A
\* sensor that sends its frame right is then read. Of a capture that slipped, a wrong
\* frame with the right checksum is returned like any other.
ReadingIsTheSensors == /\ reading # <<>> /\ reading.punctual => reading.got = reading.sent
                       /\ step = "failed" /\ punctual => ~sensor.good

\* A sensor has its minimum interval, but for less than a tick, between a capture
\* and the next, when the first succeeded or both belong to a call.
ReadsSpaced ==
    [][step = "interval" /\ step' # "interval" /\ ended[call.pin] # Never =>
          now' - ended[call.pin] > 2 * MinInterval[call.model] - 2]_boardVars
=============================================================================
