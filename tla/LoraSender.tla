------------------------------ MODULE LoraSender ------------------------------
(***************************************************************************)
(* The LoRaWAN exercises (riot/lorawan): ttn-mqtt and chirpstack-mqtt send *)
(* a text every 30 seconds, ttn-cayenne-lpp a packet every 20 seconds.     *)
(* Each sets up the sensor, joins the network and then loops.              *)
(***************************************************************************)
EXTENDS Integers, Sequences

CONSTANTS
  Humidity,     \* readings of the sensor, in tenths
  Temperature

VARIABLES
  sender,       \* where main is; "ended" after it returned
  format,       \* "text" or "lpp"
  humidity, temperature,   \* the loop's variables
  measured,     \* history: what the sensor had this round, and which readings succeeded
  lpp,          \* Cayenne LPP's buffer, which grows
  message       \* what is sent

loraVars == <<sender, format, humidity, temperature, measured, lpp, message>>

Init ==
  /\ sender = "init" /\ format \in {"text", "lpp"}
  /\ humidity = 0 /\ temperature = 0 /\ measured = [h |-> 0, t |-> 0, hok |-> FALSE, tok |-> FALSE]
  /\ lpp = <<>> /\ message = <<>>

\* Sensor initialization, power on and rate, and the join procedure: main
\* returns when one fails.
SetUp(step, next) ==
  /\ sender = step
  /\ sender' \in {next, "ended"}
  /\ UNCHANGED <<format, humidity, temperature, measured, lpp, message>>

InitSensor == SetUp("init", "power on")
PowerOn == SetUp("power on", "set rate")
SetRate == SetUp("set rate", "join")
Join == SetUp("join", "measure")

\* Fault: the variables keep what an earlier round left.
MeasureKeeping(h, t) ==
  /\ sender = "measure"
  /\ \E hok, tok \in BOOLEAN :
       /\ humidity' = IF hok THEN h ELSE humidity
       /\ temperature' = IF tok THEN t ELSE temperature
       /\ measured' = [h |-> h, t |-> t, hok |-> hok, tok |-> tok]
  /\ sender' = "prepare"
  /\ UNCHANGED <<format, lpp, message>>

\* A reading that fails leaves a zero, and the round goes on.
Measure(h, t) ==
  /\ sender = "measure"
  /\ \E hok, tok \in BOOLEAN :
       /\ humidity' = IF hok THEN h ELSE 0
       /\ temperature' = IF tok THEN t ELSE 0
       /\ measured' = [h |-> h, t |-> t, hok |-> hok, tok |-> tok]
  /\ sender' = "prepare"
  /\ UNCHANGED <<format, lpp, message>>

\* C's / and %: towards zero, the remainder with the dividend's sign.
CDiv(a, b) == IF a < 0 THEN -((-a) \div b) ELSE a \div b
CMod(a, b) == a - b * CDiv(a, b)

\* "%d.%d" of n / 10 and n % 10; below zero both have a sign: "-12.-3"
Decimal(n) == [int |-> CDiv(n, 10), tenth |-> CMod(n, 10)]

\* (float)temperature / 10 and (float)humidity / 10, encoded by Cayenne LPP: tenths
\* of a degree, which a float divided and multiplied by 10 gives back, and half
\* percents cut to a byte.
LppPacket(t, h) == <<t, (h \div 5) % 2^8>>

\* sprintf into a new buffer, or one more value of each kind in Cayenne LPP's.
Prepare ==
  /\ sender = "prepare"
  /\ IF format = "text"
       THEN message' = <<Decimal(temperature), Decimal(humidity)>> /\ UNCHANGED lpp
       ELSE lpp' = lpp \o LppPacket(temperature, humidity) /\ message' = lpp'
  /\ sender' = "send"
  /\ UNCHANGED <<format, humidity, temperature, measured>>

\* Fault: a failed transmission ends the loop.
SendOrEnd ==
  /\ sender = "send"
  /\ sender' \in {"measure", "ended"} /\ lpp' = <<>>
  /\ UNCHANGED <<format, humidity, temperature, measured, message>>

\* semtech_loramac_send, which may fail; cayenne_lpp_reset; the sleep until the
\* next round.
Send ==
  /\ sender = "send"
  /\ sender' = "measure" /\ lpp' = <<>>
  /\ UNCHANGED <<format, humidity, temperature, measured, message>>

Measures == \E h \in Humidity, t \in Temperature : Measure(h, t)
Step == InitSensor \/ PowerOn \/ SetRate \/ Join \/ Measures \/ Prepare \/ Send
Next == Step

Spec == Init /\ [][Next]_loraVars

\* main runs whenever it is not asleep; each of its calls returns.
FairSpec == Spec /\ WF_loraVars(Step)

TypeOK ==
  /\ sender \in {"init", "power on", "set rate", "join", "measure", "prepare", "send", "ended"}
  /\ humidity \in Humidity \cup {0} /\ temperature \in Temperature \cup {0}
  /\ Len(message) <= 2

\* What a receiver reads, in tenths.
TemperatureSent ==
  IF format = "text" THEN 10 * message[1].int + message[1].tenth ELSE message[1]
HumiditySent ==
  IF format = "text" THEN 10 * message[2].int + message[2].tenth ELSE 5 * message[2]

\* What is sent is this round's reading, cut to so many tenths, or 0 when the
\* reading failed.
Tells(sent, value, ok, tenths) ==
  LET reading == IF ok THEN value ELSE 0 IN sent <= reading /\ reading < sent + tenths

\* A message tells the readings of this round and nothing else, below zero and
\* above: to a tenth, but for the humidity in Cayenne LPP's half percents.  A
\* reading that failed is sent as 0, never as one of an earlier round.
SentIsMeasured ==
  sender = "send" =>
    /\ Len(message) = 2
    /\ Tells(TemperatureSent, measured.t, measured.tok, 1)
    /\ Tells(HumiditySent, measured.h, measured.hok, IF format = "text" THEN 1 ELSE 5)

\* A sender that has joined measures and sends for ever, whatever fails.
KeepsSending ==
  sender \in {"measure", "prepare", "send"} => []<>(sender = "measure") /\ []<>(sender = "send")
GoesOn == []KeepsSending
=============================================================================
