------------------------------ MODULE CoapGetters ------------------------------
(***************************************************************************)
(* The handlers of the CoAP example server that answer from a sensor, from *)
(* the request itself or by switching an LED: resources/res-light.c,       *)
(* res-battery.c, res-temperature.c, res-sht11.c, res-radio.c, res-hello.c,*)
(* res-mirror.c, res-leds.c and res-toggle.c.  A handler runs to its end   *)
(* and keeps nothing but the LEDs.  Texts are sequences of letters, or     *)
(* just their lengths.                                                     *)
(***************************************************************************)
EXTENDS Integers, SequencesExt

CONSTANTS
  Accept,               \* Accept options of a request, "none" among them
  Word,                 \* what a client writes for color, mode or p
  Reading,              \* readings of light and battery
  Raw,                  \* readings of the SHT11, in 0.01 degrees above -39.60
  LenArg,               \* numbers written for len
  Request,              \* requests to mirror: what is written of them, write by write
  REST_MAX_CHUNK_SIZE,  \* bytes of a payload
  LIGHT_SENSOR_VALUE_SCALE

VARIABLES
  leds,      \* the LEDs that are lit
  exchange   \* the last request and its response

getterVars == <<leds, exchange>>

\* C's integer division, and its conversions to uint16_t and int8_t.
CDiv(a, b) == IF a < 0 THEN -((-a) \div b) ELSE a \div b
Uint16(n) == n % 2^16
Int8(n) == ((n + 2^7) % 2^8) - 2^7

\* strncmp(text, word, len) == 0, len being the length of text.
Matches(text, word) == text # <<>> /\ IsPrefix(text, word)

Content(format, value) == [code |-> "2.05", format |-> format, value |-> value]
NotAcceptable == [code |-> "4.06", format |-> "none", value |-> 0]
BadRequest == [code |-> "4.00", format |-> "none", value |-> 0]

Init ==
  /\ leds = {}
  /\ exchange = [to |-> "nobody"]

-----------------------------------------------------------------------------
(* Getters.                                                                *)

\* The answer in the format asked for, text/plain if none was.
Negotiated(formats, accept, value) ==
  IF accept \in {"none", "text"} THEN Content("text", value)
  ELSE IF accept \in formats THEN Content(accept, value) ELSE NotAcceptable

LightGet(accept, value) ==
  Negotiated({"xml", "json"}, accept, Uint16(CDiv(value, LIGHT_SENSOR_VALUE_SCALE)))
BatteryGet(accept, value) == Negotiated({"json"}, accept, value)
TemperatureGet(accept, value) == Negotiated({"json"}, accept, value)

\* Fault: without the parentheses.
Sht11CelsiusUngrouped(raw) == Uint16(CDiv(raw, 10) - CDiv(396, 10))

\* uint16_t temperature = ((value / 10) - 396) / 10
Sht11Celsius(raw) == Uint16(CDiv(CDiv(raw, 10) - 396, 10))
Sht11Get(accept, raw) == Negotiated({"xml", "json"}, accept, Sht11Celsius(raw))

\* The parameter is looked at first, then the radio, then the Accept option.
RadioGet(accept, p, ok, rssi) ==
  IF Matches(p, <<"r", "s", "s", "i">>) /\ ok THEN Negotiated({"json"}, accept, Int8(rssi))
  ELSE BadRequest

GetSensor(accept) ==
  /\ \/ \E v \in Reading :
          exchange' \in {[to |-> "light", resp |-> LightGet(accept, v)],
                         [to |-> "battery", resp |-> BatteryGet(accept, v)],
                         [to |-> "temperature", resp |-> TemperatureGet(accept, v)]}
     \/ \E raw \in Raw : exchange' = [to |-> "sht11", raw |-> raw, resp |-> Sht11Get(accept, raw)]
     \/ \E p \in Word, ok \in BOOLEAN, rssi \in Reading :
          exchange' = [to |-> "radio", resp |-> RadioGet(accept, p, ok, rssi)]
  /\ UNCHANGED leds

\* Fault: the limit is the buffer's, not that of the byte the ETag has.
HelloLengthUnlimited(len) == IF len < 0 THEN 0 ELSE len

\* ?len=, between 0 and REST_MAX_CHUNK_SIZE.
HelloLength(len) ==
  IF len < 0 THEN 0 ELSE IF len > REST_MAX_CHUNK_SIZE THEN REST_MAX_CHUNK_SIZE ELSE len

\* The ETag is the first byte of the length, the response its first bytes.
HelloGet(len) == [etag |-> HelloLength(len) % 2^8, length |-> HelloLength(len)]
GetHello ==
  /\ \E len \in LenArg : exchange' = [to |-> "hello", resp |-> HelloGet(len)]
  /\ UNCHANGED leds

\* strpos += snprintf(buffer + strpos, REST_MAX_CHUNK_SIZE - strpos + 1, ...): the
\* full length is counted, cut or not.  A size below zero is a huge size_t, with
\* which a library counts as ever or fails with -1.
Advance(strpos, n, counts) ==
  IF strpos <= REST_MAX_CHUNK_SIZE + 1 \/ counts THEN strpos + n ELSE strpos - 1

\* A guarded write looks at strpos first; the others, inside the token's line and
\* the ETag's, are made when their line was begun.  The very first has no guard.
Made(w, before) == IF w.guarded THEN before.strpos <= REST_MAX_CHUNK_SIZE ELSE before.begun

\* strpos after these writes, and what they would have written in all.
Written(writes, counts) ==
  LET after[i \in 0 .. Len(writes)] ==
        IF i = 0 THEN [strpos |-> 0, begun |-> TRUE, text |-> 0]
        ELSE LET before == after[i - 1]
                 made == Made(writes[i], before)
             IN  [strpos |-> IF made THEN Advance(before.strpos, writes[i].length, counts)
                             ELSE before.strpos,
                  begun |-> made,
                  text |-> before.text + writes[i].length]
  IN  after[Len(writes)]
StrPos(writes, counts) == Written(writes, counts).strpos

Smaller(a, b) == IF a < b THEN a ELSE b

\* Fault: the mark is set before the payload is appended.
MirrorMarkEarly(writes, counts) ==
  [length |-> Smaller(StrPos(writes, counts), REST_MAX_CHUNK_SIZE),
   size1 |-> StrPos(writes, counts),
   marked |-> StrPos(Front(writes), counts) >= REST_MAX_CHUNK_SIZE]

\* The options and the payload, the mark of truncation, and a payload that the
\* engine limits.
Mirror(writes, counts) ==
  [length |-> Smaller(StrPos(writes, counts), REST_MAX_CHUNK_SIZE),
   size1 |-> StrPos(writes, counts),
   marked |-> StrPos(writes, counts) >= REST_MAX_CHUNK_SIZE]

GetMirror ==
  /\ \E writes \in Request, counts \in BOOLEAN :
       exchange' = [to |-> "mirror", text |-> Written(writes, counts).text,
                    resp |-> Mirror(writes, counts)]
  /\ UNCHANGED leds

-----------------------------------------------------------------------------
(* Actuators.                                                              *)

\* leds_toggle(LEDS_RED)
PostToggle ==
  /\ leds' = IF "r" \in leds THEN leds \ {"r"} ELSE leds \cup {"r"}
  /\ exchange' = [to |-> "toggle"]

\* The LED a color names; {} when it names none.
LedOf(color) == {led \in {"r", "g", "b"} : Matches(color, <<led>>)}

\* The LEDs after a request: "on" is tried before "off".
Switched(color, mode) ==
  IF Matches(mode, <<"o", "n">>) THEN leds \cup LedOf(color)
  ELSE IF Matches(mode, <<"o", "f", "f">>) THEN leds \ LedOf(color) ELSE leds

LedsSuccess(color, mode) ==
  /\ LedOf(color) # {}
  /\ Matches(mode, <<"o", "n">>) \/ Matches(mode, <<"o", "f", "f">>)

PostPutLeds(color, mode) ==
  /\ leds' = Switched(color, mode)
  /\ exchange' = [to |-> "leds", color |-> color, mode |-> mode,
                  success |-> LedsSuccess(color, mode)]

-----------------------------------------------------------------------------
\* The engine sends the response.
Respond ==
  /\ exchange.to # "nobody"
  /\ exchange' = [to |-> "nobody"] /\ UNCHANGED leds

Handle ==
  /\ exchange.to = "nobody"
  /\ \/ \E accept \in Accept : GetSensor(accept)
     \/ GetHello \/ GetMirror \/ PostToggle
     \/ \E color, mode \in Word : PostPutLeds(color, mode)

Next == Handle \/ Respond

Spec == Init /\ [][Next]_getterVars

TypeOK == leds \subseteq {"r", "g", "b"}

\* A mirrored request whose text does not fit is marked as cut, wherever in the
\* text the end of the buffer falls and whatever a size below zero does.
CutIsMarked ==
  exchange.to = "mirror" =>
    (exchange.text > exchange.resp.length => exchange.resp.marked)

\* T = -39.60 + 0.01 * t, in hundredths, and the number served are less than a
\* degree apart.
CelsiusServed ==
  LET error == 100 * exchange.resp.value - (exchange.raw - 3960) IN
    -100 < error /\ error < 100

\* From -0.90 degrees up, where the second division still gives 0, the SHT11's
\* temperature is less than a degree off.
Sht11WithinADegree ==
  exchange.to = "sht11" /\ exchange.resp.code = "2.05" /\ exchange.raw >= 3870 => CelsiusServed

\* Two representations of /test/hello with one ETag are the same one.
EtagIdentifies ==
  exchange.to = "hello" => \A len \in LenArg :
    HelloGet(len).etag = exchange.resp.etag => HelloGet(len).length = exchange.resp.length

=============================================================================
