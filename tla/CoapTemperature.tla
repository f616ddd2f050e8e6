---------------------------- MODULE CoapTemperature ----------------------------
(***************************************************************************)
(* The observable temperature resource of the CoAP example server          *)
(* (resources/res-temperature.c) with its observers.  A periodic handler   *)
(* runs once a second; it notifies on a change, at most every INTERVAL_MIN *)
(* and at least every INTERVAL_MAX seconds.  The payload of a notification *)
(* comes from res_get_handler, which reads the sensor once more for every  *)
(* observer.                                                               *)
(***************************************************************************)
EXTENDS Integers

CONSTANTS
  Observer,      \* the clients that may observe the resource
  Temp,          \* the values temperature_sensor.value(0) may return
  MAX_AGE,       \* seconds a client may use a representation
  INTERVAL_MIN,  \* seconds between notifications of changes, at least
  CHANGE         \* smallest difference worth a notification

INTERVAL_MAX == MAX_AGE - 1
INT_MIN == -2147483647 - 1

ASSUME SensorAssumption == Temp \subseteq Int /\ \A t \in Temp : t > INT_MIN
ASSUME IntervalAssumption ==
  /\ MAX_AGE \in Nat /\ INTERVAL_MIN \in Nat /\ CHANGE \in Nat
  /\ 0 < INTERVAL_MIN /\ INTERVAL_MIN < INTERVAL_MAX /\ 0 < CHANGE

VARIABLES
  interval_counter,  \* static int32_t interval_counter: seconds since the last notification
  temperature_old,   \* static int temperature_old: the value that caused it
  sensor,            \* what the sensor measures now
  registered,        \* the engine's observer list
  value,             \* the representation each client holds
  age,               \* its age in seconds, capped
  heard,             \* whether the client got the latest notification meant for it
  quiet,             \* history: seconds since the last notification, capped
  gap,               \* history: seconds between the last two notifications, up to INTERVAL_MIN
  steady             \* history: seconds the sensor has not moved, capped

resource == <<interval_counter, temperature_old>>
views == <<registered, value, age, heard>>
vars == <<resource, sensor, views, quiet, gap, steady>>

Ages == 0 .. MAX_AGE                        \* ages and histories stop counting here
Later(n) == IF n < MAX_AGE THEN n + 1 ELSE n
UpToMin(n) == IF n < INTERVAL_MIN THEN n ELSE INTERVAL_MIN
Distance(a, b) == IF a < b THEN b - a ELSE a - b

Init ==
  /\ interval_counter = INTERVAL_MIN /\ temperature_old = INT_MIN
  /\ sensor \in Temp
  /\ registered = {}
  /\ value = [o \in Observer |-> sensor]
  /\ age = [o \in Observer |-> 0]
  /\ heard = [o \in Observer |-> FALSE]
  /\ quiet = MAX_AGE /\ gap = INTERVAL_MIN /\ steady = 0

\* abs(temperature - temperature_old) >= CHANGE.  Before the first notification
\* the subtraction of INT_MIN overflows for every temperature above -1, which
\* is undefined: the build may decide either way.
Changed(t) ==
  IF temperature_old # INT_MIN THEN {Distance(t, temperature_old) >= CHANGE}
  ELSE IF t < 0 THEN {TRUE} ELSE BOOLEAN

\* Fault: the upper limit is off by one.
DueLate(changed, counter) ==
  (changed /\ counter >= INTERVAL_MIN) \/ counter > INTERVAL_MAX

\* Fault: the lower limit is off by one.
DueAfterMin(changed, counter) ==
  (changed /\ counter > INTERVAL_MIN) \/ counter >= INTERVAL_MAX

\* Fault: the lower limit is not applied.
DueAlways(changed, counter) == changed \/ counter >= INTERVAL_MAX

\* The condition of res_periodic_handler, on the incremented counter.
Due(changed, counter) ==
  (changed /\ counter >= INTERVAL_MIN) \/ counter >= INTERVAL_MAX

\* Fault: the payload is the value of the notification before.
NotifyObserversLate(s, got) ==
  /\ value' = [o \in Observer |-> IF o \in got THEN temperature_old ELSE value[o]]
  /\ age' = [o \in Observer |-> IF o \in got THEN 0 ELSE Later(age[o])]
  /\ heard' = [o \in Observer |-> IF o \in registered THEN o \in got ELSE heard[o]]

\* coap_notify_observers: every registered observer gets a reading of its own,
\* taken before or after the sensor moves on to s; the notification reaches
\* those in got, the others' is lost or finds no transaction.
NotifyObservers(s, got) ==
  /\ \E reading \in [got -> {sensor, s}] :
       value' = [o \in Observer |-> IF o \in got THEN reading[o] ELSE value[o]]
  /\ age' = [o \in Observer |-> IF o \in got THEN 0 ELSE Later(age[o])]
  /\ heard' = [o \in Observer |-> IF o \in registered THEN o \in got ELSE heard[o]]

\* res_periodic_handler, one second after its last run, keeps old for the next
\* comparison when it notifies.
TickKeeping(s, old) ==
  /\ \E changed \in Changed(sensor) :
       IF Due(changed, interval_counter + 1)
         THEN /\ interval_counter' = 0
              /\ temperature_old' = old
              /\ quiet' = 0 /\ gap' = UpToMin(Later(quiet))
              /\ \E got \in SUBSET registered : NotifyObservers(s, got)
         ELSE /\ interval_counter' = interval_counter + 1
              /\ quiet' = Later(quiet)
              /\ age' = [o \in Observer |-> Later(age[o])]
              /\ UNCHANGED <<temperature_old, value, heard, gap>>
  /\ sensor' = s
  /\ steady' = IF s = sensor THEN Later(steady) ELSE 0
  /\ UNCHANGED registered

\* Fault: the reading is not kept.
TickForgetting(s) == TickKeeping(s, temperature_old)

\* temperature_old = temperature; the sensor may move on to s while the handler
\* runs.
Tick(s) == TickKeeping(s, sensor)

\* The temperature changes between two runs of the handler.
Drift(s) ==
  /\ s # sensor
  /\ sensor' = s /\ steady' = 0
  /\ UNCHANGED <<resource, views, quiet, gap>>

\* A GET with the Observe option: res_get_handler answers with a reading, and
\* the engine adds the client to its list (again, if it was there).
Register(o) ==
  /\ registered' = registered \cup {o}
  /\ value' = [value EXCEPT ![o] = sensor]
  /\ age' = [age EXCEPT ![o] = 0]
  /\ heard' = [heard EXCEPT ![o] = TRUE]
  /\ UNCHANGED <<resource, sensor, quiet, gap, steady>>

\* The client cancels, resets a notification or stops acknowledging them.
Deregister(o) ==
  /\ registered' = registered \ {o}
  /\ heard' = [heard EXCEPT ![o] = FALSE]
  /\ UNCHANGED <<resource, sensor, value, age, quiet, gap, steady>>

Next ==
  \/ \E s \in Temp : Tick(s) \/ Drift(s)
  \/ \E o \in Observer : Register(o) \/ Deregister(o)

Spec == Init /\ [][Next]_vars

\* The engine's timer runs the periodic handler for as long as the node is up.
FairSpec == Spec /\ WF_vars(\E s \in Temp : Tick(s))

-----------------------------------------------------------------------------
TypeOK ==
  /\ interval_counter \in 0 .. INTERVAL_MAX - 1
  /\ temperature_old \in Temp \cup {INT_MIN}
  /\ sensor \in Temp
  /\ registered \in SUBSET Observer
  /\ value \in [Observer -> Temp]
  /\ age \in [Observer -> Ages]
  /\ heard \in [Observer -> BOOLEAN]
  /\ quiet \in Ages /\ gap \in 0 .. INTERVAL_MIN /\ steady \in Ages

\* An observer that hears its notifications gets the next one while the last
\* one is fresh, whatever the sensor does and whenever it registered: the next
\* run of the handler, a second away, comes before Max-Age runs out.
FreshWithinMaxAge == \A o \in registered : heard[o] => age[o] + 1 < MAX_AGE

\* Any two consecutive notifications are at least INTERVAL_MIN seconds apart,
\* however the sensor jumps.
RateLimited == gap >= INTERVAL_MIN

\* A change that lasts INTERVAL_MIN seconds is on record: the value of the last
\* notification is within CHANGE of the sensor.
ChangeRecorded ==
  steady >= INTERVAL_MIN /\ temperature_old # INT_MIN =>
    Distance(sensor, temperature_old) < CHANGE

\* The payload is a reading of its own, not the one the handler compared, so it
\* may differ from the recorded value; still, an observer that hears its
\* notifications holds the sensor's value once that stood still for a period.
ValueSettles ==
  \A o \in registered : heard[o] /\ steady >= INTERVAL_MAX => value[o] = sensor

\* Whatever the first comparisons with INT_MIN yield, a first value is recorded.
FirstValueRecorded == (temperature_old = INT_MIN) ~> (temperature_old # INT_MIN)
=============================================================================
