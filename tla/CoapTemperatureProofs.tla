------------------------ MODULE CoapTemperatureProofs ------------------------
(***************************************************************************)
(* Theorems about CoapTemperature for every set of observers, sensor       *)
(* values, intervals and change threshold.                                 *)
(***************************************************************************)
EXTENDS CoapTemperature, TLAPS

\* What an observer holds is no older than the counter, and no more seconds are
\* counted than passed since the last notification.
AgeInv ==
  /\ \A o \in registered : heard[o] => age[o] <= interval_counter
  /\ interval_counter <= quiet

\* A change that is not on record is younger than the counter and the lower
\* interval: the handler has not had the chance to report it.
ChangeInv ==
  temperature_old # INT_MIN /\ Distance(sensor, temperature_old) >= CHANGE =>
    steady <= interval_counter /\ steady < INTERVAL_MIN

\* The last two notifications were as far apart as the lower interval asks.
GapInv == gap >= INTERVAL_MIN

\* A value older than the sensor's last move may differ from it; a value read
\* since does not.
ValueInv == \A o \in Observer : steady > age[o] => value[o] = sensor

Inv == TypeOK /\ AgeInv /\ ChangeInv /\ GapInv /\ ValueInv

-----------------------------------------------------------------------------
LEMMA LaterFacts ==
  ASSUME NEW n \in Ages
  PROVE  /\ Later(n) \in Ages
         /\ Later(n) <= n + 1
         /\ n < MAX_AGE => Later(n) = n + 1
         /\ \A m \in Ages : Later(n) > Later(m) => n > m
BY IntervalAssumption DEF Later, Ages

LEMMA DistanceFacts ==
  ASSUME NEW a \in Int, NEW b \in Int
  PROVE  Distance(a, b) \in Nat /\ Distance(a, a) = 0
BY DEF Distance

\* The condition of the handler, in the form the invariants use it.
LEMMA DueFacts ==
  ASSUME NEW changed \in BOOLEAN, NEW counter \in Nat
  PROVE  /\ Due(changed, counter) => counter >= INTERVAL_MIN
         /\ ~Due(changed, counter) => counter < INTERVAL_MAX
         /\ changed /\ ~Due(changed, counter) => counter < INTERVAL_MIN
BY IntervalAssumption DEF Due, INTERVAL_MAX

LEMMA InitInv == Init => Inv
<1> SUFFICES ASSUME Init PROVE Inv
  OBVIOUS
<1> USE IntervalAssumption
<1>1. TypeOK
  BY DEF Init, TypeOK, INTERVAL_MAX, Ages
<1>2. AgeInv
  BY DEF Init, AgeInv, INTERVAL_MAX
<1>3. ChangeInv
  BY DEF Init, ChangeInv
<1>4. GapInv /\ ValueInv
  BY DEF Init, GapInv, ValueInv, INTERVAL_MAX
<1> QED BY <1>1, <1>2, <1>3, <1>4 DEF Inv

-----------------------------------------------------------------------------
(* The periodic handler.                                                   *)

\* The two ways a run of the handler ends: with notifications, or counting on.
LEMMA TickCases ==
  ASSUME NEW s \in Temp, Inv, Tick(s)
  PROVE  /\ sensor' = s
         /\ steady' = IF s = sensor THEN Later(steady) ELSE 0
         /\ registered' = registered
         /\ \E changed \in Changed(sensor) :
              \/ /\ Due(changed, interval_counter + 1)
                 /\ interval_counter' = 0 /\ temperature_old' = sensor
                 /\ quiet' = 0 /\ gap' = UpToMin(Later(quiet))
                 /\ \E got \in SUBSET registered : NotifyObservers(s, got)
              \/ /\ ~Due(changed, interval_counter + 1)
                 /\ interval_counter' = interval_counter + 1
                 /\ quiet' = Later(quiet)
                 /\ age' = [o \in Observer |-> Later(age[o])]
                 /\ UNCHANGED <<temperature_old, value, heard, gap>>
BY DEF Tick, TickKeeping

LEMMA ChangedFacts ==
  ASSUME TypeOK
  PROVE  /\ Changed(sensor) \subseteq BOOLEAN
         /\ temperature_old # INT_MIN =>
              \A changed \in Changed(sensor) :
                changed <=> Distance(sensor, temperature_old) >= CHANGE
<1>1. CASE temperature_old # INT_MIN
  <2>1. Changed(sensor) = {Distance(sensor, temperature_old) >= CHANGE}
    BY <1>1 DEF Changed
  <2>2. (Distance(sensor, temperature_old) >= CHANGE) \in BOOLEAN
    BY DistanceFacts, SensorAssumption, IntervalAssumption, <1>1 DEF TypeOK
  <2> QED BY <2>1, <2>2
<1>2. CASE temperature_old = INT_MIN
  BY <1>2, Zenon DEF Changed
<1> QED BY <1>1, <1>2

LEMMA TickInv == ASSUME NEW s \in Temp, Inv, Tick(s) PROVE Inv'
<1> USE IntervalAssumption, SensorAssumption
<1> DEFINE Notifies ==
      /\ interval_counter' = 0 /\ temperature_old' = sensor
      /\ quiet' = 0 /\ gap' = UpToMin(Later(quiet))
      /\ \E got \in SUBSET registered : NotifyObservers(s, got)
<1> DEFINE CountsOn ==
      /\ interval_counter' = interval_counter + 1
      /\ quiet' = Later(quiet)
      /\ age' = [o \in Observer |-> Later(age[o])]
      /\ UNCHANGED <<temperature_old, value, heard, gap>>
<1>1. /\ sensor' = s
      /\ steady' = IF s = sensor THEN Later(steady) ELSE 0
      /\ registered' = registered
  BY TickCases
<1>2. PICK changed \in Changed(sensor) :
        \/ Due(changed, interval_counter + 1) /\ Notifies
        \/ ~Due(changed, interval_counter + 1) /\ CountsOn
  BY TickCases
<1>3. changed \in BOOLEAN /\ interval_counter + 1 \in Nat
  BY ChangedFacts DEF Inv, TypeOK
<1>4. steady' \in Ages /\ sensor' \in Temp /\ registered' \in SUBSET Observer
  BY <1>1, LaterFacts DEF Inv, TypeOK, Ages
<1>5. CASE Due(changed, interval_counter + 1) /\ Notifies
  <2>1. PICK got \in SUBSET registered : NotifyObservers(s, got)
    BY <1>5
  <2>2. PICK reading \in [got -> {sensor, s}] :
          value' = [o \in Observer |-> IF o \in got THEN reading[o] ELSE value[o]]
    BY <2>1 DEF NotifyObservers
  <2>3. value' \in [Observer -> Temp]
    BY <2>2 DEF Inv, TypeOK
  <2>4. /\ age' = [o \in Observer |-> IF o \in got THEN 0 ELSE Later(age[o])]
        /\ heard' = [o \in Observer |-> IF o \in registered THEN o \in got ELSE heard[o]]
    BY <2>1 DEF NotifyObservers
  <2>5. age' \in [Observer -> Ages]
    BY <2>4, LaterFacts DEF Inv, TypeOK, Ages
  <2>6. heard' \in [Observer -> BOOLEAN]
    <3>1. ASSUME NEW o \in Observer
          PROVE  (IF o \in registered THEN o \in got ELSE heard[o]) \in BOOLEAN
      <4>1. heard[o] \in BOOLEAN
        BY DEF Inv, TypeOK
      <4>2. CASE o \in registered
        <5>1. (o \in got) \in BOOLEAN
          OBVIOUS
        <5> QED BY <4>2, <5>1, Zenon
      <4>3. CASE o \notin registered
        BY <4>1, <4>3, Zenon
      <4> QED BY <4>2, <4>3
    <3> QED BY <2>4, <3>1, Zenon
  <2>7. TypeOK'
    <3>1. quiet \in Ages /\ sensor \in Temp
      BY DEF Inv, TypeOK
    <3>2. 0 \in Ages /\ 0 \in 0 .. INTERVAL_MAX - 1
      BY <3>1 DEF Ages, INTERVAL_MAX
    <3>3. UpToMin(Later(quiet)) \in 0 .. INTERVAL_MIN
      BY <3>1, LaterFacts DEF Ages, UpToMin
    <3> QED BY <1>4, <1>5, <2>3, <2>5, <2>6, <3>1, <3>2, <3>3 DEF TypeOK
  <2>8. AgeInv'
    <3>1. ASSUME NEW o \in registered', heard'[o] PROVE age'[o] = 0
      <4>1. o \in Observer /\ o \in registered
        BY <1>1, <3>1 DEF Inv, TypeOK
      <4>2. o \in got
        BY <2>4, <3>1, <4>1
      <4> QED BY <2>4, <4>1, <4>2
    <3> QED BY <1>5, <3>1 DEF AgeInv
  <2>9. ChangeInv'
    <3>1. CASE s = sensor
      BY <1>1, <1>5, <3>1, DistanceFacts DEF ChangeInv, Inv, TypeOK
    <3>2. CASE s # sensor
      BY <1>1, <1>5, <3>2 DEF ChangeInv
    <3> QED BY <3>1, <3>2
  <2>10. GapInv'
    <3>1. /\ quiet \in Ages /\ interval_counter \in 0 .. INTERVAL_MAX - 1
          /\ interval_counter <= quiet /\ interval_counter + 1 >= INTERVAL_MIN
      BY <1>3, <1>5, DueFacts DEF Inv, TypeOK, AgeInv
    <3> QED BY <1>5, <3>1 DEF GapInv, UpToMin, Later, Ages, INTERVAL_MAX
  <2>11. ValueInv'
    <3> SUFFICES ASSUME NEW o \in Observer, steady' > age'[o] PROVE value'[o] = sensor'
      BY DEF ValueInv
    <3>1. age'[o] \in Nat /\ steady \in Ages /\ age[o] \in Ages
      BY <2>5 DEF Inv, TypeOK, Ages
    <3>2. s = sensor /\ steady' = Later(steady)
      BY <1>1, <3>1
    <3>3. CASE o \in got
      BY <1>1, <2>2, <3>2, <3>3
    <3>4. CASE o \notin got
      <4>1. value'[o] = value[o] /\ age'[o] = Later(age[o])
        BY <2>2, <2>4, <3>4
      <4>2. steady > age[o]
        BY <3>1, <3>2, <4>1, LaterFacts
      <4> QED BY <1>1, <3>2, <4>1, <4>2 DEF Inv, ValueInv
    <3> QED BY <3>3, <3>4
  <2> QED BY <2>7, <2>8, <2>9, <2>10, <2>11 DEF Inv
<1>6. CASE ~Due(changed, interval_counter + 1) /\ CountsOn
  <2>1. interval_counter + 1 < INTERVAL_MAX
    BY <1>3, <1>6, DueFacts
  <2>2. age' \in [Observer -> Ages] /\ quiet' \in Ages
    BY <1>6, LaterFacts DEF Inv, TypeOK
  <2>3. TypeOK'
    BY <1>4, <1>6, <2>1, <2>2 DEF Inv, TypeOK, INTERVAL_MAX
  <2>4. interval_counter' <= quiet'
    <3>1. quiet \in Ages /\ interval_counter \in 0 .. INTERVAL_MAX - 1
          /\ interval_counter <= quiet
      BY DEF Inv, TypeOK, AgeInv
    <3>2. CASE quiet < MAX_AGE
      BY <1>6, <3>1, <3>2, LaterFacts DEF Ages
    <3>3. CASE ~(quiet < MAX_AGE)
      BY <1>6, <3>1, <3>3, <2>1 DEF Later, Ages, INTERVAL_MAX
    <3> QED BY <3>2, <3>3
  <2>5. ASSUME NEW o \in registered', heard'[o] PROVE age'[o] <= interval_counter'
    <3>1. o \in Observer /\ heard[o] /\ age[o] \in Ages /\ age[o] <= interval_counter
      BY <1>1, <1>6, <2>5 DEF Inv, TypeOK, AgeInv
    <3>2. age'[o] = Later(age[o])
      BY <1>6, <3>1
    <3> QED BY <1>6, <3>1, <3>2, LaterFacts DEF Inv, TypeOK, Ages
  <2>6. ChangeInv'
    <3> SUFFICES ASSUME temperature_old' # INT_MIN,
                        Distance(sensor', temperature_old') >= CHANGE
                 PROVE  steady' <= interval_counter' /\ steady' < INTERVAL_MIN
      BY DEF ChangeInv
    <3>1. CASE s # sensor
      BY <1>1, <1>6, <3>1 DEF Inv, TypeOK
    <3>2. CASE s = sensor
      <4>1. temperature_old # INT_MIN /\ Distance(sensor, temperature_old) >= CHANGE
        BY <1>1, <1>6, <3>2
      <4>2. changed
        BY <4>1, ChangedFacts DEF Inv
      <4>3. interval_counter + 1 < INTERVAL_MIN
        BY <1>3, <1>6, <4>2, DueFacts
      <4>4. steady \in Ages /\ steady <= interval_counter
        BY <4>1 DEF Inv, ChangeInv, TypeOK
      <4>5. steady' <= steady + 1 /\ steady' \in Ages
        BY <1>1, <3>2, <4>4, LaterFacts
      <4> QED BY <1>6, <4>3, <4>4, <4>5 DEF Inv, TypeOK, Ages
    <3> QED BY <3>1, <3>2
  <2>7. GapInv'
    BY <1>6 DEF Inv, GapInv
  <2>8. ValueInv'
    <3> SUFFICES ASSUME NEW o \in Observer, steady' > age'[o] PROVE value'[o] = sensor'
      BY DEF ValueInv
    <3>1. /\ age'[o] \in Nat /\ steady \in Ages /\ age[o] \in Ages
          /\ age'[o] = Later(age[o]) /\ value'[o] = value[o]
      BY <1>6, <2>2 DEF Inv, TypeOK, Ages
    <3>2. s = sensor /\ steady' = Later(steady)
      BY <1>1, <3>1
    <3>3. steady > age[o]
      BY <3>1, <3>2, LaterFacts
    <3> QED BY <1>1, <3>1, <3>2, <3>3 DEF Inv, ValueInv
  <2> QED BY <2>3, <2>4, <2>5, <2>6, <2>7, <2>8 DEF Inv, AgeInv
<1> QED BY <1>2, <1>5, <1>6

-----------------------------------------------------------------------------
LEMMA OtherInv ==
  ASSUME Inv,
         \/ \E s \in Temp : Drift(s)
         \/ \E o \in Observer : Register(o) \/ Deregister(o)
  PROVE  Inv'
<1> USE IntervalAssumption, SensorAssumption
        DEF Inv, TypeOK, AgeInv, ChangeInv, GapInv, ValueInv
<1>1. ASSUME NEW s \in Temp, Drift(s) PROVE Inv'
  BY <1>1 DEF Drift, resource, views, Ages
<1>2. ASSUME NEW o \in Observer, Register(o) PROVE Inv'
  BY <1>2 DEF Register, resource, Ages
<1>3. ASSUME NEW o \in Observer, Deregister(o) PROVE Inv'
  BY <1>3 DEF Deregister, resource
<1> QED BY <1>1, <1>2, <1>3

LEMMA NextInv == Inv /\ [Next]_vars => Inv'
<1> SUFFICES ASSUME Inv, [Next]_vars PROVE Inv'
  OBVIOUS
<1>1. ASSUME NEW s \in Temp, Tick(s) PROVE Inv'
  BY <1>1, TickInv
<1>2. CASE UNCHANGED vars
  BY <1>2 DEF vars, resource, views, Inv, TypeOK, AgeInv, ChangeInv, GapInv, ValueInv
<1> QED BY <1>1, <1>2, OtherInv DEF Next

\* Inv is inductive; the theorems below read off its parts.
LEMMA AlwaysInv == Spec => []Inv
BY InitInv, NextInv, PTL DEF Spec

\* Every reachable state is well typed: the counter stays below INTERVAL_MAX and
\* the recorded value is a reading of the sensor or the initial INT_MIN.
THEOREM TypeCorrect == Spec => []TypeOK
<1>1. Inv => TypeOK
  BY DEF Inv
<1> QED BY <1>1, AlwaysInv, PTL

\* An observer that hears its notifications never holds an expired value,
\* because its age is bounded by the counter, which stops below INTERVAL_MAX.
THEOREM Fresh == Spec => []FreshWithinMaxAge
<1>1. Inv => FreshWithinMaxAge
  BY IntervalAssumption DEF Inv, TypeOK, AgeInv, FreshWithinMaxAge, INTERVAL_MAX, Ages
<1> QED BY <1>1, AlwaysInv, PTL

\* A change that lasts INTERVAL_MIN seconds is on record.
THEOREM ChangesRecorded == Spec => []ChangeRecorded
<1>1. Inv => ChangeRecorded
  BY IntervalAssumption, SensorAssumption, DistanceFacts
  DEF Inv, TypeOK, ChangeInv, ChangeRecorded, Ages
<1> QED BY <1>1, AlwaysInv, PTL

\* Two consecutive notifications are INTERVAL_MIN seconds apart: the handler
\* notifies only when it is due, and the counter is at most the seconds passed.
THEOREM RateIsLimited == Spec => []RateLimited
<1>1. Inv => RateLimited
  BY DEF Inv, GapInv, RateLimited
<1> QED BY <1>1, AlwaysInv, PTL

\* An observer that hears its notifications holds the sensor's value once that
\* stood still for INTERVAL_MAX seconds: what it holds was read since.
THEOREM ValuesSettle == Spec => []ValueSettles
<1>1. Inv => ValueSettles
  BY IntervalAssumption
  DEF Inv, TypeOK, AgeInv, ValueInv, ValueSettles, INTERVAL_MAX, Ages
<1> QED BY <1>1, AlwaysInv, PTL
=============================================================================
