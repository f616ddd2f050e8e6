------------------------------- MODULE Exercises -------------------------------
(***************************************************************************)
(* The smaller programs of the training, one of which a board is flashed   *)
(* with: the observable and the getter resources of the CoAP server, the   *)
(* LwM2M client, the firmware update node, the LoRaWAN senders and the     *)
(* sensors exercise.  They share nothing but the board; the state space is *)
(* the sum of theirs.                                                      *)
(***************************************************************************)
EXTENDS Integers, FiniteSets, Sequences

CONSTANTS
  \* CoapObserve
  EventObserver, PushObserver, COAP_MAX_OPEN_TRANSACTIONS, COAP_OBSERVE_REFRESH_INTERVAL,
  COAP_MAX_RETRANSMIT, MaxEvents,
  \* CoapGetters
  Accept, Word, Reading, Raw, LenArg, Request, REST_MAX_CHUNK_SIZE, LIGHT_SENSOR_VALUE_SCALE,
  \* Lwm2mClient
  Temp, ResourceIds,
  \* SuitNode
  Manifest, SUIT_MANIFEST_RESOURCE, PayloadLen, CONFIG_SOCK_URLPATH_MAXLEN, Available,
  Offset, Length, SIZE_BITS, MaxVersion,
  \* LoraSender
  Humidity, Temperature

ASSUME ObserveAssumption ==
  /\ IsFiniteSet(EventObserver \cup PushObserver)
  /\ COAP_MAX_OPEN_TRANSACTIONS \in Nat /\ COAP_MAX_RETRANSMIT \in Nat
  /\ COAP_OBSERVE_REFRESH_INTERVAL \in Nat \ {0}
  /\ MaxEvents \in Nat

\* A payload's length fits in the byte of an ETag; the SHT11 measures with 14 bits.
ASSUME GettersAssumption ==
  /\ REST_MAX_CHUNK_SIZE \in 0 .. 255
  /\ Raw \subseteq 0 .. 16383
  /\ LenArg \subseteq Int
  /\ Request \subseteq Seq([length: Nat, guarded: BOOLEAN])
  /\ LIGHT_SENSOR_VALUE_SCALE \in Nat \ {0}

\* A storage is smaller than what size_t counts; a user's numbers are of that type.
ASSUME SuitAssumption ==
  /\ 2^SIZE_BITS \in Nat
  /\ Available \in 0 .. 2^SIZE_BITS - 1
  /\ Offset \subseteq 0 .. 2^SIZE_BITS - 1 /\ Length \subseteq 0 .. 2^SIZE_BITS - 1
  /\ SUIT_MANIFEST_RESOURCE \in Manifest
  /\ MaxVersion \in Nat \ {0}

\* The sensor's humidity is between 0 and 100 percent.
ASSUME LoraAssumption == Humidity \subseteq 0 .. 1000 /\ Temperature \subseteq Int

VARIABLES
  firmware,
  event_counter, obs_counter, open, net, view, missed,
  leds, exchange,
  objects, start, connected, readers, reader, listed, sensor_value, sensor, changed,
  notifying, observed, server_value, deleted, answer,
  slot, current, worker, reply, printed,
  sender, format, humidity, temperature, measured, lpp, message,
  lsm_lock, lsm, lps, stopped, heard

Observe == INSTANCE CoapObserve
Getters == INSTANCE CoapGetters
Lwm2m == INSTANCE Lwm2mClient
Suit == INSTANCE SuitNode
Lora == INSTANCE LoraSender
Sensors == INSTANCE LsmThread

Firmware == {"observe", "getters", "lwm2m", "suit", "lora", "sensors"}

observeVars == <<event_counter, obs_counter, open, net, view, missed>>
getterVars == <<leds, exchange>>
lwm2mVars == <<objects, start, connected, readers, reader, listed, sensor_value, sensor,
               changed, notifying, observed, server_value, deleted, answer>>
suitVars == <<slot, current, worker, reply, printed>>
loraVars == <<sender, format, humidity, temperature, measured, lpp, message>>
sensorsVars == <<lsm_lock, lsm, lps, stopped, heard>>

Init ==
  /\ firmware \in Firmware
  /\ Observe!Init /\ Getters!Init /\ Lwm2m!Init /\ Suit!Init /\ Lora!Init /\ Sensors!Init
  \* Of the programs that are not flashed one initial state is as good as another.
  /\ firmware # "lora" => format = "text"
  /\ firmware # "lwm2m" => sensor = 0

ObserveNext ==
  /\ firmware = "observe" /\ Observe!Next
  /\ UNCHANGED <<firmware, getterVars, lwm2mVars, suitVars, loraVars, sensorsVars>>
GettersNext ==
  /\ firmware = "getters" /\ Getters!Next
  /\ UNCHANGED <<firmware, observeVars, lwm2mVars, suitVars, loraVars, sensorsVars>>
Lwm2mDoes(A) ==
  /\ firmware = "lwm2m" /\ A
  /\ UNCHANGED <<firmware, observeVars, getterVars, suitVars, loraVars, sensorsVars>>
SuitNext ==
  /\ firmware = "suit" /\ Suit!Next
  /\ UNCHANGED <<firmware, observeVars, getterVars, lwm2mVars, loraVars, sensorsVars>>
LoraNext ==
  /\ firmware = "lora" /\ Lora!Next
  /\ UNCHANGED <<firmware, observeVars, getterVars, lwm2mVars, suitVars, sensorsVars>>
SensorsNext ==
  /\ firmware = "sensors" /\ Sensors!Next
  /\ UNCHANGED <<firmware, observeVars, getterVars, lwm2mVars, suitVars, loraVars>>

Next ==
  \/ ObserveNext \/ GettersNext \/ Lwm2mDoes(Lwm2m!Next) \/ SuitNext \/ LoraNext \/ SensorsNext

vars == <<firmware, observeVars, getterVars, lwm2mVars, suitVars, loraVars, sensorsVars>>

Spec == Init /\ [][Next]_vars

\* The fairness of the two programs with something to wait for.
FairSpec ==
  /\ Spec
  /\ WF_vars(Lwm2mDoes(Lwm2m!Sample)) /\ WF_vars(Lwm2mDoes(Lwm2m!Notify))
  /\ WF_vars(LoraNext)

-----------------------------------------------------------------------------
TypeOK ==
  /\ firmware \in Firmware
  /\ Observe!TypeOK /\ Getters!TypeOK /\ Lwm2m!TypeOK /\ Suit!TypeOK /\ Lora!TypeOK
  /\ Sensors!TypeOK

\* An observer knows the counter, is about to, or missed its notification.
UpToDateOrMissed == Observe!UpToDateOrMissed

\* Each counter is observed as one that goes up by one: however notifications
\* are skipped, lost, repeated and reordered, an observer learns only of events
\* that happened and never goes back.
Counted ==
  INSTANCE ObservedCounter
    WITH Counter <- Observe!Resource, Client <- Observe!Observer,
         Watched <- [o \in Observe!Observer |-> Observe!Observes(o)],
         counter <- event_counter, seen <- [o \in Observe!Observer |-> view[o].count]
ImplementsCounter == Counted!Spec

\* A mirrored request that is cut is marked as cut.
CutIsMarked == Getters!CutIsMarked

\* The SHT11's temperature is less than a degree off, from -0.90 degrees up.
Sht11WithinADegree == Getters!Sht11WithinADegree

\* One ETag of /test/hello, one representation.
EtagIdentifies == Getters!EtagIdentifies

\* One reader thread, however often the client is started.
OneReader == Lwm2m!OneReader

\* A deleted instance stays deleted.
DeletedIsGone == Lwm2m!DeletedIsGone

\* The reader writes to an instance that is there.
UpdatesInstance == Lwm2m!UpdatesInstance

\* The server that observes a sensor which settles comes to know its value.
ServerCatchesUp == Lwm2m!ServerCatchesUp

\* An update writes to the slot that was reported inactive.
SlotsReported == Suit!SlotsReported

\* storage_content prints no byte outside the range asked for.
PrintsOnlyRange == Suit!PrintsOnlyRange

\* A LoRaWAN message tells this round's readings.
SentIsMeasured == Lora!SentIsMeasured

\* A LoRaWAN sender that has joined goes on for ever.
GoesOn == Lora!GoesOn

\* A stopped accelerometer thread reads nothing.
StoppedIsSilent == Sensors!StoppedIsSilent
=============================================================================
