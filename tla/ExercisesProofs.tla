---------------------------- MODULE ExercisesProofs ----------------------------
(***************************************************************************)
(* Theorems about Exercises, whatever program is flashed: the invariants   *)
(* of the CoAP server's resources are in ExercisesServerProofs, those of   *)
(* the other programs are here.                                            *)
(***************************************************************************)
EXTENDS ExercisesServerProofs

-----------------------------------------------------------------------------
(* The LwM2M client, for any sensor and any lists of resources.            *)

\* A reader is created once, by the one start that found the client unconnected.
StartInv ==
  /\ start # "idle" => connected /\ readers = 0
  /\ ~connected => readers = 0
  /\ readers \in {0, 1}

\* An instance that was deleted is off the list.
DeleteInv == deleted => ~listed

Lwm2mInv == Lwm2m!TypeOK /\ StartInv /\ DeleteInv

LEMMA Lwm2mInit == Lwm2m!Init => Lwm2mInv
<1> SUFFICES ASSUME Lwm2m!Init PROVE Lwm2mInv
  OBVIOUS
<1>1. /\ objects \in {"unset", "missing", "insecure", "ready"}
      /\ start \in {"idle", "init sensor", "create thread"}
      /\ reader \in {"none", "runs", "fault"} /\ readers \in Nat
  BY DEF Lwm2m!Init
<1>2. /\ connected \in BOOLEAN /\ listed \in BOOLEAN /\ changed \in BOOLEAN
      /\ observed \in BOOLEAN /\ deleted \in BOOLEAN
  BY DEF Lwm2m!Init
<1>3. /\ sensor_value \in Temp \cup {0} /\ sensor \in Temp /\ server_value \in Temp \cup {0}
      /\ notifying \subseteq Temp \cup {0}
  BY DEF Lwm2m!Init
<1>4. StartInv /\ DeleteInv
  BY DEF Lwm2m!Init, StartInv, DeleteInv
<1> QED BY <1>1, <1>2, <1>3, <1>4 DEF Lwm2mInv, Lwm2m!TypeOK

\* The shell's thread leaves the instance alone.
LEMMA CommandStep == ASSUME Lwm2mInv, Lwm2m!Command PROVE Lwm2mInv'
<1>1. UNCHANGED <<listed, sensor_value, sensor, Lwm2m!server>>
  BY DEF Lwm2m!Command, Lwm2m!Lwm2mCliInit, Lwm2m!StartClient, Lwm2m!InitSensor, Lwm2m!CreateReader
<1>2. DeleteInv'
  BY <1>1 DEF Lwm2mInv, DeleteInv, Lwm2m!server
<1>3. CASE Lwm2m!Lwm2mCliInit
  BY <1>1, <1>2, <1>3 DEF Lwm2m!Lwm2mCliInit, Lwm2mInv, Lwm2m!TypeOK, StartInv, Lwm2m!server,
                          Lwm2m!thread
<1>4. CASE Lwm2m!StartClient
  BY <1>1, <1>2, <1>4 DEF Lwm2m!StartClient, Lwm2mInv, Lwm2m!TypeOK, StartInv, Lwm2m!server,
                          Lwm2m!thread
<1>5. CASE Lwm2m!InitSensor
  BY <1>1, <1>2, <1>5 DEF Lwm2m!InitSensor, Lwm2mInv, Lwm2m!TypeOK, StartInv, Lwm2m!server,
                          Lwm2m!thread
<1>6. CASE Lwm2m!CreateReader
  <2>1. connected /\ readers = 0
    <3>1. start # "idle"
      BY <1>6 DEF Lwm2m!CreateReader
    <3> QED BY <3>1 DEF Lwm2mInv, StartInv
  <2>2. start' = "idle" /\ UNCHANGED <<objects, connected>>
    BY <1>6 DEF Lwm2m!CreateReader
  <2>3. reader' \in {"runs", "fault"}
    BY <1>6 DEF Lwm2m!CreateReader
  <2>4. readers' = readers + 1
    BY <1>6 DEF Lwm2m!CreateReader
  <2>5. readers' = 1
    BY <2>1, <2>4
  <2>6. StartInv'
    BY <2>1, <2>2, <2>5 DEF StartInv
  <2> QED BY <1>1, <1>2, <2>2, <2>3, <2>5, <2>6 DEF Lwm2mInv, Lwm2m!TypeOK, Lwm2m!server
<1> QED BY <1>3, <1>4, <1>5, <1>6 DEF Lwm2m!Command

LEMMA ReaderInv == ASSUME Lwm2mInv, Lwm2m!Sample PROVE Lwm2mInv'
BY DEF Lwm2m!Sample, Lwm2mInv, Lwm2m!TypeOK, StartInv, DeleteInv, Lwm2m!shell, Lwm2m!thread

\* wakaama's thread leaves the shell and the reader alone.
LEMMA WakaamaStep ==
  ASSUME Lwm2mInv, UNCHANGED <<Lwm2m!shell, Lwm2m!thread, sensor_value, sensor>>,
         changed' \in BOOLEAN, observed' \in BOOLEAN, deleted' \in BOOLEAN, listed' \in BOOLEAN,
         server_value' \in Temp \cup {0}, notifying' \subseteq Temp \cup {0}, DeleteInv'
  PROVE  Lwm2mInv'
BY DEF Lwm2mInv, Lwm2m!TypeOK, StartInv, Lwm2m!shell, Lwm2m!thread

LEMMA ServerStep == ASSUME Lwm2mInv, Lwm2m!Server \/ Lwm2m!Notify PROVE Lwm2mInv'
<1> USE DEF Lwm2mInv, Lwm2m!TypeOK, DeleteInv
<1>1. CASE \E ids \in ResourceIds : Lwm2m!ServerReads(ids) \/ Lwm2m!ServerDiscovers(ids)
  <2>1. UNCHANGED <<Lwm2m!shell, Lwm2m!thread, sensor_value, sensor, changed, notifying, listed,
                  observed, server_value, deleted>>
    BY <1>1 DEF Lwm2m!ServerReads, Lwm2m!ServerDiscovers, Lwm2m!Answer
  <2> QED BY <2>1, WakaamaStep
<1>2. CASE Lwm2m!ServerModifies
  BY <1>2, WakaamaStep DEF Lwm2m!ServerModifies, Lwm2m!Answer
<1>3. CASE Lwm2m!ServerDeletes
  BY <1>3, WakaamaStep DEF Lwm2m!ServerDeletes, Lwm2m!Answer
<1>4. ASSUME NEW on \in BOOLEAN, Lwm2m!ServerObserves(on) PROVE Lwm2mInv'
  BY <1>4, WakaamaStep DEF Lwm2m!ServerObserves, Lwm2m!Answer
<1>5. CASE Lwm2m!ReadChanged
  BY <1>5, WakaamaStep DEF Lwm2m!ReadChanged
<1>6. CASE Lwm2m!SendNotification
  BY <1>6, WakaamaStep DEF Lwm2m!SendNotification
<1> QED BY <1>1, <1>2, <1>3, <1>4, <1>5, <1>6 DEF Lwm2m!Server, Lwm2m!Notify

LEMMA Lwm2mStep == ASSUME Lwm2mInv, Lwm2m!Next PROVE Lwm2mInv'
<1>1. CASE Lwm2m!Drift
  BY <1>1 DEF Lwm2m!Drift, Lwm2mInv, Lwm2m!TypeOK, StartInv, DeleteInv, Lwm2m!shell, Lwm2m!thread,
              Lwm2m!server
<1> QED BY <1>1, CommandStep, ReaderInv, ServerStep DEF Lwm2m!Next

LEMMA Lwm2mStays == Lwm2mInv /\ UNCHANGED lwm2mVars => Lwm2mInv'
<1> SUFFICES ASSUME Lwm2mInv, UNCHANGED lwm2mVars PROVE Lwm2mInv'
  OBVIOUS
<1>1. UNCHANGED <<objects, start, connected, readers, reader>>
  BY DEF lwm2mVars
<1>2. UNCHANGED <<listed, sensor_value, sensor, changed, notifying, observed, server_value, deleted>>
  BY DEF lwm2mVars
<1> QED BY <1>1, <1>2 DEF Lwm2mInv, Lwm2m!TypeOK, StartInv, DeleteInv

\* An answer that changes once the instance was deleted, to a read or another
\* deletion, is 4.04.
LEMMA DeletedAnswer ==
  ASSUME Lwm2mInv, Lwm2m!Next, deleted, answer' # answer, answer'.to \in {"read", "delete"}
  PROVE  answer'.code = "4.04"
<1>1. ~listed
  BY DEF Lwm2mInv, DeleteInv
<1>2. CASE \E ids \in ResourceIds : Lwm2m!ServerReads(ids)
  BY <1>1, <1>2 DEF Lwm2m!ServerReads, Lwm2m!Answer, Lwm2m!Read
<1>3. CASE Lwm2m!ServerDeletes
  BY <1>1, <1>3 DEF Lwm2m!ServerDeletes, Lwm2m!Answer
<1>4. CASE \E ids \in ResourceIds : Lwm2m!ServerDiscovers(ids)
  BY <1>4 DEF Lwm2m!ServerDiscovers, Lwm2m!Answer
<1>5. CASE Lwm2m!ServerModifies
  BY <1>5 DEF Lwm2m!ServerModifies, Lwm2m!Answer
<1>6. CASE \E on \in BOOLEAN : Lwm2m!ServerObserves(on)
  BY <1>6 DEF Lwm2m!ServerObserves, Lwm2m!Answer
<1>7. CASE Lwm2m!Command
  BY <1>7 DEF Lwm2m!Command, Lwm2m!Lwm2mCliInit, Lwm2m!StartClient, Lwm2m!InitSensor,
              Lwm2m!CreateReader, Lwm2m!server
<1>8. CASE Lwm2m!Sample
  BY <1>8 DEF Lwm2m!Sample
<1>9. CASE Lwm2m!Notify \/ Lwm2m!Drift
  BY <1>9 DEF Lwm2m!Notify, Lwm2m!ReadChanged, Lwm2m!SendNotification, Lwm2m!Drift, Lwm2m!server
<1> QED BY <1>2, <1>3, <1>4, <1>5, <1>6, <1>7, <1>8, <1>9 DEF Lwm2m!Next, Lwm2m!Server

-----------------------------------------------------------------------------
(* The sensors exercise.                                                   *)

ThreadReads == lsm \in {"accelerometer", "magnetometer", "unlock"}

\* The thread holds the mutex exactly while it reads, and once stopped, the
\* mutex is the shell's.
LockInv ==
  /\ ThreadReads <=> lsm_lock = "thread"
  /\ stopped => lsm_lock = "main"

SensorsInv == Sensors!TypeOK /\ LockInv /\ Sensors!StoppedIsSilent

LEMMA SensorsInit == Sensors!Init => SensorsInv
<1> SUFFICES ASSUME Sensors!Init PROVE SensorsInv
  OBVIOUS
<1>1. Sensors!TypeOK
  BY DEF Sensors!Init, Sensors!TypeOK
<1>2. LockInv /\ Sensors!StoppedIsSilent
  BY DEF Sensors!Init, LockInv, ThreadReads, Sensors!StoppedIsSilent
<1> QED BY <1>1, <1>2 DEF SensorsInv

\* What a command may do is done while the thread is not reading.
LEMMA ShellRuns == ASSUME SensorsInv, Sensors!ThreadWaits, ~lps PROVE lsm_lock # "thread"
BY DEF SensorsInv, Sensors!TypeOK, LockInv, ThreadReads, Sensors!ThreadWaits

LEMMA TypeStep == ASSUME SensorsInv, Sensors!Next PROVE Sensors!TypeOK'
<1> USE DEF SensorsInv, Sensors!TypeOK
<1>1. CASE Sensors!Lock
  BY <1>1 DEF Sensors!Lock
<1>2. CASE Sensors!ReadAcc
  BY <1>2 DEF Sensors!ReadAcc, Sensors!Read
<1>3. CASE Sensors!ReadMag
  BY <1>3 DEF Sensors!ReadMag, Sensors!Read
<1>4. CASE Sensors!Unlock
  BY <1>4 DEF Sensors!Unlock
<1>5. CASE Sensors!WakeUp
  BY <1>5 DEF Sensors!WakeUp
<1>6. CASE Sensors!CmdLps
  BY <1>6 DEF Sensors!CmdLps
<1>7. CASE Sensors!CmdStart
  BY <1>7 DEF Sensors!CmdStart
<1>8. CASE Sensors!CmdStop
  BY <1>8 DEF Sensors!CmdStop
<1> QED BY <1>1, <1>2, <1>3, <1>4, <1>5, <1>6, <1>7, <1>8 DEF Sensors!Next

\* The thread locks the mutex only once it was started, since it is the shell's
\* before; the shell takes it only from a thread that sleeps or waits for it.
LEMMA LockStep == ASSUME SensorsInv, Sensors!Next PROVE LockInv' /\ Sensors!StoppedIsSilent'
<1> USE DEF SensorsInv, LockInv, Sensors!StoppedIsSilent, ThreadReads
<1>1. CASE Sensors!Lock
  BY <1>1 DEF Sensors!Lock
<1>2. CASE Sensors!ReadAcc
  BY <1>2 DEF Sensors!ReadAcc, Sensors!Read
<1>3. CASE Sensors!ReadMag
  BY <1>3 DEF Sensors!ReadMag, Sensors!Read
<1>4. CASE Sensors!Unlock
  BY <1>4 DEF Sensors!Unlock
<1>5. CASE Sensors!WakeUp
  BY <1>5 DEF Sensors!WakeUp
<1>6. CASE Sensors!CmdLps
  BY <1>6 DEF Sensors!CmdLps
<1>7. CASE Sensors!CmdStart
  BY <1>7, ShellRuns DEF Sensors!CmdStart
<1>8. CASE Sensors!CmdStop
  BY <1>8, ShellRuns DEF Sensors!CmdStop, Sensors!TypeOK
<1> QED BY <1>1, <1>2, <1>3, <1>4, <1>5, <1>6, <1>7, <1>8 DEF Sensors!Next

LEMMA SensorsStep == ASSUME SensorsInv, Sensors!Next PROVE SensorsInv'
BY TypeStep, LockStep DEF SensorsInv

LEMMA SensorsStay == SensorsInv /\ UNCHANGED sensorsVars => SensorsInv'
BY DEF sensorsVars, SensorsInv, Sensors!TypeOK, LockInv, Sensors!StoppedIsSilent, ThreadReads

-----------------------------------------------------------------------------
(* The firmware update node.                                               *)

\* A slot that is reported is the one asked for, in a node that has not been
\* rebooted since.
ReplyInv ==
  reply.to = "slot" =>
    /\ reply.inactive \in BOOLEAN
    /\ reply.slot = IF reply.inactive THEN Suit!Other(current) ELSE current

PrintInv ==
  /\ printed.offset \in 0 .. 2^SIZE_BITS - 1 /\ printed.len \in 0 .. 2^SIZE_BITS - 1
  /\ printed.first = printed.offset
  /\ printed.end = Suit!ToPrint(printed.offset, printed.len)

SuitType ==
  /\ slot \in [{0, 1} -> 0 .. MaxVersion] /\ current \in {0, 1}
  /\ worker \in {{}} \cup {{manifest} : manifest \in Manifest}

SuitInv == SuitType /\ ReplyInv /\ PrintInv

\* A number that a size_t holds is kept as it is.
LEMMA SizeKeeps == \A n \in 0 .. 2^SIZE_BITS - 1 : Suit!Size(n) = n
BY SuitAssumption DEF Suit!Size

LEMMA SuitInit == Suit!Init => SuitInv
<1> SUFFICES ASSUME Suit!Init PROVE SuitInv
  OBVIOUS
<1>1. SuitType
  BY SuitAssumption DEF Suit!Init, SuitType
<1>2. ReplyInv
  BY DEF Suit!Init, ReplyInv, Suit!Other
<1>3. PrintInv
  <2>1. 0 \in 0 .. 2^SIZE_BITS - 1 /\ Suit!ToPrint(0, 0) = 0
    BY SizeKeeps, SuitAssumption DEF Suit!ToPrint
  <2> QED BY <2>1 DEF Suit!Init, PrintInv
<1> QED BY <1>1, <1>2, <1>3 DEF SuitInv

LEMMA TriggerTypes ==
  ASSUME SuitType, NEW manifest \in Manifest, Suit!WorkerTrigger(manifest)
  PROVE  worker' \in {{}} \cup {{m} : m \in Manifest}
BY DEF SuitType, Suit!WorkerTrigger

\* The CoAP handlers, the button and the shell's questions.
LEMMA AskStep ==
  ASSUME SuitInv, UNCHANGED <<slot, current, printed>>,
         worker' \in {{}} \cup {{m} : m \in Manifest},
         reply' = reply \/ reply'.to # "slot"
           \/ \E inactive \in BOOLEAN :
                reply' = [to |-> "slot", inactive |-> inactive, slot |-> Suit!SlotAsked(inactive)]
  PROVE  SuitInv'
<1>1. SuitType' /\ PrintInv'
  BY DEF SuitInv, SuitType, PrintInv, Suit!ToPrint, Suit!Size
<1>2. ReplyInv'
  <2>1. CASE \E inactive \in BOOLEAN :
               reply' = [to |-> "slot", inactive |-> inactive, slot |-> Suit!SlotAsked(inactive)]
    BY <2>1 DEF SuitInv, ReplyInv, Suit!SlotAsked, Suit!Other
  <2>2. CASE reply' = reply \/ reply'.to # "slot"
    BY <2>2 DEF SuitInv, ReplyInv, Suit!Other
  <2> QED BY <2>1, <2>2
<1> QED BY <1>1, <1>2 DEF SuitInv

LEMMA InstallStep == ASSUME SuitInv, Suit!Install \/ Suit!UpdateFails PROVE SuitInv'
<1>1. slot \in [{0, 1} -> 0 .. MaxVersion] /\ current \in {0, 1} /\ MaxVersion \in Nat
  BY SuitAssumption DEF SuitInv, SuitType
<1>2. \/ slot' = slot
      \/ \E v \in 0 .. MaxVersion : slot' = [slot EXCEPT ![Suit!Other(current)] = v]
  <2>1. CASE Suit!Install
    <3>1. slot[current] + 1 \in 0 .. MaxVersion
      BY <1>1, <2>1 DEF Suit!Install
    <3> QED BY <2>1, <3>1 DEF Suit!Install
  <2>2. CASE Suit!UpdateFails
    BY <1>1, <2>2 DEF Suit!UpdateFails
  <2> QED BY <2>1, <2>2
<1>3. UNCHANGED <<current, reply, printed>> /\ (worker' = worker \/ worker' = {})
  BY DEF Suit!Install, Suit!UpdateFails
<1>4. SuitType'
  BY <1>1, <1>2, <1>3 DEF SuitInv, SuitType
<1>5. ReplyInv' /\ PrintInv'
  BY <1>3 DEF SuitInv, ReplyInv, PrintInv, Suit!Other, Suit!ToPrint, Suit!Size
<1> QED BY <1>4, <1>5 DEF SuitInv

LEMMA RebootStep == ASSUME SuitInv, Suit!Reboot PROVE SuitInv'
<1>1. /\ UNCHANGED <<slot, printed>> /\ worker' = {} /\ reply' = [to |-> "nobody"]
      /\ current' \in {current, 1 - current}
  BY DEF Suit!Reboot, Suit!Other
<1>2. SuitType'
  BY <1>1 DEF SuitInv, SuitType
<1>3. ReplyInv' /\ PrintInv'
  BY <1>1 DEF SuitInv, ReplyInv, PrintInv, Suit!ToPrint, Suit!Size
<1> QED BY <1>2, <1>3 DEF SuitInv

LEMMA SuitStep == ASSUME SuitInv, Suit!Next PROVE SuitInv'
<1>0. SuitType
  BY DEF SuitInv
<1>1. ASSUME NEW manifest \in Manifest, NEW len \in PayloadLen, Suit!Trigger(manifest, len)
      PROVE  SuitInv'
  <2>1. UNCHANGED <<slot, current, printed>> /\ reply'.to # "slot"
    BY <1>1 DEF Suit!Trigger, Suit!Reply
  <2>2. worker' \in {{}} \cup {{m} : m \in Manifest}
    <3>1. Suit!WorkerTrigger(manifest) \/ worker' = worker
      BY <1>1 DEF Suit!Trigger
    <3> QED BY <1>0, <3>1, TriggerTypes DEF SuitType
  <2> QED BY <2>1, <2>2, AskStep
<1>2. CASE Suit!Button
  <2>1. UNCHANGED <<slot, current, printed, reply>> /\ Suit!WorkerTrigger(SUIT_MANIFEST_RESOURCE)
    BY <1>2 DEF Suit!Button
  <2>2. worker' \in {{}} \cup {{m} : m \in Manifest}
    BY <1>0, <2>1, TriggerTypes, SuitAssumption
  <2> QED BY <2>1, <2>2, AskStep
<1>3. ASSUME Suit!GetConstant \/ Suit!PrintCurrentSlot \/ \E i \in BOOLEAN : Suit!GetSlot(i)
      PROVE  SuitInv'
  <2>1. UNCHANGED <<slot, current, printed, worker>>
    BY <1>3 DEF Suit!GetConstant, Suit!PrintCurrentSlot, Suit!GetSlot, Suit!Reply
  <2>2. \/ reply'.to # "slot"
        \/ \E i \in BOOLEAN : reply' = [to |-> "slot", inactive |-> i, slot |-> Suit!SlotAsked(i)]
    <3>1. CASE Suit!GetConstant
      BY <3>1 DEF Suit!GetConstant, Suit!Reply
    <3>2. CASE Suit!PrintCurrentSlot
      <4>1. reply' = [to |-> "slot", inactive |-> FALSE, slot |-> current]
        BY <3>2 DEF Suit!PrintCurrentSlot, Suit!Reply
      <4> QED BY <4>1 DEF Suit!SlotAsked
    <3>3. CASE \E i \in BOOLEAN : Suit!GetSlot(i)
      BY <3>3 DEF Suit!GetSlot, Suit!Reply
    <3> QED BY <1>3, <3>1, <3>2, <3>3
  <2> QED BY <1>0, <2>1, <2>2, AskStep DEF SuitType
<1>5. ASSUME NEW offset \in Offset, NEW len \in Length, Suit!PrintSlotContent(offset, len)
      PROVE  SuitInv'
  <2>1. /\ \/ printed' = [offset |-> offset, len |-> len, first |-> offset,
                          end |-> Suit!ToPrint(offset, len)]
           \/ printed' = printed
        /\ UNCHANGED <<slot, current, worker, reply>>
    BY <1>5 DEF Suit!PrintSlotContent
  <2>2. PrintInv'
    BY <2>1, SuitAssumption DEF SuitInv, PrintInv, Suit!ToPrint, Suit!Size
  <2>3. ReplyInv'
    BY <2>1 DEF SuitInv, ReplyInv, Suit!Other
  <2> QED BY <1>0, <2>1, <2>2, <2>3 DEF SuitInv, SuitType
<1> QED BY <1>1, <1>2, <1>3, <1>5, InstallStep, RebootStep DEF Suit!Next

LEMMA SuitStays == SuitInv /\ UNCHANGED suitVars => SuitInv'
BY DEF suitVars, SuitInv, SuitType, ReplyInv, PrintInv, Suit!Other, Suit!ToPrint, Suit!Size

\* Without wrapping around, the sum that main.c compares is the end of the range.
LEMMA RangeOnly == SuitInv => PrintsOnlyRange
<1> SUFFICES ASSUME SuitInv PROVE Suit!PrintsOnlyRange
  BY DEF PrintsOnlyRange
<1> SUFFICES ASSUME printed.offset <= Available, printed.offset + printed.len < 2^SIZE_BITS
             PROVE  /\ printed.first < printed.end => printed.end <= Suit!Last
                    /\ printed.offset = 0 => printed.end = Suit!Last
  BY DEF Suit!PrintsOnlyRange, Suit!InStorage
<1>1. /\ printed.offset \in Nat /\ printed.len \in Nat /\ Available \in Nat /\ 2^SIZE_BITS \in Nat
      /\ Available < 2^SIZE_BITS /\ printed.first = printed.offset
      /\ printed.end = Suit!ToPrint(printed.offset, printed.len)
  BY SuitAssumption DEF SuitInv, PrintInv
<1>2. /\ Suit!Size(printed.offset + printed.len) = printed.offset + printed.len
      /\ Suit!Size(Available - printed.offset) = Available - printed.offset
  BY <1>1, SizeKeeps
<1> QED BY <1>1, <1>2 DEF Suit!ToPrint, Suit!Last, Suit!Within

\* Only the slot that does not run is written to.
LEMMA SlotsRight ==
  ASSUME SuitInv, Suit!Next, reply.to = "slot", NEW s \in {0, 1}, slot'[s] # slot[s]
  PROVE  (s = reply.slot) = reply.inactive
<1>1. Suit!Install \/ Suit!UpdateFails
  BY DEF Suit!Next, Suit!Trigger, Suit!Button, Suit!GetConstant, Suit!GetSlot, Suit!Reply,
         Suit!Reboot, Suit!PrintCurrentSlot, Suit!PrintSlotContent
<1>2. slot \in [{0, 1} -> 0 .. MaxVersion] /\ current \in {0, 1}
  BY DEF SuitInv, SuitType
<1>3. \E v : slot' = [slot EXCEPT ![Suit!Other(current)] = v]
  BY <1>1, <1>2 DEF Suit!Install, Suit!UpdateFails
<1>4. s = Suit!Other(current) /\ Suit!Other(current) # current
  BY <1>2, <1>3 DEF Suit!Other
<1> QED BY <1>4 DEF SuitInv, ReplyInv

LEMMA SameSuitCardinality == ASSUME NEW S PROVE Suit!Cardinality(S) = Cardinality(S)
BY DEF Suit!Cardinality, Cardinality

LEMMA SuitTypes == SuitInv => Suit!TypeOK
<1> SUFFICES ASSUME SuitInv PROVE Suit!TypeOK
  OBVIOUS
<1>1. worker \subseteq Manifest /\ Cardinality(worker) <= 1
  <2>1. worker = {} \/ \E m \in Manifest : worker = {m}
    BY DEF SuitInv, SuitType
  <2>2. CASE worker = {}
    BY <2>2, FS_EmptySet
  <2>3. ASSUME NEW m \in Manifest, worker = {m} PROVE worker \subseteq Manifest /\ Cardinality(worker) = 1
    BY <2>3, FS_Singleton
  <2> QED BY <2>1, <2>2, <2>3
<1>2. printed.end \in 0 .. 2^SIZE_BITS - 1
  <2>1. \A n \in Int : Suit!Size(n) \in 0 .. 2^SIZE_BITS - 1
    BY SuitAssumption DEF Suit!Size
  <2>2. printed.offset \in Int /\ printed.len \in 0 .. 2^SIZE_BITS - 1
    BY DEF SuitInv, PrintInv
  <2> QED BY <2>1, <2>2, SuitAssumption DEF SuitInv, PrintInv, Suit!ToPrint
<1> QED BY <1>1, <1>2, SameSuitCardinality DEF SuitInv, SuitType, Suit!TypeOK

-----------------------------------------------------------------------------
(* The LoRaWAN senders.                                                    *)

\* Once measured, the readings stay until they are sent; Cayenne LPP's buffer
\* is empty but while its content is sent.
ReadingInv ==
  /\ sender \in {"prepare", "send"} =>
       /\ humidity = IF measured.hok THEN measured.h ELSE 0
       /\ temperature = IF measured.tok THEN measured.t ELSE 0
  /\ sender # "send" => lpp = <<>>

MessageInv ==
  sender = "send" =>
    message = IF format = "text" THEN <<Lora!Decimal(temperature), Lora!Decimal(humidity)>>
              ELSE Lora!LppPacket(temperature, humidity)

LoraInv == Lora!TypeOK /\ ReadingInv /\ MessageInv

LEMMA LoraInit == Lora!Init => LoraInv
BY DEF Lora!Init, LoraInv, Lora!TypeOK, ReadingInv, MessageInv

LEMMA SetUpStep ==
  ASSUME LoraInv, NEW step, NEW next \in {"power on", "set rate", "join", "measure"},
         step # "send", Lora!SetUp(step, next)
  PROVE  LoraInv'
BY DEF Lora!SetUp, LoraInv, Lora!TypeOK, ReadingInv, MessageInv

LEMMA MeasureStep ==
  ASSUME LoraInv, NEW h \in Humidity, NEW t \in Temperature, Lora!Measure(h, t)
  PROVE  LoraInv'
<1>1. /\ sender = "measure" /\ sender' = "prepare" /\ UNCHANGED <<format, lpp, message>>
      /\ humidity' = IF measured'.hok THEN measured'.h ELSE 0
      /\ temperature' = IF measured'.tok THEN measured'.t ELSE 0
      /\ humidity' \in Humidity \cup {0} /\ temperature' \in Temperature \cup {0}
  BY DEF Lora!Measure
<1> QED BY <1>1 DEF LoraInv, Lora!TypeOK, ReadingInv, MessageInv

LEMMA PrepareStep == ASSUME LoraInv, Lora!Prepare PROVE LoraInv'
<1>1. /\ sender = "prepare" /\ sender' = "send"
      /\ UNCHANGED <<format, humidity, temperature, measured>>
      /\ lpp = <<>>
  BY DEF Lora!Prepare, LoraInv, ReadingInv
<1>2. lpp \o Lora!LppPacket(temperature, humidity) = Lora!LppPacket(temperature, humidity)
  BY <1>1 DEF Lora!LppPacket
<1>3. message' = IF format = "text" THEN <<Lora!Decimal(temperature), Lora!Decimal(humidity)>>
                 ELSE Lora!LppPacket(temperature, humidity)
  BY <1>2 DEF Lora!Prepare
<1>4. Len(message') = 2
  BY <1>3 DEF Lora!LppPacket
<1>5. Lora!TypeOK'
  BY <1>1, <1>4 DEF LoraInv, Lora!TypeOK
<1> QED BY <1>1, <1>3, <1>5 DEF LoraInv, ReadingInv, MessageInv, Lora!Decimal, Lora!CDiv, Lora!CMod

LEMMA SendStep == ASSUME LoraInv, Lora!Send PROVE LoraInv'
BY DEF Lora!Send, LoraInv, Lora!TypeOK, ReadingInv, MessageInv

LEMMA LoraStep == ASSUME LoraInv, Lora!Next PROVE LoraInv'
<1>1. CASE Lora!InitSensor \/ Lora!PowerOn \/ Lora!SetRate \/ Lora!Join
  BY <1>1, SetUpStep DEF Lora!InitSensor, Lora!PowerOn, Lora!SetRate, Lora!Join
<1> QED BY <1>1, MeasureStep, PrepareStep, SendStep DEF Lora!Next, Lora!Step, Lora!Measures

LEMMA LoraStays == LoraInv /\ UNCHANGED loraVars => LoraInv'
BY DEF loraVars, LoraInv, Lora!TypeOK, ReadingInv, MessageInv, Lora!Decimal, Lora!CDiv, Lora!CMod

\* Quotient and remainder tell the number, above zero and below.
LEMMA DecimalTells ==
  ASSUME NEW n \in Int PROVE 10 * Lora!Decimal(n).int + Lora!Decimal(n).tenth = n
<1>1. Lora!CDiv(n, 10) \in Int
  BY DEF Lora!CDiv
<1> QED BY <1>1 DEF Lora!Decimal, Lora!CMod

LEMMA MessageTells == LoraInv => SentIsMeasured
<1> SUFFICES ASSUME LoraInv, sender = "send"
             PROVE  /\ Len(message) = 2
                    /\ Lora!TemperatureSent <= temperature /\ temperature < Lora!TemperatureSent + 1
                    /\ Lora!HumiditySent <= humidity
                    /\ humidity < Lora!HumiditySent + (IF format = "text" THEN 1 ELSE 5)
  BY DEF LoraInv, ReadingInv, SentIsMeasured, Lora!SentIsMeasured, Lora!Tells
<1>1. humidity \in 0 .. 1000 /\ temperature \in Int
  BY LoraAssumption DEF LoraInv, Lora!TypeOK
<1>2. CASE format = "text"
  <2>1. message = <<Lora!Decimal(temperature), Lora!Decimal(humidity)>>
    BY <1>2 DEF LoraInv, MessageInv
  <2>2. Lora!TemperatureSent = temperature /\ Lora!HumiditySent = humidity
    BY <1>1, <1>2, <2>1, DecimalTells DEF Lora!TemperatureSent, Lora!HumiditySent
  <2> QED BY <1>1, <1>2, <2>1, <2>2
<1>3. CASE format # "text"
  <2>1. message = <<temperature, (humidity \div 5) % 2^8>>
    BY <1>3 DEF LoraInv, MessageInv, Lora!LppPacket
  <2>2. (humidity \div 5) % 2^8 = humidity \div 5
    BY <1>1, Powers
  <2>3. Lora!TemperatureSent = temperature /\ Lora!HumiditySent = 5 * (humidity \div 5)
    BY <1>3, <2>1, <2>2 DEF Lora!TemperatureSent, Lora!HumiditySent
  <2>4. 5 * (humidity \div 5) <= humidity /\ humidity < 5 * (humidity \div 5) + 5
    BY <1>1
  <2> QED BY <1>1, <1>3, <2>1, <2>3, <2>4
<1> QED BY <1>2, <1>3

-----------------------------------------------------------------------------
(* Any program.                                                            *)

Inv ==
  /\ firmware \in Firmware
  /\ ObserveInv /\ PoolInv /\ GettersInv /\ Lwm2mInv /\ SuitInv /\ LoraInv /\ SensorsInv

LEMMA InitInv == Init => Inv
BY ObserveInit, PoolInit, GettersInit, Lwm2mInit, SuitInit, LoraInit, SensorsInit DEF Init, Inv

LEMMA NextInv == ASSUME Inv, Next PROVE Inv'
<1>1. CASE ObserveNext
  <2>1. ObserveInv' /\ PoolInv'
    BY <1>1, ObserveStep, PoolStep DEF ObserveNext, Inv
  <2>2. UNCHANGED <<firmware, getterVars, lwm2mVars, suitVars, loraVars, sensorsVars>>
    BY <1>1 DEF ObserveNext
  <2> QED BY <2>1, <2>2, GettersStay, Lwm2mStays, SuitStays, LoraStays, SensorsStay DEF Inv
<1>2. CASE GettersNext
  <2>1. GettersInv'
    BY <1>2, GettersStep DEF GettersNext, Inv
  <2>2. UNCHANGED <<firmware, observeVars, lwm2mVars, suitVars, loraVars, sensorsVars>>
    BY <1>2 DEF GettersNext
  <2> QED BY <2>1, <2>2, ObserveStays, PoolStays, Lwm2mStays, SuitStays, LoraStays, SensorsStay DEF Inv
<1>3. CASE Lwm2mDoes(Lwm2m!Next)
  <2>1. Lwm2mInv'
    BY <1>3, Lwm2mStep DEF Lwm2mDoes, Inv
  <2>2. UNCHANGED <<firmware, observeVars, getterVars, suitVars, loraVars, sensorsVars>>
    BY <1>3 DEF Lwm2mDoes
  <2> QED BY <2>1, <2>2, ObserveStays, PoolStays, GettersStay, SuitStays, LoraStays, SensorsStay DEF Inv
<1>4. CASE SuitNext
  <2>1. SuitInv'
    BY <1>4, SuitStep DEF SuitNext, Inv
  <2>2. UNCHANGED <<firmware, observeVars, getterVars, lwm2mVars, loraVars, sensorsVars>>
    BY <1>4 DEF SuitNext
  <2> QED BY <2>1, <2>2, ObserveStays, PoolStays, GettersStay, Lwm2mStays, LoraStays, SensorsStay DEF Inv
<1>5. CASE LoraNext
  <2>1. LoraInv'
    BY <1>5, LoraStep DEF LoraNext, Inv
  <2>2. UNCHANGED <<firmware, observeVars, getterVars, lwm2mVars, suitVars, sensorsVars>>
    BY <1>5 DEF LoraNext
  <2> QED BY <2>1, <2>2, ObserveStays, PoolStays, GettersStay, Lwm2mStays, SuitStays, SensorsStay DEF Inv
<1>6. CASE SensorsNext
  <2>1. SensorsInv'
    BY <1>6, SensorsStep DEF SensorsNext, Inv
  <2>2. UNCHANGED <<firmware, observeVars, getterVars, lwm2mVars, suitVars, loraVars>>
    BY <1>6 DEF SensorsNext
  <2> QED BY <2>1, <2>2, ObserveStays, PoolStays, GettersStay, Lwm2mStays, SuitStays, LoraStays DEF Inv
<1> QED BY <1>1, <1>2, <1>3, <1>4, <1>5, <1>6 DEF Next

LEMMA Inductive == Inv /\ [Next]_vars => Inv'
<1> SUFFICES ASSUME Inv, [Next]_vars PROVE Inv'
  OBVIOUS
<1>1. CASE UNCHANGED vars
  <2>1. firmware' = firmware
    BY <1>1 DEF vars
  <2>2. UNCHANGED <<observeVars, getterVars, lwm2mVars, suitVars, loraVars, sensorsVars>>
    BY <1>1 DEF vars
  <2> QED BY <2>1, <2>2, ObserveStays, PoolStays, GettersStay, Lwm2mStays, SuitStays, LoraStays,
             SensorsStay DEF Inv
<1> QED BY <1>1, NextInv

LEMMA SpecInv == Spec => []Inv
BY InitInv, Inductive, PTL DEF Spec

-----------------------------------------------------------------------------
\* Every reachable state is well typed, within the bounds the code sets: the
\* engine never has more open transactions than its pool.
THEOREM TypeCorrect == Spec => []TypeOK
<1>1. Inv => TypeOK
  <2> SUFFICES ASSUME Inv PROVE TypeOK
    OBVIOUS
  <2>1. Observe!TypeOK
    BY ObserveTypes DEF Inv
  <2>2. Suit!TypeOK
    BY SuitTypes DEF Inv
  <2> QED BY <2>1, <2>2 DEF Inv, TypeOK, GettersInv, Lwm2mInv, LoraInv, SensorsInv
<1> QED BY <1>1, SpecInv, PTL

\* Through losses, reordering, repetitions, cancellations, registrations and a
\* full pool, an observer knows the counter, will hear of it or missed it.
THEOREM ObserverKnows == Spec => []UpToDateOrMissed
<1>1. Inv => UpToDateOrMissed
  BY DEF Inv, ObserveInv
<1> QED BY <1>1, SpecInv, PTL

-----------------------------------------------------------------------------
(* The counters are implemented as observed counters.                      *)

\* A step is an event that nobody has seen yet, or one client's newest
\* notification changes within what has happened, or neither.
LEMMA ObservedStep ==
  ASSUME ObserveInv, Observe!Next
  PROVE  \/ \E r \in Observe!Resource :
              event_counter' = [event_counter EXCEPT ![r] = @ + 1] /\ view' = view
         \/ event_counter' = event_counter /\ view' = view
         \/ \E o \in Client :
              /\ event_counter' = event_counter
              /\ \A x \in Client : x # o => view'[x] = view[x]
              /\ view'[o].count \in view[o].count .. event_counter[Observe!Observes(o)]
<1>0. /\ ObserveType /\ OrderInv /\ CountInv
      /\ event_counter \in [Observe!Resource -> Nat]
      /\ view \in [Client -> [seq: Nat \cup {Observe!None}, count: Nat]]
      /\ \A o \in Client : Observe!Observes(o) \in Observe!Resource
  BY DEF ObserveInv, ObserveType, Observe!Observes, Observe!Resource
<1>1. CASE \E r \in Observe!Resource : Observe!Handler(r)
  BY <1>1 DEF Observe!Handler, Observe!Incremented
<1>2. CASE \E o \in Client : Observe!Register(o)
  <2>1. PICK o \in Client : Observe!Register(o)
    BY <1>2
  <2>2. /\ event_counter' = event_counter
        /\ view' = [view EXCEPT ![o] = [seq |-> 0, count |-> event_counter[Observe!Observes(o)]]]
    BY <2>1 DEF Observe!Register
  <2>3. view[o].count \in Nat /\ view[o].count <= event_counter[Observe!Observes(o)]
    BY <1>0 DEF CountInv
  <2>4. /\ \A x \in Client : x # o => view'[x] = view[x]
        /\ view'[o].count = event_counter[Observe!Observes(o)]
    BY <2>2, <1>0
  <2>5. event_counter[Observe!Observes(o)] \in Nat
    BY <1>0
  <2>6. view'[o].count \in view[o].count .. event_counter[Observe!Observes(o)]
    BY <2>3, <2>4, <2>5
  <2> QED BY <2>2, <2>4, <2>6
<1>3. CASE \E m \in net : Observe!Receive(m)
  <2>1. PICK m \in net : Observe!Receive(m)
    BY <1>3
  <2>2. event_counter' = event_counter
    BY <2>1 DEF Observe!Receive
  <2>3. CASE m.seq > view[m.to].seq
    <3>1. m \in Sent /\ m.to \in Client /\ m.count \in Nat /\ m.seq \in Nat
      BY <1>0 DEF Sent, ObserveType, Observe!Notification, Client
    <3>2. m.count >= view[m.to].count /\ m.count <= event_counter[Observe!Observes(m.to)]
      BY <2>3, <3>1, <1>0 DEF OrderInv, CountInv, Current, Observe!None
    <3>3. view' = [view EXCEPT ![m.to] = [seq |-> m.seq, count |-> m.count]]
      BY <2>1, <2>3 DEF Observe!Receive
    <3>4. /\ \A x \in Client : x # m.to => view'[x] = view[x]
          /\ view'[m.to].count = m.count
      BY <3>1, <3>3, <1>0
    <3>5. view[m.to].count \in Nat /\ event_counter[Observe!Observes(m.to)] \in Nat
      BY <3>1, <1>0
    <3>6. view'[m.to].count \in view[m.to].count .. event_counter[Observe!Observes(m.to)]
      BY <3>1, <3>2, <3>4, <3>5
    <3> QED BY <2>2, <3>1, <3>4, <3>6
  <2>4. CASE ~(m.seq > view[m.to].seq)
    BY <2>1, <2>4 DEF Observe!Receive
  <2> QED BY <2>3, <2>4
<1>4. CASE \/ \E o \in Client : Observe!Cancel(o)
           \/ \E m \in net : Observe!Lose(m)
           \/ \E t \in open : \/ Observe!Retransmit(t) \/ Observe!Reject(t)
                              \/ Observe!TransactionTimeout(t)
  BY <1>4 DEF Observe!Cancel, Observe!Lose, Observe!Retransmit, Observe!Reject,
     Observe!TransactionTimeout
<1> QED BY <1>1, <1>2, <1>3, <1>4 DEF Observe!Next, Client, Observe!Observer

\* Whatever is skipped, lost, repeated or reordered, an observer learns only of
\* events that happened and never goes back: each resource is an observed counter.
THEOREM CounterImplemented == Spec => ImplementsCounter
<1>1. Init => Counted!Init
  BY DEF Init, Observe!Init, Counted!Init, Observe!Observer
<1>2. Inv /\ [Next]_vars => [Counted!Next]_(Counted!vars)
  <2> SUFFICES ASSUME Inv, [Next]_vars PROVE [Counted!Next]_(Counted!vars)
    OBVIOUS
  <2>1. CASE ObserveNext
    <3>0. ObserveInv /\ ObserveType
      BY DEF Inv, ObserveInv
    <3>1. CASE \E r \in Observe!Resource :
                 event_counter' = [event_counter EXCEPT ![r] = @ + 1] /\ view' = view
      BY <3>1 DEF Counted!Next, Counted!Event
    <3>2. CASE event_counter' = event_counter /\ view' = view
      BY <3>2 DEF Counted!vars
    <3>3. ASSUME NEW o \in Client, event_counter' = event_counter,
                 \A x \in Client : x # o => view'[x] = view[x],
                 view'[o].count \in view[o].count .. event_counter[Observe!Observes(o)]
          PROVE  [Counted!Next]_(Counted!vars)
      <4>1. CASE view'[o].count = view[o].count
        <5>1. \A x \in Client : view'[x].count = view[x].count
          BY <3>3, <4>1
        <5> QED BY <5>1, <3>3 DEF Counted!vars, Client
      <4>2. CASE view'[o].count # view[o].count
        <5>1. view[o].count \in Nat /\ event_counter[Observe!Observes(o)] \in Nat
          BY <3>0 DEF ObserveType, Observe!Observes, Observe!Resource
        <5>2. PICK n \in view[o].count + 1 .. event_counter[Observe!Observes(o)] :
                n = view'[o].count
          BY <5>1, <3>3, <4>2
        <5>3. [x \in Client |-> view'[x].count] = [[x \in Client |-> view[x].count] EXCEPT ![o] = n]
          BY <5>2, <3>3
        <5>4. Counted!Learn(o)
          BY <5>2, <5>3, <3>3 DEF Counted!Learn, Client
        <5> QED BY <5>4 DEF Counted!Next, Client
      <4> QED BY <4>1, <4>2
    <3> QED BY <2>1, <3>0, <3>1, <3>2, <3>3, ObservedStep DEF ObserveNext
  <2>2. CASE ~ObserveNext
    <3>1. UNCHANGED <<event_counter, view>>
      BY <2>2 DEF Next, GettersNext, Lwm2mDoes, SuitNext, LoraNext, SensorsNext, vars, observeVars
    <3> QED BY <3>1 DEF Counted!vars
  <2> QED BY <2>1, <2>2
<1> QED BY <1>1, <1>2, SpecInv, PTL DEF Spec, ImplementsCounter, Counted!Spec

\* Within a degree, for every reading of 14 bits from -0.90 degrees up.
THEOREM Sht11Accurate == Spec => []Sht11WithinADegree
<1>1. Inv => Sht11WithinADegree
  BY DEF Inv, GettersInv
<1> QED BY <1>1, SpecInv, PTL

\* Two answers of /test/hello with one ETag are the same, for every payload
\* whose length fits in a byte.
THEOREM EtagTells == Spec => []EtagIdentifies
<1>1. Inv => EtagIdentifies
  BY DEF Inv, GettersInv
<1> QED BY <1>1, SpecInv, PTL

\* However many writes a mirrored request takes, guarded or not, and however long
\* they are, a text that does not fit in the payload is marked as cut, whatever
\* the library makes of a size below zero.
THEOREM CutIsTold == Spec => []CutIsMarked
<1>1. Inv => CutIsMarked
  BY DEF Inv, GettersInv
<1> QED BY <1>1, SpecInv, PTL

\* However often start is typed and whatever fails in it, one reader thread at
\* most runs on the one stack.
THEOREM ReaderIsOne == Spec => []OneReader
<1>1. Inv => OneReader
  BY DEF Inv, Lwm2mInv, StartInv, OneReader, Lwm2m!OneReader
<1> QED BY <1>1, SpecInv, PTL

\* No read or deletion finds an instance again that the server was told is
\* deleted, though the reader goes on writing to it.
THEOREM DeletedStaysGone == Spec => DeletedIsGone
<1>1. Inv /\ [Next]_vars
        => [deleted /\ answer' # answer /\ answer'.to \in {"read", "delete"}
              => answer'.code = "4.04"]_(Lwm2m!lwm2mVars)
  <2> SUFFICES ASSUME Inv, [Next]_vars, deleted, answer' # answer, answer'.to \in {"read", "delete"}
               PROVE  answer'.code = "4.04"
    OBVIOUS
  <2>1. ~UNCHANGED lwm2mVars
    BY DEF lwm2mVars
  <2>2. Lwm2mDoes(Lwm2m!Next)
    BY <2>1 DEF Next, ObserveNext, GettersNext, SuitNext, LoraNext, SensorsNext, vars
  <2> QED BY <2>2, DeletedAnswer DEF Lwm2mDoes, Inv
<1> QED BY <1>1, SpecInv, PTL DEF Spec, DeletedIsGone, Lwm2m!DeletedIsGone

\* After any number of updates, failed or not, an update writes to the slot that
\* was reported inactive and never to the one reported active.
THEOREM SlotsAreReported == Spec => SlotsReported
<1>1. Inv /\ [Next]_vars
        => [reply.to = "slot" =>
              \A s \in {0, 1} : slot'[s] # slot[s] => (s = reply.slot) = reply.inactive]_(Suit!suitVars)
  <2> SUFFICES ASSUME Inv, [Next]_vars, reply.to = "slot", NEW s \in {0, 1}, slot'[s] # slot[s]
               PROVE  (s = reply.slot) = reply.inactive
    OBVIOUS
  <2>1. ~UNCHANGED suitVars
    BY DEF suitVars
  <2>2. SuitNext
    BY <2>1 DEF Next, ObserveNext, GettersNext, Lwm2mDoes, LoraNext, SensorsNext, vars
  <2> QED BY <2>2, SlotsRight DEF SuitNext, Inv
<1> QED BY <1>1, SpecInv, PTL DEF Spec, SlotsReported, Suit!SlotsReported

\* No range that a user can ask for is exceeded, unless its end wraps around.
THEOREM PrintedInRange == Spec => []PrintsOnlyRange
<1>1. Inv => PrintsOnlyRange
  BY RangeOnly DEF Inv
<1> QED BY <1>1, SpecInv, PTL

\* Every message tells its own round's readings, to a tenth or to half a percent
\* of humidity, and 0 for a reading that failed.
THEOREM MessageIsMeasured == Spec => []SentIsMeasured
<1>1. Inv => SentIsMeasured
  BY MessageTells DEF Inv
<1> QED BY <1>1, SpecInv, PTL

\* From the beginning, and once lsm stop has returned, the thread reads nothing
\* until the next start.
THEOREM Silent == Spec => []StoppedIsSilent
<1>1. Inv => StoppedIsSilent
  BY DEF Inv, SensorsInv, StoppedIsSilent
<1> QED BY <1>1, SpecInv, PTL

\* The mutex is the thread's exactly while it reads, so a stop never takes it in
\* the middle of a round.
THEOREM MutexHeld == Spec => []LockInv
<1>1. Inv => LockInv
  BY DEF Inv, SensorsInv
<1> QED BY <1>1, SpecInv, PTL
=============================================================================
