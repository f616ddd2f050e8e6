------------------------------ MODULE Lwm2mClient ------------------------------
(***************************************************************************)
(* The LwM2M client (riot/networking/lwm2m): the shell command that starts *)
(* it, the temperature object of temperature_object.c, and the reader      *)
(* thread that lwm2m.md adds to lwm2m_cli.c.  Three threads meet here: the *)
(* shell's, wakaama's, which runs the object's functions for the server,   *)
(* and the reader's, which keeps a pointer to the object's instance.  The  *)
(* reader's priority is above the others': it is not interrupted while it  *)
(* runs, and may interrupt wakaama anywhere.                               *)
(***************************************************************************)
EXTENDS Integers, Sequences

CONSTANTS
  Temp,       \* sensor readings; 0 is what a new instance holds
  ResourceIds \* lists of resource ids a server asks for; <<>> for all

VARIABLES
  objects,   \* what lwm2m_cli_init left: "unset", "missing", "insecure" or "ready"
  start,     \* where the start command is
  connected,
  readers,   \* reader threads on the one stack
  reader,    \* "none", "runs", or "fault" after a NULL temp_instance
  listed,    \* the instance is on the object's list; otherwise it is freed
  sensor_value, sensor,
  changed,   \* wakaama: the observed value is marked as changed
  notifying, \* wakaama: the value it has read for a notification, if any
  observed,  \* the server observes the value
  server_value, \* and has this one
  deleted,   \* history: the server was told that the instance is deleted
  answer     \* the last answer to a read or a discovery

shell == <<objects, start, connected>>
thread == <<readers, reader>>
server == <<changed, notifying, observed, server_value, deleted, answer>>
lwm2mVars == <<shell, thread, listed, sensor_value, sensor, server>>

Init ==
  /\ objects = "unset" /\ start = "idle" /\ connected = FALSE
  /\ readers = 0 /\ reader = "none"
  /\ listed = TRUE /\ sensor_value = 0 /\ sensor \in Temp
  /\ changed = FALSE /\ notifying = {} /\ observed = FALSE /\ server_value = 0
  /\ deleted = FALSE /\ answer = [to |-> "nothing"]

-----------------------------------------------------------------------------
(* Shell thread.                                                           *)

\* Mandatory objects may not be created, nor the security instance.
Lwm2mCliInit ==
  /\ objects = "unset"
  /\ objects' \in {"missing", "insecure", "ready"}
  /\ UNCHANGED <<start, connected, thread, listed, sensor_value, sensor, server>>

\* Fault: connected is not set.
StartClientAgain ==
  /\ start = "idle" /\ ~connected /\ objects \in {"insecure", "ready"}
  /\ start' = "init sensor"
  /\ UNCHANGED <<objects, connected, thread, listed, sensor_value, sensor, server>>

\* lwm2m start: lwm2m_client_run needs the objects.
StartClient ==
  /\ start = "idle" /\ ~connected /\ objects \in {"insecure", "ready"}
  /\ connected' = TRUE /\ start' = "init sensor"
  /\ UNCHANGED <<objects, thread, listed, sensor_value, sensor, server>>

\* The command returns when lpsxxx_init fails, with connected set.
InitSensor ==
  /\ start = "init sensor"
  /\ start' \in {"idle", "create thread"}
  /\ UNCHANGED <<objects, connected, thread, listed, sensor_value, sensor, server>>

\* temp_instance = lwm2m_list_find(...); thread_create(...)
CreateReader ==
  /\ start = "create thread"
  /\ start' = "idle"
  /\ readers' = readers + 1
  /\ reader' = IF listed THEN "runs" ELSE "fault"
  /\ UNCHANGED <<objects, connected, listed, sensor_value, sensor, server>>

-----------------------------------------------------------------------------
(* Reader thread.                                                          *)

\* Fault: only a value that is not the last one is marked.
SampleMarkIfNew ==
  /\ reader = "runs"
  /\ sensor_value' = sensor
  /\ changed' = (changed \/ (observed /\ sensor # sensor_value))
  /\ UNCHANGED <<shell, thread, listed, sensor, notifying, observed, server_value, deleted, answer>>

\* temp_instance->sensor_value = temp / 100.0, into freed memory after a delete;
\* lwm2m_resource_value_changed; and the reader sleeps.
Sample ==
  /\ reader = "runs"
  /\ sensor_value' = sensor
  /\ changed' = (changed \/ observed)
  /\ UNCHANGED <<shell, thread, listed, sensor, notifying, observed, server_value, deleted, answer>>

-----------------------------------------------------------------------------
(* Object functions, on wakaama's thread once the server is registered.    *)

Registered == connected /\ objects = "ready"
Known == {"value", "units"}
Elements(ids) == {ids[i] : i \in DOMAIN ids}

\* To name all resources, memory has to be allocated for them.
Found(ids, allocated, known) ==
  IF ids = <<>> /\ ~allocated THEN "5.00" ELSE IF known THEN "2.05" ELSE "4.04"

Read(ids, allocated) ==
  IF listed THEN Found(ids, allocated, Elements(ids) \subseteq Known) ELSE "4.04"

\* The loop returns at its first id.
Discover(ids, allocated) == Found(ids, allocated, ids = <<>> \/ ids[1] \in Known)

\* wakaama's thread is not in the middle of a notification.
Answer(a) ==
  /\ Registered /\ notifying = {}
  /\ answer' = a
  /\ UNCHANGED <<shell, thread, sensor_value, sensor, notifying>>

ServerReads(ids) ==
  /\ \E allocated \in BOOLEAN :
       Answer([to |-> "read", ids |-> ids, code |-> Read(ids, allocated), listed |-> listed])
  /\ UNCHANGED <<listed, changed, observed, server_value, deleted>>

ServerDiscovers(ids) ==
  /\ \E allocated \in BOOLEAN :
       Answer([to |-> "discover", ids |-> ids, code |-> Discover(ids, allocated), listed |-> listed])
  /\ UNCHANGED <<listed, changed, observed, server_value, deleted>>

\* _write, _create and _execute
ServerModifies ==
  /\ Answer([to |-> "modify", code |-> "4.05"])
  /\ UNCHANGED <<listed, changed, observed, server_value, deleted>>

\* Fault: the list keeps the freed instance.
ServerDeletesUnlisted ==
  /\ Answer([to |-> "delete", code |-> IF listed THEN "2.02" ELSE "4.04"])
  /\ deleted' = (deleted \/ listed)
  /\ UNCHANGED <<listed, changed, observed, server_value>>

\* _delete takes the instance from the list and frees it.
ServerDeletes ==
  /\ Answer([to |-> "delete", code |-> IF listed THEN "2.02" ELSE "4.04"])
  /\ listed' = FALSE /\ deleted' = (deleted \/ listed)
  /\ UNCHANGED <<changed, observed, server_value>>

\* Observing begins with a read and ends with a cancellation; the mark is the
\* observation's.
ServerObserves(on) ==
  /\ listed /\ observed # on
  /\ Answer([to |-> "observe"])
  /\ observed' = on /\ changed' = FALSE
  /\ server_value' = IF on THEN sensor_value ELSE server_value
  /\ UNCHANGED <<listed, deleted>>

\* wakaama's step reads a value marked as changed, if its instance is there.
ReadChanged ==
  /\ Registered /\ changed /\ listed /\ notifying = {}
  /\ notifying' = {sensor_value}
  /\ UNCHANGED <<shell, thread, listed, sensor_value, sensor, changed, observed, server_value,
                 deleted, answer>>

\* It sends what it read and clears the mark, also one that was set meanwhile.
SendNotification ==
  /\ \E v \in notifying : server_value' = v
  /\ notifying' = {} /\ changed' = FALSE
  /\ UNCHANGED <<shell, thread, listed, sensor_value, sensor, observed, deleted, answer>>

Notify == ReadChanged \/ SendNotification

Drift ==
  /\ sensor' \in Temp
  /\ UNCHANGED <<shell, thread, listed, sensor_value, server>>

-----------------------------------------------------------------------------
Command == Lwm2mCliInit \/ StartClient \/ InitSensor \/ CreateReader
Server ==
  \/ \E ids \in ResourceIds : ServerReads(ids) \/ ServerDiscovers(ids)
  \/ ServerModifies \/ ServerDeletes
  \/ \E on \in BOOLEAN : ServerObserves(on)

Next == Command \/ Sample \/ Server \/ Notify \/ Drift

Spec == Init /\ [][Next]_lwm2mVars

\* The reader wakes up every five seconds; wakaama's thread handles its marks.
FairSpec == Spec /\ WF_lwm2mVars(Sample) /\ WF_lwm2mVars(Notify)

-----------------------------------------------------------------------------
TypeOK ==
  /\ objects \in {"unset", "missing", "insecure", "ready"}
  /\ start \in {"idle", "init sensor", "create thread"}
  /\ reader \in {"none", "runs", "fault"} /\ readers \in Nat
  /\ connected \in BOOLEAN /\ listed \in BOOLEAN /\ changed \in BOOLEAN /\ observed \in BOOLEAN
  /\ deleted \in BOOLEAN
  /\ sensor_value \in Temp \cup {0} /\ sensor \in Temp /\ server_value \in Temp \cup {0}
  /\ notifying \subseteq Temp \cup {0}

\* However often start is typed, and whatever fails in it, one thread runs on
\* the one stack, over the one sensor.
OneReader == readers <= 1

\* Once the server was told that the instance is deleted, no read or deletion
\* finds it again, though the reader goes on writing to it.
DeletedIsGone ==
  [][deleted /\ answer' # answer /\ answer'.to \in {"read", "delete"} => answer'.code = "4.04"]_lwm2mVars

\* The value that the reader updates is one of the object's instance, as lwm2m.md
\* says: it "updates the LwM2M object instance sensor value".  The reader's
\* pointer outlives the instance.
UpdatesInstance == [][sensor_value' # sensor_value => listed]_lwm2mVars

\* When the sensor settles, the server that observes it comes to hold its value,
\* though a mark is lost that the reader sets between wakaama's reading of the
\* value and its notification.
Settled(v) == sensor = v /\ observed /\ listed /\ Registered /\ reader = "runs"
ServerCatchesUp == \A v \in Temp : <>[]Settled(v) => <>[](server_value = v)
=============================================================================
