------------------------------- MODULE LsmThread -------------------------------
(***************************************************************************)
(* The sensors exercise (riot/basics/sensors/main.c, completed as          *)
(* sensors.md says): the accelerometer thread, the shell command lsm that  *)
(* starts and stops it with a mutex, locked at first, and the command lps, *)
(* which reads another sensor on the same bus.  The thread has the higher  *)
(* priority: the shell runs only while it waits or sleeps.                 *)
(***************************************************************************)
VARIABLES
  lsm_lock,   \* "free", or who locked it last: "thread" or "main"
  lsm,        \* where the thread is
  lps,        \* whether the shell is reading the other sensor, holding the bus
  stopped,    \* history: no start since the last stop, or since the beginning
  heard       \* history: something was printed since

lsmVars == <<lsm_lock, lsm, lps, stopped, heard>>

\* Fault: MUTEX_INIT
InitUnlocked ==
  /\ lsm_lock = "free" /\ lsm = "lock" /\ lps = FALSE
  /\ stopped = TRUE /\ heard = FALSE

\* MUTEX_INIT_LOCKED
Init ==
  /\ lsm_lock = "main" /\ lsm = "lock" /\ lps = FALSE
  /\ stopped = TRUE /\ heard = FALSE

\* mutex_lock waits while the mutex is locked.
Lock ==
  /\ lsm = "lock" /\ lsm_lock = "free"
  /\ lsm_lock' = "thread" /\ lsm' = "accelerometer"
  /\ UNCHANGED <<lps, stopped, heard>>

\* The driver waits for the bus.
Read(what, next) ==
  /\ lsm = what /\ ~lps
  /\ heard' = TRUE /\ lsm' = next
  /\ UNCHANGED <<lsm_lock, lps, stopped>>

ReadAcc == Read("accelerometer", "magnetometer")
ReadMag == Read("magnetometer", "unlock")

Unlock ==
  /\ lsm = "unlock"
  /\ lsm_lock' = "free" /\ lsm' = "sleep"
  /\ UNCHANGED <<lps, stopped, heard>>

\* ztimer_sleep(ZTIMER_MSEC, 500)
WakeUp ==
  /\ lsm = "sleep" /\ lsm' = "lock"
  /\ UNCHANGED <<lsm_lock, lps, stopped, heard>>

ThreadWaits ==
  \/ lsm = "sleep"
  \/ lsm = "lock" /\ lsm_lock # "free"
  \/ lsm \in {"accelerometer", "magnetometer"} /\ lps

\* lps temperature, lps pressure
CmdLps ==
  /\ ThreadWaits
  /\ lps' = ~lps
  /\ UNCHANGED <<lsm_lock, lsm, stopped, heard>>

\* lsm start: mutex_unlock, whoever locked it.
CmdStart ==
  /\ ThreadWaits /\ ~lps
  /\ lsm_lock' = "free" /\ stopped' = FALSE /\ heard' = FALSE
  /\ UNCHANGED <<lsm, lps>>

\* lsm stop: mutex_trylock, which gives up when the mutex is locked.
CmdStop ==
  /\ ThreadWaits /\ ~lps
  /\ lsm_lock' = IF lsm_lock = "free" THEN "main" ELSE lsm_lock
  /\ stopped' = TRUE /\ heard' = FALSE
  /\ UNCHANGED <<lsm, lps>>

Next == Lock \/ ReadAcc \/ ReadMag \/ Unlock \/ WakeUp \/ CmdLps \/ CmdStart \/ CmdStop

Spec == Init /\ [][Next]_lsmVars

TypeOK ==
  /\ lsm_lock \in {"free", "thread", "main"}
  /\ lsm \in {"lock", "accelerometer", "magnetometer", "unlock", "sleep"}
  /\ lps \in BOOLEAN /\ stopped \in BOOLEAN /\ heard \in BOOLEAN

\* From the beginning, and once stop has returned, nothing is read until the
\* next start, wherever in its round the thread was, whoever had the bus, and
\* however often start and stop were typed before.
StoppedIsSilent == stopped => ~heard
=============================================================================
