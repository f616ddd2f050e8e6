------------------------------- MODULE SuitNode -------------------------------
(***************************************************************************)
(* The node of the firmware update exercise (riot/security/ota): the CoAP  *)
(* handlers of coap_handler.c, the button and the shell of main.c.  RIOT's *)
(* update worker, the boot loader and the storage are modelled from their  *)
(* use: an update is written to the slot that does not run, and the newest *)
(* slot is booted.                                                         *)
(***************************************************************************)
EXTENDS Integers, FiniteSets

CONSTANTS
  Manifest, SUIT_MANIFEST_RESOURCE,  \* what a URL names; what the button asks for
  PayloadLen,                        \* lengths of a trigger's payload
  CONFIG_SOCK_URLPATH_MAXLEN,
  Available,                         \* bytes a storage holds
  Offset, Length,                     \* what a user asks storage_content for
  SIZE_BITS,                         \* bits of size_t and uint32_t
  MaxVersion                         \* bound: firmware versions

VARIABLES
  slot,      \* the version in each slot
  current,   \* the slot that runs
  worker,    \* the manifest the worker is at, if any
  reply,     \* the last answer
  printed    \* the last bytes printed: what was asked for, the first and the end

suitVars == <<slot, current, worker, reply, printed>>

Other(s) == 1 - s          \* riotboot_slot_other

Init ==
  /\ slot = [s \in {0, 1} |-> IF s = 0 THEN 1 ELSE 0] /\ current = 0
  /\ worker = {}
  /\ reply = [to |-> "nobody"]
  /\ printed = [offset |-> 0, len |-> 0, first |-> 0, end |-> 0]

-----------------------------------------------------------------------------
(* CoAP handlers and the button.                                           *)

\* suit_worker_trigger: a worker that is busy ignores the call, or takes it
\* instead of what it was doing.
WorkerTrigger(manifest) ==
  \/ worker' = {manifest}
  \/ worker # {} /\ UNCHANGED worker

Reply(r) == reply' = r /\ UNCHANGED <<slot, current, printed>>

\* The URL and its terminating zero have to fit.
TriggerCode(len) ==
  IF len = 0 THEN "4.08" ELSE IF len >= CONFIG_SOCK_URLPATH_MAXLEN THEN "4.13" ELSE "2.01"

\* _trigger_handler answers CREATED whatever the worker makes of it.
Trigger(manifest, len) ==
  LET code == TriggerCode(len) IN
    /\ Reply([to |-> "trigger", code |-> code])
    /\ IF code = "2.01" THEN WorkerTrigger(manifest) ELSE UNCHANGED worker

\* cb, from the button's interrupt
Button ==
  /\ WorkerTrigger(SUIT_MANIFEST_RESOURCE)
  /\ UNCHANGED <<slot, current, reply, printed>>

\* Fault: the context is not looked at.
SlotAskedCurrent(inactive) == current

SlotAsked(inactive) == IF inactive THEN Other(current) ELSE current

\* _slot_handler, for /suit/slot/active and /suit/slot/inactive
GetSlot(inactive) ==
  /\ Reply([to |-> "slot", inactive |-> inactive, slot |-> SlotAsked(inactive)])
  /\ UNCHANGED worker

\* _version_handler and _riot_board_handler answer with constants.
GetConstant ==
  /\ Reply([to |-> "constant"])
  /\ UNCHANGED worker

-----------------------------------------------------------------------------
(* The worker and the boot loader.                                         *)

Installed == slot[Other(current)] > slot[current]

\* A newer image is stored in the other slot; the worker is busy until the reboot.
Install ==
  /\ worker # {} /\ ~Installed /\ slot[current] < MaxVersion
  /\ slot' = [slot EXCEPT ![Other(current)] = slot[current] + 1]
  /\ UNCHANGED <<current, worker, reply, printed>>

\* The other slot keeps its image, or what was written of a new one, no image.
UpdateFails ==
  /\ worker # {} /\ ~Installed
  /\ worker' = {}
  /\ slot' \in {slot, [slot EXCEPT ![Other(current)] = 0]}
  /\ UNCHANGED <<current, reply, printed>>

\* The worker reboots what it has installed, and the user may reset the board at
\* any time: the newest image is booted.
Reboot ==
  /\ current' = IF Installed THEN Other(current) ELSE current
  /\ worker' = {} /\ reply' = [to |-> "nobody"]
  /\ UNCHANGED <<slot, printed>>

-----------------------------------------------------------------------------
(* Shell.                                                                  *)

Size(n) == n % 2^SIZE_BITS

\* Fault: the length asked for is not cut.
ToPrintUncut(offset, len) == len

\* available < offset + len ? available - offset : len
ToPrint(offset, len) ==
  IF Available < Size(offset + len) THEN Size(Available - offset) ELSE len

\* storage_content <storage_id> <addr> <len>: the bytes from offset to ToPrint are
\* printed, as if that were where they end; none of a storage that does not exist
\* or has no pointer to read from.
PrintSlotContent(offset, len) ==
  /\ \/ printed' = [offset |-> offset, len |-> len, first |-> offset, end |-> ToPrint(offset, len)]
     \/ UNCHANGED printed
  /\ UNCHANGED <<slot, current, worker, reply>>

\* current-slot and riotboot-hdr
PrintCurrentSlot ==
  /\ Reply([to |-> "slot", inactive |-> FALSE, slot |-> current])
  /\ UNCHANGED worker

-----------------------------------------------------------------------------
Next ==
  \/ \E manifest \in Manifest, len \in PayloadLen : Trigger(manifest, len)
  \/ Button \/ GetConstant
  \/ \E inactive \in BOOLEAN : GetSlot(inactive)
  \/ Install \/ UpdateFails \/ Reboot
  \/ PrintCurrentSlot
  \/ \E offset \in Offset, len \in Length : PrintSlotContent(offset, len)

Spec == Init /\ [][Next]_suitVars

TypeOK ==
  /\ slot \in [{0, 1} -> 0 .. MaxVersion] /\ current \in {0, 1}
  /\ Cardinality(worker) <= 1 /\ worker \subseteq Manifest
  /\ printed.end \in 0 .. 2^SIZE_BITS - 1

\* Across updates, failures and reboots, an update writes to the slot that was
\* reported inactive, and never to the one reported active.
SlotsReported ==
  [][reply.to = "slot" =>
       \A s \in {0, 1} : slot'[s] # slot[s] => (s = reply.slot) = reply.inactive]_suitVars

\* An offset within the storage prints no byte outside the range asked for, nor
\* one beyond the end; from offset 0 it prints the whole range.  The end of the
\* range is a size_t: one that wraps around is another range.
Within(a, b) == IF a < b THEN a ELSE b
Last == Within(printed.offset + printed.len, Available)
InStorage == printed.offset <= Available /\ printed.offset + printed.len < 2^SIZE_BITS
PrintsOnlyRange ==
  InStorage =>
    /\ printed.first < printed.end => printed.end <= Last
    /\ printed.offset = 0 => printed.end = Last

=============================================================================
