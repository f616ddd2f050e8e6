-------------------------------- MODULE BleRss --------------------------------
(***************************************************************************)
(* The BLE exercise (riot/ble/ble_scan).  Boards advertise a name, their   *)
(* transmission power and, if set, manufacturer data; one board scans in   *)
(* cycles and prints what it heard in each.  A board's shell thread runs   *)
(* one command at a time; the BLE host, of higher priority, accepts        *)
(* connections and receives advertisements between any two of its steps.   *)
(***************************************************************************)
EXTENDS Integers, FiniteSets

CONSTANTS
  Board,         \* the boards that advertise
  Name, Data,    \* device names and manufacturer data
  None,          \* no such field
  Beacon,        \* advertisements of other devices, by device
  Size,          \* bytes of a name or of data
  AD_SPACE,      \* bytes an advertisement has for both
  MAX_VENDOR_DATA_SIZE,  \* the longest data accepted
  Duration,      \* durations a user asks for
  FOREVER,       \* BLE_HS_FOREVER, INT32_MAX
  LIST_SIZE,     \* entries of nimble's scan list
  CycleArg,      \* numbers of cycles a user types
  MaxTime        \* bound on the time counted on the air

\* What bluetil_ad finds in an advertisement.
Field == Name \cup Data \cup {None}
Ad == [complete: Field, short: Field, data: Field, tx: BOOLEAN]

ASSUME FieldAssumption ==
  /\ None \notin Name \cup Data
  /\ Size \in [Name \cup Data \cup {None} -> Nat] /\ Size[None] = 0
  /\ \A d \in DOMAIN Beacon : d \notin Board /\ Beacon[d] \in Ad
ASSUME NumberAssumption ==
  /\ AD_SPACE \in Nat /\ MAX_VENDOR_DATA_SIZE \in Nat /\ LIST_SIZE \in Nat \ {0}
  /\ Duration \subseteq Nat /\ FOREVER \in Nat /\ \A d \in Duration : d < FOREVER
  /\ CycleArg \subseteq Int
  /\ MaxTime \in 0 .. FOREVER

Silent == [silent |-> TRUE]

VARIABLES
  gap_name,   \* the device name in the GAP service
  vendor,     \* manufacturer_specific_data, None when not valid
  buffer,     \* nimble_autoadv's advertising data
  onair,      \* what the controller broadcasts, Silent when not active
  linked,     \* whether a central is connected
  shell,      \* where the board's shell is: a rename restarts in a second step
  asked,      \* history: the duration of the last autoadv start
  elapsed,    \* history: how long it has been on the air since then, capped
  resumed,    \* history: on the air again after a connection, by itself
  scan,       \* ble_rss_scan: its place in a cycle and the cycles to go
  scanlist,   \* nimble_scanlist: for each device heard its advertisement, and
              \* as a history the cycle it was received in
  report,     \* what the last cycle printed, and which cycle that was
  cycles      \* history: the cycles last typed, and those run since

gap == <<gap_name, vendor>>
stack == <<buffer, onair, linked>>
history == <<asked, elapsed, resumed>>
scanner == <<scan, scanlist, report, cycles>>
vars == <<gap, stack, shell, history, scanner>>

Init ==
  /\ gap_name \in [Board -> {n \in Name : Size[n] <= AD_SPACE}]
  /\ vendor = [b \in Board |-> None]
  /\ buffer = [b \in Board |-> Silent]
  /\ onair = [b \in Board |-> Silent] /\ linked = [b \in Board |-> FALSE]
  /\ shell = [b \in Board |-> "idle"]
  /\ asked = [b \in Board |-> FOREVER] /\ elapsed = [b \in Board |-> 0]
  /\ resumed = [b \in Board |-> FALSE]
  /\ scan = [pc |-> "idle", left |-> 0] /\ scanlist = {}
  /\ report = [cycle |-> 0, entries |-> {}]
  /\ cycles = [typed |-> 0, ran |-> 0]

-----------------------------------------------------------------------------
(* The advertiser's library and its shell command autoadv.                 *)

Active(b) == onair[b] # Silent       \* ble_gap_adv_active
Current(b) == [complete |-> None, short |-> gap_name[b], data |-> vendor[b], tx |-> TRUE]
Fits(b) == Size[gap_name[b]] + Size[vendor[b]] <= AD_SPACE

\* ble_rss_autoadv_start: the argument becomes the interval, which nothing here
\* depends on, and the duration is BLE_HS_FOREVER.  A field that does not fit
\* fails its assert.  A stack that is advertising already may leave it at that.
AutoadvStart(b, active) ==
  IF Fits(b)
    THEN /\ buffer' = [buffer EXCEPT ![b] = Current(b)]
         /\ \E kept \in IF active THEN BOOLEAN ELSE {FALSE} :
              /\ onair' = [onair EXCEPT ![b] = IF kept THEN @ ELSE Current(b)]
              /\ resumed' = [resumed EXCEPT ![b] = kept /\ @]
         /\ shell' = [shell EXCEPT ![b] = "idle"]
    ELSE /\ onair' = [onair EXCEPT ![b] = Silent]
         /\ shell' = [shell EXCEPT ![b] = "panicked"]
         /\ UNCHANGED <<buffer, resumed>>

\* autoadv start [<adv_duration_ms>]
CmdStart(b, duration) ==
  /\ shell[b] = "idle"
  /\ AutoadvStart(b, Active(b))
  /\ asked' = [asked EXCEPT ![b] = duration]
  /\ elapsed' = [elapsed EXCEPT ![b] = 0]
  /\ UNCHANGED <<gap, linked, scanner>>

\* autoadv stop
CmdStop(b) ==
  /\ shell[b] = "idle"
  /\ onair' = [onair EXCEPT ![b] = Silent]
  /\ UNCHANGED <<gap, buffer, linked, shell, history, scanner>>

\* "restart advertisement if active", once the new value is set.
RestartIfActive(b) ==
  /\ shell' = [shell EXCEPT ![b] = IF Active(b) THEN "restart" ELSE "idle"]
  /\ UNCHANGED <<stack, history, scanner>>

\* autoadv name <device_name>, of a length the GAP service accepts.
SetDeviceName(b, n) ==
  /\ shell[b] = "idle"
  /\ gap_name' = [gap_name EXCEPT ![b] = n]
  /\ RestartIfActive(b) /\ UNCHANGED vendor

\* Fault: new data wait for the next start.
SetManufacturerDataOnly(b, d) ==
  /\ shell[b] = "idle"
  /\ vendor' = [vendor EXCEPT ![b] = d]
  /\ UNCHANGED <<gap_name, shell, stack, history, scanner>>

\* ble_rss_autoadv_set_manufacturer_data: None (NULL) disables the field, and
\* data that are too long are refused.
SetManufacturerData(b, d) ==
  /\ shell[b] = "idle" /\ Size[d] <= MAX_VENDOR_DATA_SIZE
  /\ vendor' = [vendor EXCEPT ![b] = d]
  /\ RestartIfActive(b) /\ UNCHANGED gap_name

\* Fault: the second call is missing.
RestartStopOnly(b) ==
  /\ shell[b] = "restart"
  /\ onair' = [onair EXCEPT ![b] = Silent]
  /\ shell' = [shell EXCEPT ![b] = "idle"]
  /\ UNCHANGED <<gap, buffer, linked, history, scanner>>

\* ble_rss_autoadv_stop(); ble_rss_autoadv_start(_adv_duration_ms);
Restart(b) ==
  /\ shell[b] = "restart"
  /\ AutoadvStart(b, FALSE)
  /\ UNCHANGED <<gap, linked, asked, elapsed, scanner>>

-----------------------------------------------------------------------------
(* nimble.  A connection ends the advertising; after it nimble_autoadv may *)
(* start again, with the data it was given last.                           *)

Connect(b) ==
  /\ Active(b) /\ ~linked[b] /\ shell[b] # "panicked"
  /\ onair' = [onair EXCEPT ![b] = Silent]
  /\ linked' = [linked EXCEPT ![b] = TRUE]
  /\ UNCHANGED <<gap, buffer, shell, history, scanner>>

Disconnect(b) ==
  /\ linked[b]
  /\ linked' = [linked EXCEPT ![b] = FALSE]
  /\ \E again \in BOOLEAN :
       IF again /\ ~Active(b) /\ shell[b] # "panicked"
         THEN /\ onair' = [onair EXCEPT ![b] = buffer[b]]
              /\ resumed' = [resumed EXCEPT ![b] = TRUE]
         ELSE UNCHANGED <<onair, resumed>>
  /\ UNCHANGED <<gap, buffer, shell, asked, elapsed, scanner>>

\* cfg.adv_duration_ms, whatever was asked for.
AdvDuration(duration) == FOREVER

\* Time passes, up to MaxTime; the stack ends an advertising whose duration is over.
Tick(b) ==
  /\ Active(b) /\ asked[b] # FOREVER /\ elapsed[b] < MaxTime
  /\ elapsed' = [elapsed EXCEPT ![b] = @ + 1]
  /\ onair' = [onair EXCEPT ![b] = IF elapsed[b] + 1 > AdvDuration(asked[b]) THEN Silent ELSE @]
  /\ UNCHANGED <<gap, buffer, linked, shell, asked, resumed, scanner>>

-----------------------------------------------------------------------------
(* The scanner.                                                            *)

UINT16_MAX == 65535

\* scan <output_type> <scan_timeout> <scan_cycles>: atoi, as a uint16_t.
ScanCycles(typed) == typed % (UINT16_MAX + 1)

CmdScan(typed) ==
  /\ scan.pc = "idle"
  /\ scan' = [pc |-> IF ScanCycles(typed) = 0 THEN "idle" ELSE "clear", left |-> ScanCycles(typed)]
  /\ cycles' = [typed |-> typed, ran |-> 0]
  /\ UNCHANGED <<gap, stack, shell, history, scanlist, report>>

\* Fault: the list is cleared once, before the first cycle.
BeginCycleUncleared ==
  /\ scan.pc = "clear"
  /\ scan' = [scan EXCEPT !.pc = "listen"]
  /\ UNCHANGED <<gap, stack, shell, history, scanlist, report, cycles>>

\* nimble_scanlist_clear(); nimble_scanner_start();
BeginCycle ==
  /\ scan.pc = "clear"
  /\ scanlist' = {}
  /\ scan' = [scan EXCEPT !.pc = "listen"]
  /\ UNCHANGED <<gap, stack, shell, history, report, cycles>>

\* nimble_scanlist_update: a new device takes an entry, if one is left; one
\* that is known keeps its advertisement or has the new one.
Hear(d, ad) ==
  /\ scan.pc = "listen"
  /\ LET known == {e \in scanlist : e.addr = d} IN
       IF known = {} /\ Cardinality(scanlist) = LIST_SIZE THEN UNCHANGED scanlist
       ELSE \/ scanlist' = (scanlist \ known) \cup {[addr |-> d, ad |-> ad, cycle |-> scan.left]}
            \/ known # {} /\ UNCHANGED scanlist
  /\ UNCHANGED <<gap, stack, shell, history, scan, report, cycles>>

HearBoard(b) == Active(b) /\ Hear(b, onair[b])
HearBeacon(d) == Hear(d, Beacon[d])

INT8_MAX == 127

\* _scanlist_json_print_entry: the complete name, the short one, or none.
NameFound(ad) ==
  IF ad.complete # None THEN ad.complete ELSE IF ad.short # None THEN ad.short ELSE "undefined"

PrintEntry(e) ==
  [addr |-> e.addr, cycle |-> e.cycle, ad |-> e.ad, name |-> NameFound(e.ad),
   txpwr_dbm |-> IF e.ad.tx THEN 0 ELSE INT8_MAX]

\* The cycle's list is printed, and the loop goes on with left cycles to go.
LeaveCycle(left) ==
  /\ scan.pc = "listen"
  /\ report' = [cycle |-> scan.left, entries |-> {PrintEntry(e) : e \in scanlist}]
  /\ scan' = [pc |-> IF left = 0 THEN "idle" ELSE "clear", left |-> left]
  /\ cycles' = [cycles EXCEPT !.ran = @ + 1]
  /\ UNCHANGED <<gap, stack, shell, history, scanlist>>

\* Fault: the loop's counter is advanced twice.
EndCycleTwice == LeaveCycle(IF scan.left > 1 THEN scan.left - 2 ELSE 0)

\* nimble_scanner_stop(), and the list is printed.
EndCycle == LeaveCycle(scan.left - 1)

-----------------------------------------------------------------------------
Advertiser(b) ==
  \/ \E d \in Duration \cup {FOREVER} : CmdStart(b, d)
  \/ CmdStop(b)
  \/ \E n \in Name : SetDeviceName(b, n)
  \/ \E d \in Data \cup {None} : SetManufacturerData(b, d)
  \/ Restart(b) \/ Connect(b) \/ Disconnect(b) \/ Tick(b)

Scanner ==
  \/ \E c \in CycleArg : CmdScan(c)
  \/ BeginCycle \/ EndCycle
  \/ \E b \in Board : HearBoard(b)
  \/ \E d \in DOMAIN Beacon : HearBeacon(d)

Next == (\E b \in Board : Advertiser(b)) \/ Scanner

Spec == Init /\ [][Next]_vars

\* The scanner's timer runs out, whatever is received meanwhile.
FairSpec == Spec /\ WF_vars(BeginCycle) /\ WF_vars(EndCycle)

-----------------------------------------------------------------------------
TypeOK ==
  /\ gap_name \in [Board -> Name] /\ vendor \in [Board -> Data \cup {None}]
  /\ buffer \in [Board -> Ad \cup {Silent}] /\ onair \in [Board -> Ad \cup {Silent}]
  /\ linked \in [Board -> BOOLEAN]
  /\ shell \in [Board -> {"idle", "restart", "panicked"}]
  /\ asked \in [Board -> Duration \cup {FOREVER}] /\ elapsed \in [Board -> 0 .. MaxTime]
  /\ resumed \in [Board -> BOOLEAN]
  /\ scan \in [pc: {"idle", "clear", "listen"}, left: 0 .. UINT16_MAX]
  /\ \A e \in scanlist : e.addr \in Board \cup DOMAIN Beacon /\ e.ad \in Ad
  /\ Cardinality(scanlist) <= LIST_SIZE
  /\ report.cycle \in 0 .. UINT16_MAX
  /\ cycles.typed \in CycleArg \cup {0} /\ cycles.ran \in 0 .. UINT16_MAX

\* "make new name effective", "make new data effective": once a command has
\* returned, a board on the air broadcasts what was set last, unless its stack
\* has resumed by itself after a connection during which it was set.
OnAirIsCurrent ==
  \A b \in Board : Active(b) /\ shell[b] = "idle" /\ ~resumed[b] => onair[b] = Current(b)

\* Only the stop command, a connection or a failed assert on a name and data
\* that do not fit takes a board off the air; renaming it does not.
OffAirIsAsked ==
  [][\A b \in Board : Active(b) /\ onair'[b] = Silent =>
       CmdStop(b) \/ linked'[b] \/ (shell'[b] = "panicked" /\ ~Fits(b))]_vars

\* A report holds what was received in its own cycle, under the name that was
\* broadcast; a board of this firmware always has one, and a power.
ReportOfThisCycle ==
  \A r \in report.entries :
    /\ r.cycle = report.cycle
    /\ r.addr \in Board => r.name = r.ad.short /\ r.txpwr_dbm # INT8_MAX

\* "scan_cycles: number of scan rounds": the scan command returns, having run as
\* many cycles as ble_rss_scan was given.
ScanEnds ==
  \A c \in CycleArg :
    scan.pc # "idle" /\ cycles.typed = c ~>
      scan.pc = "idle" /\ cycles = [typed |-> c, ran |-> ScanCycles(c)]

\* "advertisement lifetime in ms": a board leaves the air when the duration it
\* was started with is over.
LifetimeHonoured == \A b \in Board : Active(b) /\ asked[b] # FOREVER => elapsed[b] <= asked[b]
=============================================================================
