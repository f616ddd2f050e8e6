----------------------------- MODULE BleRssProofs -----------------------------
(***************************************************************************)
(* Theorems about BleRss for any boards, names, data, devices heard, sizes *)
(* of an advertisement and of the scan list.                               *)
(***************************************************************************)
EXTENDS BleRss, FiniteSetTheorems, TLAPS

\* The advertisements of this firmware: a short name and a power.
BoardAd == [complete: {None}, short: Name, data: Data \cup {None}, tx: {TRUE}]

GapInv == gap_name \in [Board -> Name] /\ vendor \in [Board -> Data \cup {None}]

StackInv ==
  /\ buffer \in [Board -> BoardAd \cup {Silent}] /\ onair \in [Board -> BoardAd \cup {Silent}]
  /\ linked \in [Board -> BOOLEAN]
  /\ shell \in [Board -> {"idle", "restart", "panicked"}]

HistoryInv ==
  /\ asked \in [Board -> Duration \cup {FOREVER}] /\ elapsed \in [Board -> 0 .. MaxTime]
  /\ resumed \in [Board -> BOOLEAN]

\* The list holds what was received in the cycle at hand.
ScanInv ==
  /\ scan \in [pc: {"idle", "clear", "listen"}, left: 0 .. UINT16_MAX]
  /\ scan.pc # "idle" => scan.left # 0
  /\ cycles \in [typed: CycleArg \cup {0}, ran: Nat] /\ cycles.ran + scan.left <= UINT16_MAX
  /\ IsFiniteSet(scanlist) /\ Cardinality(scanlist) <= LIST_SIZE
  /\ \A e \in scanlist :
       /\ e \in [addr: Board \cup DOMAIN Beacon, ad: Ad, cycle: Nat]
       /\ e.addr \in Board => e.ad \in BoardAd
       /\ scan.pc = "listen" => e.cycle = scan.left
  /\ report.cycle \in 0 .. UINT16_MAX

Inv == GapInv /\ StackInv /\ HistoryInv /\ ScanInv /\ OnAirIsCurrent /\ ReportOfThisCycle

-----------------------------------------------------------------------------
LEMMA BoardAdType == BoardAd \subseteq Ad /\ Silent \notin BoardAd
<1>1. BoardAd \subseteq Ad
  BY DEF BoardAd, Ad, Field
<1>2. ASSUME Silent \in BoardAd PROVE FALSE
  <2>1. DOMAIN Silent = {"silent"}
    BY DEF Silent
  <2>2. DOMAIN Silent = {"complete", "short", "data", "tx"}
    BY <1>2 DEF BoardAd
  <2> QED BY <2>1, <2>2
<1> QED BY <1>1, <1>2

LEMMA Width == UINT16_MAX \in Nat \ {0} /\ UINT16_MAX + 1 \in Nat \ {0}
BY SMT DEF UINT16_MAX

LEMMA CurrentType == ASSUME GapInv, NEW b \in Board PROVE Current(b) \in BoardAd
BY DEF GapInv, Current, BoardAd

LEMMA InitInv == Init => Inv
<1> SUFFICES ASSUME Init PROVE Inv
  OBVIOUS
<1>1. GapInv /\ StackInv /\ HistoryInv
  BY NumberAssumption DEF Init, GapInv, StackInv, HistoryInv
<1>2. ScanInv
  BY FS_EmptySet, NumberAssumption, Width DEF Init, ScanInv
<1> QED BY <1>1, <1>2 DEF Init, Inv, OnAirIsCurrent, Active, ReportOfThisCycle

-----------------------------------------------------------------------------
\* What a step of the advertiser has to show: it leaves the scanner alone.
LEMMA AdvertiserStep ==
  ASSUME Inv, UNCHANGED scanner, GapInv', StackInv', HistoryInv', OnAirIsCurrent'
  PROVE  Inv'
BY DEF Inv, scanner, ScanInv, ReportOfThisCycle

\* Both starts: a board on the air afterwards broadcasts the current data, or
\* the stack has left what it broadcast since it resumed.
LEMMA StartStep ==
  ASSUME Inv, NEW b \in Board, NEW active \in BOOLEAN, AutoadvStart(b, active),
         active => shell[b] = "idle", UNCHANGED <<gap, linked, scanner>>,
         asked' \in [Board -> Duration \cup {FOREVER}], elapsed' \in [Board -> 0 .. MaxTime]
  PROVE  Inv'
<1>1. Current(b) \in BoardAd /\ UNCHANGED <<gap_name, vendor>>
  BY CurrentType DEF Inv, gap
<1>2. PICK ad \in BoardAd : ad = Current(b)
  BY <1>1
<1>3. StackInv /\ HistoryInv /\ OnAirIsCurrent
  BY DEF Inv
<1>4. CASE Fits(b)
  <2>1. PICK kept \in BOOLEAN :
          /\ kept => active
          /\ onair' = [onair EXCEPT ![b] = IF kept THEN @ ELSE ad]
          /\ resumed' = [resumed EXCEPT ![b] = kept /\ @]
    BY <1>2, <1>4 DEF AutoadvStart
  <2>2. buffer' = [buffer EXCEPT ![b] = ad] /\ shell' = [shell EXCEPT ![b] = "idle"]
    BY <1>2, <1>4 DEF AutoadvStart
  <2>3. StackInv'
    BY <2>1, <2>2, <1>3 DEF StackInv
  <2>4. HistoryInv'
    <3>1. (kept /\ resumed[b]) \in BOOLEAN
      OBVIOUS
    <3> QED BY <3>1, <2>1, <1>3 DEF HistoryInv
  <2>5. OnAirIsCurrent'
    <3> SUFFICES ASSUME NEW c \in Board, Active(c)', shell'[c] = "idle", ~resumed'[c]
                 PROVE  onair'[c] = Current(c)
      BY <1>1 DEF OnAirIsCurrent, Current
    <3>1. CASE c # b
      BY <3>1, <2>1, <2>2, <1>3 DEF StackInv, HistoryInv, OnAirIsCurrent, Active
    <3>2. CASE c = b /\ ~kept
      BY <3>2, <2>1, <1>2, <1>3 DEF StackInv
    <3>3. CASE c = b /\ kept
      <4>1. ~resumed[b]
        BY <3>3, <2>1, <1>3 DEF HistoryInv
      <4>2. onair'[b] = onair[b] /\ shell[b] = "idle"
        BY <3>3, <2>1, <1>3 DEF StackInv
      <4> QED BY <4>1, <4>2, <3>3, <1>3 DEF OnAirIsCurrent, Active
    <3> QED BY <3>1, <3>2, <3>3
  <2> QED BY <2>3, <2>4, <2>5, <1>1, AdvertiserStep DEF Inv, GapInv
<1>5. CASE ~Fits(b)
  <2>1. /\ onair' = [onair EXCEPT ![b] = Silent] /\ shell' = [shell EXCEPT ![b] = "panicked"]
        /\ UNCHANGED <<buffer, resumed>>
    BY <1>5 DEF AutoadvStart
  <2>2. StackInv' /\ HistoryInv' /\ OnAirIsCurrent'
    BY <2>1, <1>1, <1>3 DEF StackInv, HistoryInv, OnAirIsCurrent, Active, Current
  <2> QED BY <2>2, <1>1, AdvertiserStep DEF Inv, GapInv
<1> QED BY <1>4, <1>5

LEMMA CmdStartStep == ASSUME Inv, NEW b \in Board, NEW d \in Duration \cup {FOREVER}, CmdStart(b, d) PROVE Inv'
<1>1. asked' \in [Board -> Duration \cup {FOREVER}] /\ elapsed' \in [Board -> 0 .. MaxTime]
  BY NumberAssumption DEF CmdStart, Inv, HistoryInv
<1>2. PICK active \in BOOLEAN : active = Active(b)
  BY Zenon DEF Active
<1> QED BY <1>1, <1>2, StartStep DEF CmdStart

LEMMA RestartStep == ASSUME Inv, NEW b \in Board, Restart(b) PROVE Inv'
<1>1. asked' \in [Board -> Duration \cup {FOREVER}] /\ elapsed' \in [Board -> 0 .. MaxTime]
  BY DEF Restart, Inv, HistoryInv
<1> QED BY <1>1, StartStep DEF Restart

LEMMA CmdStopStep == ASSUME Inv, NEW b \in Board, CmdStop(b) PROVE Inv'
<1>1. onair' = [onair EXCEPT ![b] = Silent]
      /\ UNCHANGED <<gap_name, vendor, buffer, linked, shell, asked, elapsed, resumed, scanner>>
  BY DEF CmdStop, gap, history
<1>2. GapInv' /\ StackInv' /\ HistoryInv' /\ OnAirIsCurrent'
  BY <1>1 DEF Inv, GapInv, StackInv, HistoryInv, OnAirIsCurrent, Active, Current
<1> QED BY <1>1, <1>2, AdvertiserStep

\* A new value, made effective in a second step when the board is on the air.
LEMMA SetStep ==
  ASSUME Inv, NEW b \in Board, RestartIfActive(b), GapInv',
         \A c \in Board \ {b} : gap_name'[c] = gap_name[c] /\ vendor'[c] = vendor[c]
  PROVE  Inv'
<1>1. shell' = [shell EXCEPT ![b] = IF Active(b) THEN "restart" ELSE "idle"]
      /\ UNCHANGED <<buffer, onair, linked, asked, elapsed, resumed, scanner>>
  BY DEF RestartIfActive, stack, history
<1>2. StackInv' /\ HistoryInv'
  BY <1>1 DEF Inv, StackInv, HistoryInv
<1>3. OnAirIsCurrent'
  BY <1>1 DEF Inv, StackInv, OnAirIsCurrent, Active, Current
<1> QED BY <1>1, <1>2, <1>3, AdvertiserStep

LEMMA SetDeviceNameStep == ASSUME Inv, NEW b \in Board, NEW n \in Name, SetDeviceName(b, n) PROVE Inv'
<1>1. gap_name' = [gap_name EXCEPT ![b] = n] /\ vendor' = vendor /\ RestartIfActive(b)
  BY DEF SetDeviceName
<1>2. GapInv' /\ \A c \in Board \ {b} : gap_name'[c] = gap_name[c]
  BY <1>1 DEF Inv, GapInv
<1> QED BY <1>1, <1>2, SetStep

LEMMA SetManufacturerDataStep ==
  ASSUME Inv, NEW b \in Board, NEW d \in Data \cup {None}, SetManufacturerData(b, d) PROVE Inv'
<1>1. vendor' = [vendor EXCEPT ![b] = d] /\ gap_name' = gap_name /\ RestartIfActive(b)
  BY DEF SetManufacturerData
<1>2. GapInv' /\ \A c \in Board \ {b} : vendor'[c] = vendor[c]
  BY <1>1 DEF Inv, GapInv
<1> QED BY <1>1, <1>2, SetStep

LEMMA ConnectStep == ASSUME Inv, NEW b \in Board, Connect(b) PROVE Inv'
<1>1. onair' = [onair EXCEPT ![b] = Silent] /\ linked' = [linked EXCEPT ![b] = TRUE]
      /\ UNCHANGED <<gap_name, vendor, buffer, shell, asked, elapsed, resumed, scanner>>
  BY DEF Connect, gap, history
<1>2. GapInv' /\ StackInv' /\ HistoryInv' /\ OnAirIsCurrent'
  BY <1>1 DEF Inv, GapInv, StackInv, HistoryInv, OnAirIsCurrent, Active, Current
<1> QED BY <1>1, <1>2, AdvertiserStep

LEMMA DisconnectStep == ASSUME Inv, NEW b \in Board, Disconnect(b) PROVE Inv'
<1>1. linked' = [linked EXCEPT ![b] = FALSE]
      /\ UNCHANGED <<gap_name, vendor, buffer, shell, asked, elapsed, scanner>>
  BY DEF Disconnect, gap
<1>2. CASE onair' = [onair EXCEPT ![b] = buffer[b]] /\ resumed' = [resumed EXCEPT ![b] = TRUE]
  <2>1. GapInv' /\ StackInv' /\ HistoryInv' /\ OnAirIsCurrent'
    BY <1>1, <1>2 DEF Inv, GapInv, StackInv, HistoryInv, OnAirIsCurrent, Active, Current
  <2> QED BY <2>1, <1>1, AdvertiserStep
<1>3. CASE UNCHANGED <<onair, resumed>>
  <2>1. GapInv' /\ StackInv' /\ HistoryInv' /\ OnAirIsCurrent'
    BY <1>1, <1>3 DEF Inv, GapInv, StackInv, HistoryInv, OnAirIsCurrent, Active, Current
  <2> QED BY <2>1, <1>1, AdvertiserStep
<1> QED BY <1>2, <1>3 DEF Disconnect

\* The stack's own duration is never over.
LEMMA TickStep == ASSUME Inv, NEW b \in Board, Tick(b) PROVE Inv' /\ onair' = onair
<1>1. UNCHANGED <<gap_name, vendor, buffer, linked, shell, asked, resumed, scanner>>
      /\ elapsed' = [elapsed EXCEPT ![b] = @ + 1] /\ elapsed[b] < MaxTime
  BY DEF Tick, gap
<1>2. elapsed[b] \in 0 .. MaxTime /\ MaxTime <= FOREVER /\ MaxTime \in Nat /\ FOREVER \in Nat
  BY NumberAssumption DEF Inv, HistoryInv
<1>3. onair' = onair
  BY <1>1, <1>2 DEF Tick, AdvDuration, Inv, StackInv
<1>4. GapInv' /\ StackInv' /\ HistoryInv' /\ OnAirIsCurrent'
  BY <1>1, <1>2, <1>3 DEF Inv, GapInv, StackInv, HistoryInv, OnAirIsCurrent, Active, Current
<1> QED BY <1>1, <1>3, <1>4, AdvertiserStep

LEMMA AdvertiserInv == ASSUME Inv, NEW b \in Board, Advertiser(b) PROVE Inv'
<1>1. ASSUME NEW d \in Duration \cup {FOREVER}, CmdStart(b, d) PROVE Inv'
  BY <1>1, CmdStartStep
<1>2. ASSUME NEW n \in Name, SetDeviceName(b, n) PROVE Inv'
  BY <1>2, SetDeviceNameStep
<1>3. ASSUME NEW d \in Data \cup {None}, SetManufacturerData(b, d) PROVE Inv'
  BY <1>3, SetManufacturerDataStep
<1> QED BY <1>1, <1>2, <1>3, CmdStopStep, RestartStep, ConnectStep, DisconnectStep, TickStep
        DEF Advertiser

-----------------------------------------------------------------------------
\* What a step of the scanner has to show: it leaves the advertisers alone.
LEMMA ScannerStep ==
  ASSUME Inv, UNCHANGED <<gap, stack, shell, history>>, ScanInv', ReportOfThisCycle'
  PROVE  Inv'
BY DEF Inv, gap, stack, history, GapInv, StackInv, HistoryInv, OnAirIsCurrent, Active, Current

LEMMA CmdScanStep == ASSUME Inv, NEW c \in CycleArg, CmdScan(c) PROVE Inv'
<1>1. PICK left \in 0 .. UINT16_MAX : left = c % (UINT16_MAX + 1)
  BY Width, NumberAssumption
<1>2. /\ scan' = [pc |-> IF left = 0 THEN "idle" ELSE "clear", left |-> left]
      /\ cycles' = [typed |-> c, ran |-> 0]
      /\ UNCHANGED <<gap, stack, shell, history, scanlist, report>>
  BY <1>1 DEF CmdScan, ScanCycles
<1>3. ScanInv' /\ ReportOfThisCycle'
  BY <1>2 DEF Inv, ScanInv, ReportOfThisCycle
<1> QED BY <1>2, <1>3, ScannerStep

LEMMA BeginCycleStep == ASSUME Inv, BeginCycle PROVE Inv'
<1>1. ScanInv' /\ ReportOfThisCycle'
  BY FS_EmptySet, NumberAssumption DEF BeginCycle, Inv, ScanInv, ReportOfThisCycle
<1> QED BY <1>1, ScannerStep DEF BeginCycle

LEMMA HearStep ==
  ASSUME Inv, NEW d \in Board \cup DOMAIN Beacon, NEW ad \in Ad, Hear(d, ad),
         d \in Board => ad \in BoardAd
  PROVE  Inv'
<1>1. PICK e : e = [addr |-> d, ad |-> ad, cycle |-> scan.left]
  OBVIOUS
<1>2. PICK known : known = {k \in scanlist : k.addr = d}
  OBVIOUS
<1>3. \/ UNCHANGED scanlist
      \/ /\ scanlist' = (scanlist \ known) \cup {e}
         /\ known # {} \/ Cardinality(scanlist) # LIST_SIZE
  BY <1>1, <1>2 DEF Hear
<1>4. ScanInv /\ ReportOfThisCycle /\ scan.pc = "listen"
      /\ UNCHANGED <<gap, stack, shell, history, scan, report, cycles>>
  BY DEF Inv, Hear
<1>5. CASE UNCHANGED scanlist
  BY <1>4, <1>5, ScannerStep DEF ScanInv, ReportOfThisCycle
<1>6. CASE /\ scanlist' = (scanlist \ known) \cup {e}
           /\ known # {} \/ Cardinality(scanlist) # LIST_SIZE
  <2>1. IsFiniteSet(scanlist) /\ known \subseteq scanlist /\ Cardinality(scanlist) \in Nat
        /\ Cardinality(scanlist) <= LIST_SIZE
    BY <1>2, <1>4, FS_CardinalityType DEF ScanInv
  <2>2. PICK rest : rest = scanlist \ known
    OBVIOUS
  <2>3. IsFiniteSet(rest) /\ Cardinality(rest) \in Nat /\ Cardinality(rest) <= Cardinality(scanlist)
    BY <2>1, <2>2, FS_Subset, FS_CardinalityType
  <2>4. known # {} => Cardinality(rest) < Cardinality(scanlist)
    <3>1. ASSUME known # {} PROVE rest # scanlist /\ rest \subseteq scanlist
      BY <3>1, <2>1, <2>2
    <3> QED BY <3>1, <2>1, <2>3, FS_Subset
  <2>5. IsFiniteSet(scanlist') /\ Cardinality(scanlist') <= Cardinality(rest) + 1
    <3>1. scanlist' = rest \cup {e}
      BY <1>6, <2>2
    <3>2. IsFiniteSet(rest \cup {e})
      BY <2>3, FS_AddElement
    <3>3. Cardinality(rest \cup {e}) \in {Cardinality(rest), Cardinality(rest) + 1}
      BY <2>3, FS_AddElement
    <3> QED BY <2>3, <3>1, <3>2, <3>3
  <2>6. Cardinality(scanlist') <= LIST_SIZE
    <3>1. Cardinality(rest) < LIST_SIZE
      BY <1>6, <2>1, <2>3, <2>4, NumberAssumption
    <3>2. Cardinality(scanlist') \in Nat
      BY <2>5, FS_CardinalityType
    <3> QED BY <3>1, <3>2, <2>3, <2>5, NumberAssumption
  <2>7. e \in [addr: Board \cup DOMAIN Beacon, ad: Ad, cycle: Nat]
        /\ (e.addr \in Board => e.ad \in BoardAd) /\ e.cycle = scan.left
    BY <1>1, <1>4, Width DEF ScanInv
  <2>8. ScanInv'
    BY <1>4, <1>6, <2>5, <2>6, <2>7 DEF ScanInv
  <2>9. ReportOfThisCycle'
    BY <1>4 DEF ReportOfThisCycle
  <2> QED BY <1>4, <2>8, <2>9, ScannerStep
<1> QED BY <1>3, <1>5, <1>6

LEMMA EndCycleStep == ASSUME Inv, EndCycle PROVE Inv'
<1>1. /\ scan.pc = "listen"
      /\ report' = [cycle |-> scan.left, entries |-> {PrintEntry(e) : e \in scanlist}]
      /\ scan' = [pc |-> IF scan.left - 1 = 0 THEN "idle" ELSE "clear", left |-> scan.left - 1]
      /\ cycles' = [cycles EXCEPT !.ran = @ + 1]
      /\ UNCHANGED <<gap, stack, shell, history, scanlist>>
  BY DEF EndCycle, LeaveCycle
<1>2. ScanInv /\ scan.left \in 1 .. UINT16_MAX
  BY <1>1, Width DEF Inv, ScanInv
<1>3. ScanInv'
  BY <1>1, <1>2, Width DEF ScanInv
<1>4. ReportOfThisCycle'
  <2>1. ASSUME NEW e \in scanlist
        PROVE  /\ PrintEntry(e).cycle = scan.left /\ PrintEntry(e).addr = e.addr
               /\ PrintEntry(e).ad = e.ad
               /\ e.addr \in Board => PrintEntry(e).name = e.ad.short
                                      /\ PrintEntry(e).txpwr_dbm # INT8_MAX
    <3>1. e.cycle = scan.left /\ (e.addr \in Board => e.ad \in BoardAd)
      BY <1>1, <1>2 DEF ScanInv
    <3>2. ASSUME e.ad \in BoardAd PROVE NameFound(e.ad) = e.ad.short /\ e.ad.tx
      BY <3>2, FieldAssumption DEF BoardAd, NameFound
    <3>3. e.ad.tx => PrintEntry(e).txpwr_dbm # INT8_MAX
      BY DEF PrintEntry, INT8_MAX
    <3> QED BY <3>1, <3>2, <3>3 DEF PrintEntry
  <2>2. ASSUME NEW r \in report'.entries
        PROVE  /\ r.cycle = scan.left
               /\ r.addr \in Board => r.name = r.ad.short /\ r.txpwr_dbm # INT8_MAX
    <3>1. PICK e \in scanlist : r = PrintEntry(e)
      BY <1>1
    <3> QED BY <2>1, <3>1
  <2> QED BY <1>1, <2>2 DEF ReportOfThisCycle
<1> QED BY <1>1, <1>3, <1>4, ScannerStep

LEMMA ScannerInv == ASSUME Inv, Scanner PROVE Inv'
<1>1. ASSUME NEW b \in Board, HearBoard(b) PROVE Inv'
  <2>1. onair[b] \in BoardAd /\ Hear(b, onair[b])
    BY <1>1 DEF HearBoard, Inv, StackInv, Active
  <2> QED BY <2>1, HearStep, BoardAdType
<1>2. ASSUME NEW d \in DOMAIN Beacon, HearBeacon(d) PROVE Inv'
  BY <1>2, HearStep, FieldAssumption DEF HearBeacon
<1> QED BY <1>1, <1>2, CmdScanStep, BeginCycleStep, EndCycleStep DEF Scanner

LEMMA Inductive == Inv /\ [Next]_vars => Inv'
<1> SUFFICES ASSUME Inv, [Next]_vars PROVE Inv'
  OBVIOUS
<1>1. CASE UNCHANGED vars
  BY <1>1, AdvertiserStep DEF vars, gap, stack, history, Inv, GapInv, StackInv, HistoryInv,
     OnAirIsCurrent, Active, Current
<1> QED BY <1>1, AdvertiserInv, ScannerInv DEF Next

LEMMA SpecInv == Spec => []Inv
BY InitInv, Inductive, PTL DEF Spec

-----------------------------------------------------------------------------
\* Every variable keeps its type, and the scan list its size.
THEOREM TypeCorrect == Spec => []TypeOK
<1>1. Inv => TypeOK
  BY BoardAdType, Width DEF Inv, GapInv, StackInv, HistoryInv, ScanInv, TypeOK
<1> QED BY <1>1, SpecInv, PTL

\* A board on the air broadcasts what was set last, once its shell is idle.
THEOREM CurrentOnAir == Spec => []OnAirIsCurrent
<1>1. Inv => OnAirIsCurrent
  BY DEF Inv
<1> QED BY <1>1, SpecInv, PTL

\* A report holds what its own cycle received, under the name broadcast.
THEOREM OwnCycleReported == Spec => []ReportOfThisCycle
<1>1. Inv => ReportOfThisCycle
  BY DEF Inv
<1> QED BY <1>1, SpecInv, PTL

\* Only stop, a connection or fields that do not fit take a board off the air.
THEOREM OffAirAsked == Spec => OffAirIsAsked
<1> DEFINE P == \A b \in Board : Active(b) /\ onair'[b] = Silent =>
                  CmdStop(b) \/ linked'[b] \/ (shell'[b] = "panicked" /\ ~Fits(b))
<1>1. Inv /\ [Next]_vars => [P]_vars
  <2> SUFFICES ASSUME Inv, Next, NEW b \in Board, Active(b), onair'[b] = Silent
               PROVE  CmdStop(b) \/ linked'[b] \/ (shell'[b] = "panicked" /\ ~Fits(b))
    OBVIOUS
  <2>1. StackInv /\ Current(b) # Silent
    BY CurrentType, BoardAdType DEF Inv
  <2>2. CASE Scanner
    BY <2>2, <2>1 DEF Scanner, CmdScan, BeginCycle, EndCycle, LeaveCycle, HearBoard, HearBeacon,
       Hear, stack, Active
  <2>3. ASSUME NEW c \in Board, Advertiser(c)
        PROVE  CmdStop(b) \/ linked'[b] \/ (shell'[b] = "panicked" /\ ~Fits(b))
    <3>1. ASSUME NEW active \in BOOLEAN, AutoadvStart(c, active) PROVE shell'[b] = "panicked" /\ ~Fits(b)
      <4>1. CASE Fits(c)
        <5>1. PICK kept \in BOOLEAN : onair' = [onair EXCEPT ![c] = IF kept THEN @ ELSE Current(c)]
          BY <3>1, <4>1 DEF AutoadvStart
        <5> QED BY <5>1, <2>1 DEF StackInv, Active
      <4>2. CASE ~Fits(c)
        BY <3>1, <4>2, <2>1 DEF AutoadvStart, StackInv, Active
      <4> QED BY <4>1, <4>2
    <3>2. PICK active \in BOOLEAN : active = Active(c)
      BY Zenon DEF Active
    <3>3. ASSUME NEW d \in Duration \cup {FOREVER}, CmdStart(c, d)
          PROVE  shell'[b] = "panicked" /\ ~Fits(b)
      BY <3>1, <3>2, <3>3 DEF CmdStart
    <3>4. ASSUME Restart(c) PROVE shell'[b] = "panicked" /\ ~Fits(b)
      BY <3>1, <3>4 DEF Restart
    <3>5. ASSUME CmdStop(c) PROVE CmdStop(b)
      <4>1. c = b
        BY <3>5, <2>1 DEF CmdStop, StackInv, Active
      <4> QED BY <4>1, <3>5
    <3>6. ASSUME NEW n \in Name, SetDeviceName(c, n) PROVE FALSE
      BY <3>6 DEF SetDeviceName, RestartIfActive, stack, Active
    <3>7. ASSUME NEW d \in Data \cup {None}, SetManufacturerData(c, d) PROVE FALSE
      BY <3>7 DEF SetManufacturerData, RestartIfActive, stack, Active
    <3>8. ASSUME Connect(c) PROVE linked'[b]
      BY <3>8, <2>1 DEF Connect, StackInv, Active
    <3>9. ASSUME Disconnect(c) PROVE FALSE
      BY <3>9, <2>1 DEF Disconnect, StackInv, Active
    <3>10. ASSUME Tick(c) PROVE FALSE
      BY <3>10, TickStep DEF Active
    <3> QED BY <2>3, <3>3, <3>4, <3>5, <3>6, <3>7, <3>8, <3>9, <3>10 DEF Advertiser
  <2> QED BY <2>2, <2>3 DEF Next
<1> QED BY <1>1, SpecInv, PTL DEF Spec, OffAirIsAsked
=============================================================================
