---------------------------- MODULE GcoapCliProofs ----------------------------
(***************************************************************************)
(* Theorems about GcoapCli for any paths, any numbers of blocks, memos and *)
(* resend buffers, and any number of commands typed.                       *)
(***************************************************************************)
EXTENDS GcoapCli, FiniteSetTheorems, TLAPS

Open(t) == transfers[t].outcome = "open"

\* What _last_req_path holds after a command for this path.
Kept(path) == IF path \in LongPath THEN Empty ELSE path

\* A transfer has one memo while it is open, and none afterwards.
MemoInv ==
  /\ IsFiniteSet(memos)
  /\ \A m, n \in memos : m.t = n.t => m = n
  /\ \A m \in memos : m.t \in DOMAIN transfers
  /\ \A t \in DOMAIN transfers : Open(t) <=> \E m \in memos : m.t = t

\* The request of a transfer nobody typed over is for the last block asked for,
\* one of its own resource; a long path is never asked for twice.
MemoOwn(m) ==
  ~transfers[m.t].overwritten =>
    /\ m.path = transfers[m.t].path /\ m.blk + 1 = Len(transfers[m.t].asked)
    /\ m.blk < Blocks[m.path] /\ (m.path \in LongPath => m.blk = 0)

\* A transfer nobody typed over finds its own path.
KeptInv ==
  \A t \in DOMAIN transfers :
    Open(t) /\ ~transfers[t].overwritten => last_req_path = Kept(transfers[t].path)

\* Once a command has cleared the path it has spoilt the open transfers.
ShellInv ==
  /\ shell.pc \in {"copy", "copying"} => shell.path \notin LongPath
  /\ shell.pc \in {"copy", "copying", "send"} =>
       \A t \in DOMAIN transfers : Open(t) => transfers[t].overwritten
  /\ shell.pc = "send" => last_req_path = Kept(shell.path)

\* Every transfer, and the command at hand, was typed.
CountInv ==
  Len(transfers) <= entered /\ (shell.pc # "idle" => Len(transfers) < entered)

\* It asks for the blocks of its own resource, each once and in order.
OwnBlocksInOrder ==
  \A t \in DOMAIN transfers : ~transfers[t].overwritten =>
    \A i \in DOMAIN transfers[t].asked : transfers[t].asked[i] = <<transfers[t].path, i - 1>>

\* ... and "blockwise complete" is printed when it has asked for all of them.
CompleteMeansAll ==
  \A t \in DOMAIN transfers :
    ~transfers[t].overwritten /\ transfers[t].outcome = "complete" =>
      Len(transfers[t].asked) = Blocks[transfers[t].path]

Inv ==
  /\ TypeOK /\ MemoInv /\ (\A m \in memos : MemoOwn(m)) /\ KeptInv /\ ShellInv /\ CountInv
  /\ OwnBlocksInOrder /\ CompleteMeansAll

-----------------------------------------------------------------------------
LEMMA InitInv == Init => Inv
<1> SUFFICES ASSUME Init PROVE Inv
  OBVIOUS
<1>1. TypeOK
  BY PathAssumption, PoolAssumption DEF Init, TypeOK
<1>2. MemoInv
  BY FS_EmptySet DEF Init, MemoInv, Open
<1>3. ShellInv /\ CountInv
  BY DEF Init, ShellInv, CountInv, Idle
<1> QED BY <1>1, <1>2, <1>3 DEF Init, Inv, KeptInv, OwnBlocksInOrder, CompleteMeansAll

LEMMA EnterStep ==
  ASSUME Inv, NEW path \in Path, NEW con \in BOOLEAN, NEW sendable \in BOOLEAN,
         Enter(path, con, sendable)
  PROVE  Inv'
<1>1. UNCHANGED <<last_req_path, req_count, memos, transfers>>
  BY DEF Enter
<1>2. shell' = [pc |-> "clear", path |-> path, con |-> con, sendable |-> sendable]
      /\ entered < MaxCommands /\ entered' = entered + 1
  BY DEF Enter
<1>3. TypeOK'
  BY <1>1, <1>2, PoolAssumption DEF Inv, TypeOK, Typed
<1>4. ShellInv'
  BY <1>2 DEF ShellInv
<1>5. CountInv'
  BY <1>1, <1>2 DEF Inv, TypeOK, CountInv
<1> QED BY <1>5, <1>1, <1>3, <1>4 DEF Inv, MemoInv, Open, MemoOwn, KeptInv, OwnBlocksInOrder, CompleteMeansAll

\* A path that changes after every open transfer is marked.
LEMMA ClearPathStep == ASSUME Inv, ClearPath PROVE Inv'
<1>1. /\ shell.pc = "clear" /\ last_req_path' = Empty /\ transfers' = Overwritten
      /\ shell' = [shell EXCEPT !.pc = IF shell.path \in LongPath THEN "send" ELSE "copy"]
      /\ UNCHANGED <<req_count, memos, entered>>
  BY DEF ClearPath
<1>2. transfers \in Seq(Transfer) /\ shell \in Typed
  BY <1>1 DEF Inv, TypeOK, Idle
<1>3. /\ DOMAIN transfers' = DOMAIN transfers
      /\ \A t \in DOMAIN transfers :
           transfers'[t] = [transfers[t] EXCEPT !.overwritten = @ \/ transfers[t].outcome = "open"]
  BY <1>1 DEF Overwritten
<1>4. \A t \in DOMAIN transfers :
        /\ transfers[t] \in Transfer /\ transfers'[t] \in Transfer
        /\ transfers'[t].path = transfers[t].path /\ transfers'[t].asked = transfers[t].asked
        /\ transfers'[t].outcome = transfers[t].outcome
        /\ (transfers[t].overwritten \/ Open(t) => transfers'[t].overwritten)
  <2> SUFFICES ASSUME NEW t \in DOMAIN transfers
               PROVE  /\ transfers[t] \in Transfer /\ transfers'[t] \in Transfer
                      /\ transfers'[t].path = transfers[t].path
                      /\ transfers'[t].asked = transfers[t].asked
                      /\ transfers'[t].outcome = transfers[t].outcome
                      /\ (transfers[t].overwritten \/ Open(t) => transfers'[t].overwritten)
    OBVIOUS
  <2>1. transfers[t] \in Transfer
    BY <1>2
  <2> QED BY <2>1, <1>3 DEF Transfer, Open
<1>5. transfers' \in Seq(Transfer)
  <2>1. PICK n \in Nat : DOMAIN transfers = 1 .. n
    BY <1>2
  <2>2. transfers' = [t \in 1 .. n |-> transfers'[t]]
    BY <1>1, <2>1 DEF Overwritten
  <2>3. \A t \in 1 .. n : transfers'[t] \in Transfer
    BY <1>4, <2>1
  <2> QED BY <2>2, <2>3
<1>6. TypeOK' /\ CountInv'
  <2>1. Len(transfers') = Len(transfers)
    BY <1>2, <1>3, <1>5
  <2> QED BY <2>1, <1>1, <1>2, <1>5 DEF Inv, TypeOK, Typed, CountInv
<1>7. MemoInv'
  BY <1>1, <1>3, <1>4 DEF Inv, MemoInv, Open
<1>8. \A m \in memos' : MemoOwn(m)'
  BY <1>1, <1>3, <1>4 DEF Inv, MemoInv, MemoOwn
<1>9. KeptInv' /\ ShellInv'
  <2>1. \A t \in DOMAIN transfers' : Open(t)' => transfers'[t].overwritten
    BY <1>3, <1>4 DEF Open
  <2> QED BY <2>1, <1>1, <1>2 DEF KeptInv, ShellInv, Kept, Typed
<1>10. OwnBlocksInOrder' /\ CompleteMeansAll'
  <2>1. OwnBlocksInOrder /\ CompleteMeansAll
    BY DEF Inv
  <2>2. OwnBlocksInOrder'
    BY <2>1, <1>3, <1>4 DEF OwnBlocksInOrder
  <2>3. CompleteMeansAll'
    BY <2>1, <1>3, <1>4 DEF CompleteMeansAll
  <2> QED BY <2>2, <2>3
<1> QED BY <1>6, <1>7, <1>8, <1>9, <1>10 DEF Inv

LEMMA CopyStep == ASSUME Inv, StartCopy \/ EndCopy PROVE Inv'
<1>1. UNCHANGED <<req_count, memos, transfers, entered>> /\ shell.pc \in {"copy", "copying"}
  BY DEF StartCopy, EndCopy
<1>2. shell \in Typed /\ \A t \in DOMAIN transfers : Open(t) => transfers[t].overwritten
  BY <1>1 DEF Inv, TypeOK, Idle, ShellInv
<1>3. TypeOK' /\ ShellInv' /\ CountInv'
  BY <1>1, <1>2 DEF Inv, TypeOK, CountInv, ShellInv, StartCopy, EndCopy, Typed, Kept, Open
<1>4. KeptInv'
  BY <1>1, <1>2 DEF KeptInv, Open
<1> QED BY <1>1, <1>3, <1>4 DEF Inv, MemoInv, Open, MemoOwn, OwnBlocksInOrder, CompleteMeansAll

LEMMA SendFailsStep == ASSUME Inv, SendFails PROVE Inv'
<1>1. UNCHANGED <<last_req_path, req_count, memos, transfers, entered>> /\ shell' = Idle
  BY DEF SendFails
<1> QED BY <1>1 DEF Inv, TypeOK, MemoInv, Open, MemoOwn, KeptInv, ShellInv, CountInv, Idle,
                    OwnBlocksInOrder, CompleteMeansAll

LEMMA SendStep == ASSUME Inv, Send PROVE Inv'
<1>0. PICK n \in Nat \ {0} : n = Len(transfers) + 1
  BY DEF Inv, TypeOK
<1>1. PICK path \in Path, con \in BOOLEAN : path = shell.path /\ con = shell.con
  BY DEF Send, Inv, TypeOK, Idle, Typed
<1>2. PICK beside \in BOOLEAN : beside = (memos # {})
  BY Zenon
<1>3. PICK tr : tr = [path |-> path, asked |-> <<<<path, 0>>>>, outcome |-> "open",
                      overwritten |-> FALSE, beside |-> beside]
  OBVIOUS
<1>4. PICK m : m = [t |-> n, path |-> path, blk |-> 0, con |-> con]
  OBVIOUS
<1>5. /\ transfers' = Append(transfers, tr) /\ memos' = memos \cup {m} /\ shell' = Idle
      /\ UNCHANGED <<last_req_path, entered>> /\ req_count' = (req_count + 1) % 2^16
  BY <1>0, <1>1, <1>2, <1>3, <1>4 DEF Send
<1>6. last_req_path = Kept(path) /\ TypeOK /\ transfers \in Seq(Transfer)
  BY <1>1 DEF Send, Inv, ShellInv, TypeOK
<1>7. DOMAIN transfers = 1 .. n - 1 /\ DOMAIN transfers' = 1 .. n
      /\ transfers'[n] = tr /\ \A t \in 1 .. n - 1 : transfers'[t] = transfers[t]
  BY <1>0, <1>5, <1>6
<1>8. <<<<path, 0>>>> \in Seq((Path \cup {Empty, Torn}) \X Nat)
  OBVIOUS
<1>9. tr \in Transfer
  BY <1>3, <1>8 DEF Transfer, Outcome
<1>10. transfers' \in Seq(Transfer) /\ Len(transfers') = n
  BY <1>5, <1>6, <1>7, <1>9
<1>11. n <= entered /\ entered <= MaxCommands
  BY <1>0, <1>6 DEF Send, Inv, CountInv, TypeOK
<1>12. m \in Memo
  <2>1. n \in 1 .. MaxCommands
    BY <1>6, <1>11, PoolAssumption DEF TypeOK
  <2> QED BY <2>1, <1>4 DEF Memo
<1>13. TypeOK'
  BY <1>5, <1>6, <1>10, <1>12 DEF TypeOK
<1>14. MemoInv'
  <2>1. IsFiniteSet(memos')
    BY <1>5, FS_AddElement DEF Inv, MemoInv
  <2>2. \A k \in memos : k.t \in 1 .. n - 1
    BY <1>7 DEF Inv, MemoInv
  <2>3. \A k, l \in memos' : k.t = l.t => k = l
    BY <2>2, <1>4, <1>5, <1>7 DEF Inv, MemoInv
  <2>4. \A t \in DOMAIN transfers' : Open(t)' <=> \E k \in memos' : k.t = t
    <3>1. Open(n)' /\ m.t = n /\ m \in memos'
      BY <1>3, <1>4, <1>5, <1>7 DEF Open
    <3>2. ASSUME NEW t \in 1 .. n - 1 PROVE Open(t)' <=> \E k \in memos' : k.t = t
      BY <1>4, <1>5, <1>7 DEF Inv, MemoInv, Open
    <3> QED BY <3>1, <3>2, <1>7
  <2>5. \A k \in memos' : k.t \in DOMAIN transfers'
    BY <2>2, <1>4, <1>5, <1>7
  <2> QED BY <2>1, <2>3, <2>4, <2>5 DEF MemoInv
<1>15. \A k \in memos' : MemoOwn(k)'
  <2>1. MemoOwn(m)'
    BY <1>1, <1>3, <1>4, <1>7, PathAssumption DEF MemoOwn
  <2>2. ASSUME NEW k \in memos PROVE MemoOwn(k)'
    <3>1. MemoOwn(k) /\ k.t \in 1 .. n - 1
      BY <1>7 DEF Inv, MemoInv
    <3> QED BY <3>1, <1>7 DEF MemoOwn
  <2> QED BY <2>1, <2>2, <1>5
<1>16. KeptInv'
  BY <1>3, <1>5, <1>6, <1>7 DEF Inv, KeptInv, Open
<1>17. ShellInv' /\ CountInv'
  BY <1>5, <1>10, <1>11 DEF ShellInv, CountInv, Idle, Inv, TypeOK
<1>18. OwnBlocksInOrder'
  BY <1>3, <1>7 DEF Inv, OwnBlocksInOrder
<1>19. CompleteMeansAll'
  BY <1>3, <1>7 DEF Inv, CompleteMeansAll
<1> QED BY <1>13, <1>14, <1>15, <1>16, <1>17, <1>18, <1>19 DEF Inv

-----------------------------------------------------------------------------
\* A request that ends; "complete" is said after the last block.
LEMMA EndStep ==
  ASSUME Inv, NEW m \in memos, NEW outcome \in Outcome \ {"open"}, End(m, outcome),
         outcome = "complete" => ~More(m.path, m.blk)
  PROVE  Inv'
<1>1. /\ TypeOK /\ m.t \in DOMAIN transfers /\ transfers \in Seq(Transfer)
      /\ m \in Memo /\ MemoOwn(m) /\ Open(m.t)
  BY DEF Inv, MemoInv, TypeOK
<1>2. /\ memos' = memos \ {m} /\ transfers' = [transfers EXCEPT ![m.t].outcome = outcome]
      /\ UNCHANGED <<last_req_path, req_count, shell, entered>>
  BY DEF End
<1>3. PICK n \in Nat : DOMAIN transfers = 1 .. n /\ n = Len(transfers)
  BY <1>1
<1>4. transfers[m.t] \in Transfer
  BY <1>1
<1>5. /\ transfers'[m.t] \in Transfer
      /\ transfers'[m.t].path = transfers[m.t].path /\ transfers'[m.t].asked = transfers[m.t].asked
      /\ transfers'[m.t].overwritten = transfers[m.t].overwritten
      /\ transfers'[m.t].outcome = outcome
  BY <1>1, <1>2, <1>4 DEF Transfer
<1>6. /\ DOMAIN transfers' = 1 .. n
      /\ \A t \in 1 .. n : t # m.t => transfers'[t] = transfers[t]
  BY <1>2, <1>3
<1>7. transfers' \in Seq(Transfer) /\ Len(transfers') = n
  BY <1>1, <1>2, <1>3, <1>5, <1>6
<1>8. \A k \in memos' : k \in memos /\ k.t # m.t /\ k.t \in 1 .. n
  BY <1>2, <1>3 DEF Inv, MemoInv
<1>9. TypeOK'
  BY <1>1, <1>2, <1>7 DEF TypeOK
<1>10. MemoInv'
  <2>1. IsFiniteSet(memos')
    BY <1>2, FS_RemoveElement DEF Inv, MemoInv
  <2>2. ASSUME NEW t \in 1 .. n PROVE Open(t)' <=> \E k \in memos' : k.t = t
    <3>1. CASE t = m.t
      BY <3>1, <1>5, <1>8 DEF Open
    <3>2. CASE t # m.t
      BY <3>2, <1>2, <1>3, <1>6 DEF Inv, MemoInv, Open
    <3> QED BY <3>1, <3>2
  <2> QED BY <2>1, <2>2, <1>6, <1>8 DEF Inv, MemoInv
<1>11. \A k \in memos' : MemoOwn(k)'
  BY <1>6, <1>8 DEF Inv, MemoOwn
<1>12. KeptInv'
  BY <1>2, <1>3, <1>5, <1>6 DEF Inv, KeptInv, Open
<1>13. ShellInv' /\ CountInv'
  BY <1>1, <1>2, <1>3, <1>5, <1>6, <1>7 DEF Inv, ShellInv, CountInv, Open
<1>14. OwnBlocksInOrder'
  BY <1>3, <1>5, <1>6 DEF Inv, OwnBlocksInOrder
<1>15. CompleteMeansAll'
  <2>1. ASSUME outcome = "complete", ~transfers[m.t].overwritten
        PROVE  Len(transfers[m.t].asked) = Blocks[transfers[m.t].path]
    <3>1. m.path \in Path /\ m.blk \in Nat
      BY <1>1, <1>4, <2>1 DEF MemoOwn, Transfer, Memo
    <3> QED BY <3>1, <2>1, <1>1, PathAssumption DEF MemoOwn, More
  <2> QED BY <2>1, <1>3, <1>5, <1>6 DEF Inv, CompleteMeansAll
<1> QED BY <1>9, <1>10, <1>11, <1>12, <1>13, <1>14, <1>15 DEF Inv

\* The next block is asked for with the path found: its own, if nobody typed
\* over it, and then never an empty one.
LEMMA AskStep == ASSUME Inv, NEW m \in memos, NEW con \in BOOLEAN, AskForNext(m, con) PROVE Inv'
<1>1. /\ TypeOK /\ m.t \in DOMAIN transfers /\ transfers \in Seq(Transfer)
      /\ m \in Memo /\ MemoOwn(m) /\ Open(m.t)
  BY DEF Inv, MemoInv, TypeOK
<1>2. PICK path \in Path \cup {Empty, Torn}, blk \in Nat : path = last_req_path /\ blk = m.blk + 1
  BY <1>1 DEF TypeOK, Memo
<1>3. PICK k : k = [t |-> m.t, path |-> path, blk |-> blk, con |-> con]
  OBVIOUS
<1>4. /\ memos' = (memos \ {m}) \cup {k}
      /\ transfers' = [transfers EXCEPT ![m.t].asked = Append(@, <<path, blk>>)]
      /\ UNCHANGED <<last_req_path, req_count, shell, entered>>
      /\ More(m.path, m.blk) /\ ~(m.blk = 0 /\ path = Empty)
  BY <1>2, <1>3 DEF AskForNext
<1>5. PICK n \in Nat : DOMAIN transfers = 1 .. n /\ n = Len(transfers)
  BY <1>1
<1>6. transfers[m.t] \in Transfer /\ transfers[m.t].asked \in Seq((Path \cup {Empty, Torn}) \X Nat)
  <2>1. transfers[m.t] \in Transfer
    BY <1>1
  <2> QED BY <2>1 DEF Transfer
<1>7. PICK asked \in Seq((Path \cup {Empty, Torn}) \X Nat) :
        /\ asked = Append(transfers[m.t].asked, <<path, blk>>)
        /\ Len(asked) = Len(transfers[m.t].asked) + 1 /\ asked[Len(asked)] = <<path, blk>>
        /\ \A i \in 1 .. Len(transfers[m.t].asked) : asked[i] = transfers[m.t].asked[i]
  <2>1. PICK S : S = (Path \cup {Empty, Torn}) \X Nat
    OBVIOUS
  <2>2. PICK old \in Seq(S) : old = transfers[m.t].asked
    BY <1>6, <2>1
  <2>3. PICK pair \in S : pair = <<path, blk>>
    BY <2>1
  <2>4. /\ Append(old, pair) \in Seq(S) /\ Len(Append(old, pair)) = Len(old) + 1
        /\ Append(old, pair)[Len(old) + 1] = pair
        /\ \A i \in 1 .. Len(old) : Append(old, pair)[i] = old[i]
    OBVIOUS
  <2> QED BY <2>1, <2>2, <2>3, <2>4
<1>8. /\ transfers'[m.t] \in Transfer /\ transfers'[m.t].asked = asked
      /\ transfers'[m.t].path = transfers[m.t].path /\ transfers'[m.t].outcome = transfers[m.t].outcome
      /\ transfers'[m.t].overwritten = transfers[m.t].overwritten
  <2>1. transfers'[m.t] = [transfers[m.t] EXCEPT !.asked = asked]
    BY <1>1, <1>4, <1>7
  <2> QED BY <2>1, <1>6 DEF Transfer
<1>9. DOMAIN transfers' = 1 .. n /\ \A t \in 1 .. n : t # m.t => transfers'[t] = transfers[t]
  BY <1>4, <1>5
<1>10. transfers' \in Seq(Transfer) /\ Len(transfers') = n
  <2>1. transfers' = [t \in 1 .. n |-> transfers'[t]]
    BY <1>4, <1>5
  <2>2. \A t \in 1 .. n : transfers'[t] \in Transfer
    BY <1>1, <1>5, <1>8, <1>9
  <2> QED BY <2>1, <2>2
<1>11. k \in Memo /\ k.t = m.t
  BY <1>1, <1>2, <1>3 DEF Memo
<1>12. TypeOK'
  BY <1>1, <1>4, <1>10, <1>11 DEF TypeOK
<1>13. MemoInv'
  <2>1. IsFiniteSet(memos')
    BY <1>4, FS_RemoveElement, FS_AddElement DEF Inv, MemoInv
  <2>2. \A a, b \in memos' : a.t = b.t => a = b
    BY <1>4, <1>11 DEF Inv, MemoInv
  <2>3. \A a \in memos' : a.t \in DOMAIN transfers'
    BY <1>4, <1>5, <1>9, <1>11 DEF Inv, MemoInv
  <2>4. ASSUME NEW t \in 1 .. n PROVE Open(t)' <=> \E a \in memos' : a.t = t
    <3>1. CASE t = m.t
      BY <3>1, <1>1, <1>4, <1>8, <1>11 DEF Open
    <3>2. CASE t # m.t
      BY <3>2, <1>4, <1>5, <1>9, <1>11 DEF Inv, MemoInv, Open
    <3> QED BY <3>1, <3>2
  <2> QED BY <2>1, <2>2, <2>3, <2>4, <1>9 DEF MemoInv
<1>14. ASSUME ~transfers[m.t].overwritten
       PROVE  /\ path = transfers[m.t].path /\ path \notin LongPath /\ path \in Path
              /\ blk = Len(transfers[m.t].asked) /\ blk < Blocks[path]
  <2>1. /\ m.path = transfers[m.t].path /\ m.blk + 1 = Len(transfers[m.t].asked)
        /\ (m.path \in LongPath => m.blk = 0) /\ path = Kept(m.path) /\ m.path \in Path
    BY <1>1, <1>2, <1>6, <1>14 DEF MemoOwn, Inv, KeptInv, Transfer
  <2> QED BY <2>1, <1>2, <1>4 DEF Kept, More
<1>15. \A a \in memos' : MemoOwn(a)'
  <2>1. MemoOwn(k)'
    BY <1>3, <1>7, <1>8, <1>14 DEF MemoOwn
  <2>2. ASSUME NEW a \in memos \ {m} PROVE MemoOwn(a)'
    BY <1>5, <1>9 DEF Inv, MemoInv, MemoOwn
  <2> QED BY <2>1, <2>2, <1>4
<1>16. KeptInv'
  BY <1>4, <1>5, <1>8, <1>9 DEF Inv, KeptInv, Open
<1>17. ShellInv' /\ CountInv'
  BY <1>1, <1>4, <1>5, <1>8, <1>9, <1>10 DEF Inv, ShellInv, CountInv, Open
<1>18. OwnBlocksInOrder'
  <2>1. ASSUME ~transfers[m.t].overwritten, NEW i \in DOMAIN asked
        PROVE  asked[i] = <<transfers[m.t].path, i - 1>>
    <3>1. i \in 1 .. Len(asked) /\ Len(asked) = blk + 1
      BY <2>1, <1>7, <1>14
    <3>2. CASE i = Len(asked)
      BY <3>1, <3>2, <2>1, <1>7, <1>14
    <3>3. CASE i # Len(asked)
      <4>1. i \in DOMAIN transfers[m.t].asked /\ asked[i] = transfers[m.t].asked[i]
        BY <3>1, <3>3, <2>1, <1>6, <1>7, <1>14
      <4> QED BY <4>1, <2>1, <1>1 DEF Inv, OwnBlocksInOrder
    <3> QED BY <3>2, <3>3
  <2>2. \A t \in 1 .. n : t # m.t /\ ~transfers[t].overwritten =>
          \A i \in DOMAIN transfers[t].asked : transfers[t].asked[i] = <<transfers[t].path, i - 1>>
    BY <1>5 DEF Inv, OwnBlocksInOrder
  <2>3. ASSUME NEW t \in 1 .. n, ~transfers'[t].overwritten, NEW i \in DOMAIN transfers'[t].asked
        PROVE  transfers'[t].asked[i] = <<transfers'[t].path, i - 1>>
    <3>1. CASE t = m.t
      <4>1. ~transfers[m.t].overwritten /\ i \in DOMAIN asked
        BY <2>3, <3>1, <1>8
      <4> QED BY <4>1, <3>1, <2>1, <1>8
    <3>2. CASE t # m.t
      BY <2>2, <2>3, <3>2, <1>9
    <3> QED BY <3>1, <3>2
  <2> QED BY <2>3, <1>9 DEF OwnBlocksInOrder
<1>19. CompleteMeansAll'
  <2>1. transfers'[m.t].outcome # "complete"
    BY <1>1, <1>8 DEF Open
  <2> QED BY <2>1, <1>5, <1>9 DEF Inv, CompleteMeansAll
<1> QED BY <1>12, <1>13, <1>15, <1>16, <1>17, <1>18, <1>19 DEF Inv

LEMMA Inductive == Inv /\ [Next]_vars => Inv'
<1> SUFFICES ASSUME Inv, [Next]_vars PROVE Inv'
  OBVIOUS
<1>1. ASSUME NEW path \in Path, NEW con \in BOOLEAN, NEW sendable \in BOOLEAN,
             Enter(path, con, sendable)
      PROVE  Inv'
  BY <1>1, EnterStep
<1>2. ASSUME Shell PROVE Inv'
  BY <1>2, ClearPathStep, CopyStep, SendStep, SendFailsStep DEF Shell
<1>3. ASSUME NEW m \in memos, HandleResponse(m) PROVE Inv'
  <2>1. ASSUME LastBlock(m) PROVE Inv'
    BY <2>1, EndStep DEF LastBlock, Outcome
  <2>2. ASSUME PathTooLong(m) PROVE Inv'
    BY <2>2, EndStep DEF PathTooLong, Outcome
  <2>3. ASSUME NEW con \in BOOLEAN, AskFails(m, con) PROVE Inv'
    BY <2>3, EndStep DEF AskFails, Outcome
  <2> QED BY <1>3, <2>1, <2>2, <2>3, AskStep DEF HandleResponse
<1>4. ASSUME NEW m \in memos, Timeout(m) \/ ResponseError(m) PROVE Inv'
  BY <1>4, EndStep DEF Timeout, ResponseError, Outcome
<1>5. CASE UNCHANGED vars
  BY <1>5 DEF vars, Inv, TypeOK, MemoInv, Open, MemoOwn, KeptInv, ShellInv, CountInv,
     OwnBlocksInOrder, CompleteMeansAll
<1> QED BY <1>1, <1>2, <1>3, <1>4, <1>5 DEF Next

LEMMA SpecInv == Spec => []Inv
BY InitInv, Inductive, PTL DEF Spec

\* Whatever is typed while transfers run, every variable keeps its type: a
\* path too long for _last_req_path never gets into it.
THEOREM TypeCorrect == Spec => []TypeOK
<1>1. Inv => TypeOK
  BY DEF Inv
<1> QED BY <1>1, SpecInv, PTL

\* A transfer nobody typed over asks for its own blocks, each once and in order.
THEOREM BlocksInOrder == Spec => []OwnBlocksInOrder
<1>1. Inv => OwnBlocksInOrder
  BY DEF Inv
<1> QED BY <1>1, SpecInv, PTL

\* "blockwise complete" is said when all of them have been asked for.
THEOREM CompleteIsWhole == Spec => []CompleteMeansAll
<1>1. Inv => CompleteMeansAll
  BY DEF Inv
<1> QED BY <1>1, SpecInv, PTL

\* A transfer has one request open, or has ended.
THEOREM OneRequest == Spec => []OneRequestEach
<1>1. Inv => OneRequestEach
  <2> SUFFICES ASSUME Inv PROVE OneRequestEach
    OBVIOUS
  <2> DEFINE f == [m \in memos |-> m.t]
             S == {m.t : m \in memos}
  <2>1. f \in Bijection(memos, S)
    <3>1. f \in Injection(memos, S)
      BY DEF Inv, MemoInv, Injection, IsInjective
    <3>2. f \in Surjection(memos, S)
      BY DEF Surjection
    <3> QED BY <3>1, <3>2 DEF Bijection
  <2>2. Cardinality(S) = Cardinality(memos)
    BY <2>1, FS_Bijection DEF Inv, MemoInv, ExistsBijection
  <2> QED BY <2>2 DEF Inv, MemoInv, Open, OneRequestEach
<1> QED BY <1>1, SpecInv, PTL

-----------------------------------------------------------------------------
(* The refinement: a step of the client is a step of BlockwiseTransfer or   *)
(* changes nothing its user sees.                                           *)

\* The refinement mapping.
PhaseOf == [t \in 1 .. MaxCommands |-> Phase(t)]
AskedOf == [t \in 1 .. MaxCommands |-> Asked(t)]

\* Transfers are numbered by the commands that started them.
LEMMA Numbered == Inv => /\ transfers \in Seq(Transfer) /\ DOMAIN transfers = 1 .. Len(transfers)
                         /\ Len(transfers) \in Nat /\ Len(transfers) <= MaxCommands
BY PoolAssumption DEF Inv, TypeOK, CountInv

LEMMA ClearPathForgets == ASSUME Inv, ClearPath PROVE Promised!Forget
<1>1. /\ DOMAIN transfers' = DOMAIN transfers
      /\ \A t \in DOMAIN transfers :
           transfers'[t] = [transfers[t] EXCEPT !.overwritten = @ \/ transfers[t].outcome = "open"]
  BY DEF ClearPath, Overwritten
<1>2. ASSUME NEW t \in DOMAIN transfers
      PROVE  /\ transfers'[t].outcome = transfers[t].outcome
             /\ transfers'[t].asked = transfers[t].asked
             /\ transfers'[t].overwritten <=> transfers[t].overwritten \/ transfers[t].outcome = "open"
  <2>1. transfers[t] \in Transfer
    BY Numbered
  <2> QED BY <2>1, <1>1 DEF Transfer
<1>3. ASSUME NEW t \in 1 .. MaxCommands
      PROVE  /\ Phase(t)' = IF Phase(t) = "open" THEN "forgotten" ELSE Phase(t)
             /\ Asked(t)' = IF Phase(t) = "open" THEN <<>> ELSE Asked(t)
  BY <1>1, <1>2 DEF Phase, Asked
<1> QED BY <1>3 DEF Promised!Forget

LEMMA SendBegins == ASSUME Inv, Send PROVE \E t \in 1 .. MaxCommands : Promised!Begin(t)
<1>1. PICK n \in 1 .. MaxCommands : n = Len(transfers) + 1
  BY Numbered, PoolAssumption DEF Send, Inv, TypeOK, CountInv
<1>2. PICK path \in Path : path = shell.path
  BY DEF Send, Inv, TypeOK, Idle, Typed
<1>3. PICK tr : /\ transfers' = Append(transfers, tr) /\ tr.asked = <<<<path, 0>>>>
                /\ tr.outcome = "open" /\ ~tr.overwritten
  BY <1>2 DEF Send
<1>4. /\ DOMAIN transfers = 1 .. n - 1 /\ DOMAIN transfers' = 1 .. n
      /\ transfers'[n] = tr /\ \A t \in 1 .. n - 1 : transfers'[t] = transfers[t]
  BY <1>1, <1>3, Numbered
<1>5. Phase(n) = "new" /\ Phase(n)' = "open" /\ Asked(n)' = <<<<path, 0>>>>
  BY <1>3, <1>4 DEF Phase, Asked
<1>6. ASSUME NEW t \in 1 .. MaxCommands, t # n PROVE Phase(t)' = Phase(t) /\ Asked(t)' = Asked(t)
  <2>1. t \in DOMAIN transfers' <=> t \in DOMAIN transfers
    BY <1>1, <1>4, <1>6
  <2>2. t \in DOMAIN transfers => transfers'[t] = transfers[t]
    BY <1>4
  <2> QED BY <2>1, <2>2 DEF Phase, Asked
<1> QED BY <1>5, <1>6 DEF Promised!Begin

\* A transfer that changes, and the others.
LEMMA Elsewhere ==
  ASSUME Inv, NEW u \in DOMAIN transfers, DOMAIN transfers' = DOMAIN transfers,
         \A t \in DOMAIN transfers : t # u => transfers'[t] = transfers[t]
  PROVE  /\ u \in 1 .. MaxCommands
         /\ \A t \in 1 .. MaxCommands : t # u => Phase(t)' = Phase(t) /\ Asked(t)' = Asked(t)
BY Numbered, PoolAssumption DEF Phase, Asked

\* Nobody is told of a transfer that was typed over.
LEMMA ForgottenStays ==
  ASSUME Inv, NEW u \in DOMAIN transfers, DOMAIN transfers' = DOMAIN transfers,
         transfers[u].overwritten, transfers'[u].overwritten,
         \A t \in DOMAIN transfers : t # u => transfers'[t] = transfers[t]
  PROVE  UNCHANGED Promised!vars
<1>1. Phase(u)' = Phase(u) /\ Asked(u)' = Asked(u)
  BY DEF Phase, Asked
<1> QED BY <1>1, Elsewhere DEF Promised!vars

LEMMA EndEnds ==
  ASSUME Inv, NEW m \in memos, NEW outcome \in Outcome \ {"open"}, End(m, outcome),
         outcome = "complete" => ~More(m.path, m.blk)
  PROVE  \/ UNCHANGED Promised!vars
         \/ \E t \in 1 .. MaxCommands : Promised!Complete(t) \/ Promised!Fail(t)
<1>1. /\ m.t \in DOMAIN transfers /\ m \in Memo /\ MemoOwn(m) /\ Open(m.t)
      /\ transfers[m.t] \in Transfer
  BY Numbered DEF Inv, MemoInv, TypeOK
<1>2. PICK u \in DOMAIN transfers : u = m.t
  BY <1>1
<1>3. transfers' = [transfers EXCEPT ![u].outcome = outcome]
  BY <1>2 DEF End
<1>4. /\ DOMAIN transfers' = DOMAIN transfers
      /\ \A t \in DOMAIN transfers : t # u => transfers'[t] = transfers[t]
      /\ transfers'[u].outcome = outcome /\ transfers'[u].asked = transfers[u].asked
      /\ transfers'[u].overwritten = transfers[u].overwritten
  BY <1>1, <1>2, <1>3 DEF Transfer
<1>5. CASE transfers[u].overwritten
  BY <1>4, <1>5, ForgottenStays
<1>6. CASE ~transfers[u].overwritten
  <2>1. Phase(u) = "open" /\ Asked(u)' = Asked(u) /\ Asked(u) = transfers[u].asked
        /\ Phase(u)' = (IF outcome = "complete" THEN "complete" ELSE "failed")
    BY <1>1, <1>2, <1>4, <1>6 DEF Phase, Asked, Open
  <2>2. /\ u \in 1 .. MaxCommands
        /\ \A t \in 1 .. MaxCommands : t # u => Phase(t)' = Phase(t) /\ Asked(t)' = Asked(t)
    BY <1>4, Elsewhere
  <2>3. CASE outcome = "complete"
    <3>1. /\ m.path = transfers[u].path /\ m.blk + 1 = Len(transfers[u].asked)
          /\ m.blk < Blocks[m.path] /\ m.path \in Path /\ m.blk \in Nat
      BY <1>1, <1>2, <1>6 DEF MemoOwn, Transfer, Memo
    <3>2. Len(transfers[u].asked) = Blocks[transfers[u].path]
      BY <2>3, <3>1, PathAssumption DEF More
    <3>3. transfers[u].asked[1] = <<transfers[u].path, 0>>
      BY <1>1, <1>2, <1>6, <3>1 DEF Inv, OwnBlocksInOrder, Transfer
    <3>4. /\ PhaseOf[u] = "open" /\ PhaseOf' = [PhaseOf EXCEPT ![u] = "complete"]
          /\ AskedOf' = AskedOf
      BY <2>1, <2>2, <2>3 DEF PhaseOf, AskedOf
    <3>5. AskedOf[u] = transfers[u].asked
      BY <2>1, <2>2 DEF AskedOf
    <3>6. Promised!Resource(u) = transfers[u].path
      BY <3>3, <3>5 DEF Promised!Resource, AskedOf
    <3>7. Promised!Complete(u) <=>
            /\ PhaseOf[u] = "open" /\ Len(AskedOf[u]) = Blocks[Promised!Resource(u)]
            /\ PhaseOf' = [PhaseOf EXCEPT ![u] = "complete"]
            /\ AskedOf' = AskedOf
      BY DEF Promised!Complete, PhaseOf, AskedOf
    <3>8. Promised!Complete(u)
      BY <3>2, <3>4, <3>5, <3>6, <3>7
    <3> QED BY <2>2, <3>8
  <2>4. CASE outcome # "complete"
    BY <2>1, <2>2, <2>4 DEF Promised!Fail
  <2> QED BY <2>3, <2>4
<1> QED BY <1>5, <1>6

LEMMA AskAsksNext ==
  ASSUME Inv, NEW m \in memos, NEW con \in BOOLEAN, AskForNext(m, con)
  PROVE  UNCHANGED Promised!vars \/ \E t \in 1 .. MaxCommands : Promised!AskNext(t)
<1>1. /\ m.t \in DOMAIN transfers /\ m \in Memo /\ MemoOwn(m) /\ Open(m.t)
      /\ transfers[m.t] \in Transfer
  BY Numbered DEF Inv, MemoInv, TypeOK
<1>2. PICK u \in DOMAIN transfers : u = m.t
  BY <1>1
<1>3. PICK asked : asked = Append(transfers[u].asked, <<last_req_path, m.blk + 1>>)
  OBVIOUS
<1>4. /\ transfers' = [transfers EXCEPT ![u].asked = asked] /\ More(m.path, m.blk)
      /\ ~(m.blk = 0 /\ last_req_path = Empty)
  BY <1>2, <1>3 DEF AskForNext
<1>5. /\ DOMAIN transfers' = DOMAIN transfers
      /\ \A t \in DOMAIN transfers : t # u => transfers'[t] = transfers[t]
      /\ transfers'[u].asked = asked /\ transfers'[u].outcome = transfers[u].outcome
      /\ transfers'[u].overwritten = transfers[u].overwritten
  BY <1>1, <1>2, <1>4 DEF Transfer
<1>6. CASE transfers[u].overwritten
  BY <1>5, <1>6, ForgottenStays
<1>7. CASE ~transfers[u].overwritten
  <2>1. Phase(u) = "open" /\ Phase(u)' = "open" /\ Asked(u)' = asked /\ Asked(u) = transfers[u].asked
    BY <1>1, <1>2, <1>5, <1>7 DEF Phase, Asked, Open
  <2>2. /\ u \in 1 .. MaxCommands
        /\ \A t \in 1 .. MaxCommands : t # u => Phase(t)' = Phase(t) /\ Asked(t)' = Asked(t)
    BY <1>5, Elsewhere
  <2>3. /\ m.path = transfers[u].path /\ m.blk + 1 = Len(transfers[u].asked)
        /\ (m.path \in LongPath => m.blk = 0) /\ last_req_path = Kept(m.path)
        /\ m.path \in Path /\ m.blk \in Nat
    BY <1>1, <1>2, <1>7 DEF MemoOwn, Inv, KeptInv, Transfer, Memo
  <2>4. /\ last_req_path = transfers[u].path
        /\ Len(transfers[u].asked) < Blocks[transfers[u].path]
    BY <2>3, <1>4 DEF Kept, More
  <2>5. transfers[u].asked[1] = <<transfers[u].path, 0>>
    BY <2>3, <1>1, <1>2, <1>7 DEF Inv, OwnBlocksInOrder, Transfer
  <2>6. asked = Append(transfers[u].asked, <<transfers[u].path, Len(transfers[u].asked)>>)
    BY <1>3, <2>3, <2>4
  <2>7. PhaseOf[u] = "open" /\ PhaseOf' = PhaseOf /\ AskedOf' = [AskedOf EXCEPT ![u] = asked]
    BY <2>1, <2>2 DEF PhaseOf, AskedOf
  <2>8. AskedOf[u] = transfers[u].asked
    BY <2>1, <2>2 DEF AskedOf
  <2>9. Promised!Resource(u) = transfers[u].path
    BY <2>5, <2>8 DEF Promised!Resource, AskedOf
  <2>10. Promised!AskNext(u) <=>
           /\ PhaseOf[u] = "open" /\ Len(AskedOf[u]) < Blocks[Promised!Resource(u)]
           /\ AskedOf' = [AskedOf EXCEPT
                            ![u] = Append(AskedOf[u], <<Promised!Resource(u), Len(AskedOf[u])>>)]
           /\ PhaseOf' = PhaseOf
    BY DEF Promised!AskNext, PhaseOf, AskedOf
  <2>11. Promised!AskNext(u)
    BY <2>4, <2>6, <2>7, <2>8, <2>9, <2>10
  <2> QED BY <2>2, <2>11
<1> QED BY <1>6, <1>7

\* To the user who typed it every transfer is one of BlockwiseTransfer: its own
\* blocks, each once and in order, complete when it has them all, and nothing
\* after its end; however the two threads interleave, until a new command
\* spoils it.
THEOREM TransferImplemented == Spec => ImplementsTransfer
<1>1. Init => Promised!Init
  BY DEF Init, Promised!Init, Phase, Asked
<1>2. Inv /\ [Next]_vars => [Promised!Next]_(Promised!vars)
  <2> SUFFICES ASSUME Inv, [Next]_vars PROVE [Promised!Next]_(Promised!vars)
    OBVIOUS
  <2>1. ASSUME UNCHANGED transfers PROVE UNCHANGED Promised!vars
    BY <2>1 DEF Promised!vars, Phase, Asked
  <2>2. ASSUME NEW path \in Path, NEW con \in BOOLEAN, NEW sendable \in BOOLEAN,
               Enter(path, con, sendable)
        PROVE  UNCHANGED Promised!vars
    BY <2>1, <2>2 DEF Enter
  <2>3. ASSUME Shell PROVE [Promised!Next]_(Promised!vars)
    BY <2>1, <2>3, ClearPathForgets, SendBegins
       DEF Shell, StartCopy, EndCopy, SendFails, Promised!Next
  <2>4. ASSUME NEW m \in memos, HandleResponse(m) PROVE [Promised!Next]_(Promised!vars)
    <3>1. ASSUME LastBlock(m) PROVE [Promised!Next]_(Promised!vars)
      BY <3>1, EndEnds DEF LastBlock, Outcome, Promised!Next
    <3>2. ASSUME PathTooLong(m) PROVE [Promised!Next]_(Promised!vars)
      BY <3>2, EndEnds DEF PathTooLong, Outcome, Promised!Next
    <3>3. ASSUME NEW con \in BOOLEAN, AskFails(m, con) PROVE [Promised!Next]_(Promised!vars)
      BY <3>3, EndEnds DEF AskFails, Outcome, Promised!Next
    <3>4. ASSUME NEW con \in BOOLEAN, AskForNext(m, con) PROVE [Promised!Next]_(Promised!vars)
      BY <3>4, AskAsksNext DEF Promised!Next
    <3> QED BY <2>4, <3>1, <3>2, <3>3, <3>4 DEF HandleResponse
  <2>5. ASSUME NEW m \in memos, Timeout(m) \/ ResponseError(m)
        PROVE  [Promised!Next]_(Promised!vars)
    BY <2>5, EndEnds DEF Timeout, ResponseError, Outcome, Promised!Next
  <2>6. CASE UNCHANGED vars
    BY <2>1, <2>6 DEF vars
  <2> QED BY <2>2, <2>3, <2>4, <2>5, <2>6 DEF Next
<1> QED BY <1>1, <1>2, SpecInv, PTL DEF Spec, ImplementsTransfer, Promised!Spec

-----------------------------------------------------------------------------
(* A transfer alone with the pools is told how it ends.                    *)

\* The request of a transfer that began alone and was not typed over is the
\* only one.
AloneInv ==
  \A t \in DOMAIN transfers : Open(t) /\ Alone(t) => \A m \in memos : m.t = t

LEMMA AloneInit == Init => AloneInv /\ OutcomeTold
BY DEF Init, AloneInv, OutcomeTold

\* Two of each are enough for a request and the one that follows it.
LEMMA RoomForTwo ==
  ASSUME REQ_WAITING_MAX >= 2, RESEND_BUFS_MAX >= 2, NEW m, NEW con \in BOOLEAN
  PROVE  CanSend({m}, con)
<1>1. Cardinality({m}) = 1
  BY FS_Singleton
<1>2. CASE m.con
  <2>1. {k \in {m} : k.con} = {m}
    BY <1>2
  <2> QED BY <1>1, <2>1, PoolAssumption DEF CanSend
<1>3. CASE ~m.con
  <2>1. {k \in {m} : k.con} = {}
    BY <1>3
  <2>2. Cardinality({k \in {m} : k.con}) = 0
    BY <2>1, FS_EmptySet
  <2> QED BY <1>1, <2>2, PoolAssumption DEF CanSend
<1> QED BY <1>2, <1>3

\* So the request that follows one of a transfer alone is always sent.
LEMMA AloneFollowsUp ==
  ASSUME REQ_WAITING_MAX >= 2, RESEND_BUFS_MAX >= 2, Inv, AloneInv,
         NEW m \in memos, NEW con \in BOOLEAN, AskFails(m, con)
  PROVE  ~Alone(m.t)
<1> SUFFICES ASSUME Alone(m.t) PROVE FALSE
  OBVIOUS
<1>1. m.t \in DOMAIN transfers /\ Open(m.t)
  BY DEF Inv, MemoInv
<1>2. memos = {m}
  BY <1>1 DEF AloneInv, Inv, MemoInv
<1> QED BY <1>2, RoomForTwo DEF AskFails

LEMMA AloneClear ==
  ASSUME Inv, AloneInv, OutcomeTold, ClearPath
  PROVE  AloneInv' /\ OutcomeTold'
<1>1. /\ DOMAIN transfers' = DOMAIN transfers
      /\ \A t \in DOMAIN transfers :
           transfers'[t] = [transfers[t] EXCEPT !.overwritten = @ \/ transfers[t].outcome = "open"]
  BY DEF ClearPath, Overwritten
<1>2. ASSUME NEW t \in DOMAIN transfers
      PROVE  /\ transfers'[t].outcome = transfers[t].outcome
             /\ transfers'[t].beside = transfers[t].beside
             /\ transfers'[t].overwritten <=> transfers[t].overwritten \/ Open(t)
  <2>1. transfers[t] \in Transfer
    BY Numbered
  <2> QED BY <2>1, <1>1 DEF Transfer, Open
<1>3. AloneInv'
  BY <1>1, <1>2 DEF AloneInv, Alone, Open
<1>4. OutcomeTold'
  BY <1>1, <1>2 DEF OutcomeTold, Alone, Reported, Open
<1> QED BY <1>3, <1>4

LEMMA AloneSend ==
  ASSUME Inv, AloneInv, OutcomeTold, Send
  PROVE  AloneInv' /\ OutcomeTold'
<1>1. PICK n \in Nat : n = Len(transfers) + 1
  BY Numbered
<1>2. PICK beside \in BOOLEAN : beside = (memos # {})
  BY Zenon
<1>3. PICK tr, m : /\ tr = [path |-> shell.path, asked |-> <<<<shell.path, 0>>>>,
                            outcome |-> "open", overwritten |-> FALSE, beside |-> beside]
                   /\ m = [t |-> n, path |-> shell.path, blk |-> 0, con |-> shell.con]
  OBVIOUS
<1>8. transfers' = Append(transfers, tr) /\ memos' = memos \cup {m}
  BY <1>1, <1>2, <1>3 DEF Send
<1>4. /\ DOMAIN transfers = 1 .. n - 1 /\ DOMAIN transfers' = 1 .. n
      /\ transfers'[n] = tr /\ \A t \in 1 .. n - 1 : transfers'[t] = transfers[t]
  BY <1>1, <1>8, Numbered
<1>5. \A t \in DOMAIN transfers : Open(t) => transfers[t].overwritten
  BY DEF Send, Inv, ShellInv
<1>6. AloneInv'
  <2> SUFFICES ASSUME NEW t \in DOMAIN transfers', (Open(t) /\ Alone(t))'
               PROVE  \A k \in memos' : k.t = t
    BY DEF AloneInv
  <2>1. t = n
    <3>1. t \in 1 .. n - 1 => transfers'[t] = transfers[t] /\ t \in DOMAIN transfers
      BY <1>4
    <3>2. t \in 1 .. n - 1 => ~Open(t)' \/ ~Alone(t)'
      BY <3>1, <1>5 DEF Open, Alone
    <3>3. t \in 1 .. n
      BY <1>4
    <3> QED BY <3>2, <3>3
  <2>2. memos = {}
    <3>1. ~tr.beside
      BY <2>1, <1>4 DEF Alone
    <3>2. tr.beside = beside
      BY <1>3
    <3> QED BY <3>1, <3>2, <1>2
  <2> QED BY <2>1, <2>2, <1>3, <1>8
<1>7. OutcomeTold'
  <2> SUFFICES ASSUME NEW t \in DOMAIN transfers', Alone(t)'
               PROVE  (transfers[t].outcome = "open" \/ Reported(t))'
    BY DEF OutcomeTold
  <2>1. (t \in DOMAIN transfers /\ transfers'[t] = transfers[t]) \/ t = n
    BY <1>1, <1>4
  <2>2. CASE t = n
    BY <2>2, <1>3, <1>4
  <2> QED BY <2>1, <2>2 DEF OutcomeTold, Alone, Reported
<1> QED BY <1>6, <1>7

LEMMA AloneEnd ==
  ASSUME Inv, AloneInv, OutcomeTold, NEW m \in memos, NEW outcome \in Outcome \ {"open"},
         End(m, outcome), outcome = "silent" => ~Alone(m.t)
  PROVE  AloneInv' /\ OutcomeTold'
<1>1. m.t \in DOMAIN transfers /\ transfers[m.t] \in Transfer
  BY Numbered DEF Inv, MemoInv
<1>2. /\ DOMAIN transfers' = DOMAIN transfers /\ memos' \subseteq memos
      /\ \A t \in DOMAIN transfers : t # m.t => transfers'[t] = transfers[t]
      /\ transfers'[m.t].outcome = outcome /\ transfers'[m.t].beside = transfers[m.t].beside
      /\ transfers'[m.t].overwritten = transfers[m.t].overwritten
  BY <1>1 DEF End, Transfer
<1>3. AloneInv'
  BY <1>2 DEF AloneInv, Alone, Open
<1>4. OutcomeTold'
  <2> SUFFICES ASSUME NEW t \in DOMAIN transfers', Alone(t)'
               PROVE  (transfers[t].outcome = "open" \/ Reported(t))'
    BY DEF OutcomeTold
  <2>1. CASE t = m.t
    BY <2>1, <1>2 DEF Alone, Reported, Outcome
  <2>2. CASE t # m.t
    BY <2>2, <1>2 DEF OutcomeTold, Alone, Reported
  <2> QED BY <2>1, <2>2
<1> QED BY <1>3, <1>4

LEMMA AloneAsk ==
  ASSUME Inv, AloneInv, OutcomeTold, NEW m \in memos, NEW con \in BOOLEAN, AskForNext(m, con)
  PROVE  AloneInv' /\ OutcomeTold'
<1>1. /\ m.t \in DOMAIN transfers /\ Open(m.t) /\ transfers[m.t] \in Transfer
  BY Numbered DEF Inv, MemoInv
<1>2. PICK k, asked :
        /\ k = [t |-> m.t, path |-> last_req_path, blk |-> m.blk + 1, con |-> con]
        /\ asked = Append(transfers[m.t].asked, <<last_req_path, m.blk + 1>>)
  OBVIOUS
<1>7. /\ memos' = (memos \ {m}) \cup {k} /\ k.t = m.t
      /\ transfers' = [transfers EXCEPT ![m.t].asked = asked]
  BY <1>1, <1>2 DEF AskForNext
<1>3. /\ DOMAIN transfers' = DOMAIN transfers
      /\ \A t \in DOMAIN transfers : t # m.t => transfers'[t] = transfers[t]
      /\ transfers'[m.t].outcome = transfers[m.t].outcome
      /\ transfers'[m.t].beside = transfers[m.t].beside
      /\ transfers'[m.t].overwritten = transfers[m.t].overwritten
  BY <1>1, <1>7 DEF Transfer
<1>4. ASSUME NEW t \in DOMAIN transfers
      PROVE  /\ Alone(t)' <=> Alone(t)
             /\ transfers'[t].outcome = transfers[t].outcome
  BY <1>3 DEF Alone
<1>5. AloneInv'
  BY <1>3, <1>4, <1>7 DEF AloneInv, Open
<1>6. OutcomeTold'
  BY <1>3, <1>4 DEF OutcomeTold, Reported
<1> QED BY <1>5, <1>6

LEMMA AloneStep ==
  ASSUME REQ_WAITING_MAX >= 2, RESEND_BUFS_MAX >= 2, Inv, AloneInv, OutcomeTold, [Next]_vars
  PROVE  AloneInv' /\ OutcomeTold'
<1>1. ASSUME UNCHANGED <<memos, transfers>> PROVE AloneInv' /\ OutcomeTold'
  BY <1>1 DEF AloneInv, OutcomeTold, Alone, Reported, Open
<1>2. ASSUME NEW path \in Path, NEW con \in BOOLEAN, NEW sendable \in BOOLEAN,
             Enter(path, con, sendable)
      PROVE  AloneInv' /\ OutcomeTold'
  BY <1>1, <1>2 DEF Enter
<1>3. ASSUME Shell PROVE AloneInv' /\ OutcomeTold'
  BY <1>1, <1>3, AloneClear, AloneSend DEF Shell, StartCopy, EndCopy, SendFails
<1>4. ASSUME NEW m \in memos, HandleResponse(m) PROVE AloneInv' /\ OutcomeTold'
  <2>1. ASSUME LastBlock(m) \/ PathTooLong(m) PROVE AloneInv' /\ OutcomeTold'
    BY <2>1, AloneEnd DEF LastBlock, PathTooLong, Outcome
  <2>2. ASSUME NEW con \in BOOLEAN, AskFails(m, con) PROVE AloneInv' /\ OutcomeTold'
    <3>1. ~Alone(m.t) /\ End(m, "silent")
      BY <2>2, AloneFollowsUp DEF AskFails
    <3> QED BY <3>1, AloneEnd DEF Outcome
  <2> QED BY <1>4, <2>1, <2>2, AloneAsk DEF HandleResponse
<1>5. ASSUME NEW m \in memos, Timeout(m) \/ ResponseError(m) PROVE AloneInv' /\ OutcomeTold'
  BY <1>5, AloneEnd DEF Timeout, ResponseError, Outcome
<1>6. CASE UNCHANGED vars
  BY <1>1, <1>6 DEF vars
<1> QED BY <1>2, <1>3, <1>4, <1>5, <1>6 DEF Next

\* With two memos and two resend buffers, as many as the exercise configures,
\* no transfer that began alone and was not typed over ends in silence.
THEOREM ToldHowItEnds ==
  ASSUME REQ_WAITING_MAX >= 2, RESEND_BUFS_MAX >= 2
  PROVE  Spec => []OutcomeTold
<1> DEFINE Told == Inv /\ AloneInv /\ OutcomeTold
<1>1. Init => Told
  BY InitInv, AloneInit
<1>2. Told /\ [Next]_vars => Told'
  BY Inductive, AloneStep
<1> HIDE DEF Told
<1>3. Spec => []Told
  BY <1>1, <1>2, PTL DEF Spec
<1>4. Told => OutcomeTold
  BY DEF Told
<1> QED BY <1>3, <1>4, PTL
=============================================================================
