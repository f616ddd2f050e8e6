------------------------------- MODULE GcoapCli -------------------------------
(***************************************************************************)
(* The CoAP command line client of the RIOT exercise                       *)
(* (riot/networking/coap/gcoap_cli.c).  The shell thread runs              *)
(* gcoap_cli_cmd; the gcoap thread, whose priority is higher, runs         *)
(* _resp_handler, which asks for the next block with the path the shell    *)
(* thread left in _last_req_path.  No lock protects that path: the handler *)
(* can preempt the command between any two of its writes.                  *)
(***************************************************************************)
EXTENDS Integers, Sequences, FiniteSets

CONSTANTS
  Path,             \* the paths a user may type
  LongPath,         \* those of _LAST_REQ_PATH_MAX characters or more
  Empty, Torn,      \* _last_req_path cleared, and with part of a path in it
  Blocks,           \* how many blocks the server answers with, for each path
  REQ_WAITING_MAX,  \* gcoap's request memos
  RESEND_BUFS_MAX,  \* gcoap's buffers for CON requests
  MaxCommands       \* bound on the commands typed

ASSUME PathAssumption ==
  /\ LongPath \subseteq Path
  /\ Empty \notin Path /\ Torn \notin Path /\ Empty # Torn
  /\ Blocks \in [Path -> Nat \ {0}]
ASSUME PoolAssumption ==
  REQ_WAITING_MAX \in Nat \ {0} /\ RESEND_BUFS_MAX \in Nat /\ MaxCommands \in Nat

VARIABLES
  last_req_path,  \* static char _last_req_path[]
  req_count,      \* static uint16_t req_count
  shell,          \* where the shell thread is in gcoap_cli_cmd, and its arguments
  memos,          \* open requests: whose transfer, which path and block, confirmable
  transfers,      \* history: for each request a command sent, its path, what was
                  \* asked for, how it ended, whether its path was written
                  \* over, and whether it began while another one ran
  entered         \* commands typed so far

vars == <<last_req_path, req_count, shell, memos, transfers, entered>>

Idle == [pc |-> "idle"]
Typed == [pc: {"clear", "copy", "copying", "send"}, path: Path, con: BOOLEAN, sendable: BOOLEAN]
Memo == [t: 1 .. MaxCommands, path: Path \cup {Empty, Torn}, blk: Nat, con: BOOLEAN]
Outcome == {"open", "complete", "too long", "timeout", "error", "silent"}
Transfer == [path: Path, asked: Seq((Path \cup {Empty, Torn}) \X Nat), outcome: Outcome,
             overwritten: BOOLEAN, beside: BOOLEAN]

Init ==
  /\ last_req_path = Empty /\ req_count = 0
  /\ shell = Idle /\ memos = {} /\ transfers = <<>> /\ entered = 0

\* gcoap_req_send finds a memo, and a resend buffer for a CON request.
CanSend(open, con) ==
  /\ Cardinality(open) < REQ_WAITING_MAX
  /\ con => Cardinality({m \in open : m.con}) < RESEND_BUFS_MAX

\* More blocks follow block blk of a path; anything but a path is not found.
More(path, blk) == path \in Path /\ blk + 1 < Blocks[path]

-----------------------------------------------------------------------------
(* gcoap_cli_cmd, in the shell thread.                                     *)

\* A well-formed get, post or put.  Whether it can be sent is up to its payload
\* and address, which the code looks at after it has written the path.
Enter(path, con, sendable) ==
  /\ shell = Idle /\ entered < MaxCommands
  /\ entered' = entered + 1
  /\ shell' = [pc |-> "clear", path |-> path, con |-> con, sendable |-> sendable]
  /\ UNCHANGED <<last_req_path, req_count, memos, transfers>>

\* The transfers that are under way when the path changes under them.
Overwritten ==
  [t \in DOMAIN transfers |->
     [transfers[t] EXCEPT !.overwritten = @ \/ transfers[t].outcome = "open"]]

\* memset(_last_req_path, 0, _LAST_REQ_PATH_MAX)
ClearPath ==
  /\ shell.pc = "clear"
  /\ last_req_path' = Empty
  /\ transfers' = Overwritten
  /\ shell' = [shell EXCEPT !.pc = IF shell.path \in LongPath THEN "send" ELSE "copy"]
  /\ UNCHANGED <<req_count, memos, entered>>

\* memcpy of the path, which may be preempted on its way.
StartCopy ==
  /\ shell.pc = "copy"
  /\ last_req_path' = Torn
  /\ shell' = [shell EXCEPT !.pc = "copying"]
  /\ UNCHANGED <<req_count, memos, transfers, entered>>

EndCopy ==
  /\ shell.pc = "copying"
  /\ last_req_path' = shell.path
  /\ shell' = [shell EXCEPT !.pc = "send"]
  /\ UNCHANGED <<req_count, memos, transfers, entered>>

\* _send: the request is counted when gcoap takes it.
Send ==
  /\ shell.pc = "send" /\ shell.sendable /\ CanSend(memos, shell.con)
  /\ req_count' = (req_count + 1) % 2^16
  /\ transfers' = Append(transfers, [path |-> shell.path, asked |-> <<<<shell.path, 0>>>>,
                                     outcome |-> "open", overwritten |-> FALSE,
                                     beside |-> memos # {}])
  /\ memos' = memos \cup {[t |-> Len(transfers) + 1, path |-> shell.path, blk |-> 0,
                           con |-> shell.con]}
  /\ shell' = Idle
  /\ UNCHANGED <<last_req_path, entered>>

\* "msg buffer too small", an address that does not parse, or no memo left:
\* the command ends, the path stays written.
SendFails ==
  /\ shell.pc = "send"
  /\ ~(shell.sendable /\ CanSend(memos, shell.con))
  /\ shell' = Idle
  /\ UNCHANGED <<last_req_path, req_count, memos, transfers, entered>>

-----------------------------------------------------------------------------
(* _resp_handler, in the gcoap thread.                                     *)

End(m, outcome) ==
  /\ memos' = memos \ {m}
  /\ transfers' = [transfers EXCEPT ![m.t].outcome = outcome]
  /\ UNCHANGED <<last_req_path, req_count, shell, entered>>

\* gcoap gives up on the request, or cannot parse the response.
Timeout(m) == End(m, "timeout")
ResponseError(m) == End(m, "error")

\* Fault: a response is taken for the last one too early.
LastBlockEarly(m) ==
  (m.path \in Path => m.blk + 2 >= Blocks[m.path]) /\ End(m, "complete")

\* No Block2 option, or its last block.
LastBlock(m) == ~More(m.path, m.blk) /\ End(m, "complete")

\* Fault: the handler returns without a word.
PathTooLongUntold(m) ==
  More(m.path, m.blk) /\ m.blk = 0 /\ last_req_path = Empty /\ End(m, "silent")

\* Fault: the handler does not return, and asks for the next block of the root.
PathTooLongGoesOn(m) ==
  /\ More(m.path, m.blk) /\ m.blk = 0 /\ last_req_path = Empty
  /\ memos' = (memos \ {m}) \cup {[t |-> m.t, path |-> Empty, blk |-> 1, con |-> FALSE]}
  /\ transfers' = [transfers EXCEPT ![m.t].outcome = "too long"]
  /\ UNCHANGED <<last_req_path, req_count, shell, entered>>

\* "Path too long; can't complete blockwise"
PathTooLong(m) ==
  More(m.path, m.blk) /\ m.blk = 0 /\ last_req_path = Empty /\ End(m, "too long")

\* Another GET, for the block after this one.  The answered request's memo and
\* resend buffer are still taken while the handler runs.  The request is CON
\* when the response was piggybacked.
AskForNext(m, con) ==
  /\ More(m.path, m.blk)
  /\ ~(m.blk = 0 /\ last_req_path = Empty)
  /\ con => m.con
  /\ CanSend(memos, con)
  /\ memos' = (memos \ {m}) \cup {[t |-> m.t, path |-> last_req_path, blk |-> m.blk + 1, con |-> con]}
  /\ transfers' = [transfers EXCEPT ![m.t].asked = Append(@, <<last_req_path, m.blk + 1>>)]
  /\ UNCHANGED <<last_req_path, req_count, shell, entered>>

\* gcoap_req_send's result is not looked at: nothing is asked and nothing said.
AskFails(m, con) ==
  /\ More(m.path, m.blk)
  /\ ~(m.blk = 0 /\ last_req_path = Empty)
  /\ con => m.con
  /\ ~CanSend(memos, con)
  /\ End(m, "silent")

HandleResponse(m) ==
  \/ LastBlock(m) \/ PathTooLong(m)
  \/ \E con \in BOOLEAN : AskForNext(m, con) \/ AskFails(m, con)

Shell == ClearPath \/ StartCopy \/ EndCopy \/ Send \/ SendFails

Next ==
  \/ \E path \in Path, con, sendable \in BOOLEAN : Enter(path, con, sendable)
  \/ Shell
  \/ \E m \in memos : HandleResponse(m) \/ Timeout(m) \/ ResponseError(m)

Spec == Init /\ [][Next]_vars

\* Both threads get the processor, and gcoap's timer ends what nobody answers.
FairSpec ==
  /\ Spec
  /\ WF_vars(Shell)
  /\ WF_vars(\E m \in memos : HandleResponse(m) \/ Timeout(m))

-----------------------------------------------------------------------------
TypeOK ==
  /\ last_req_path \in (Path \ LongPath) \cup {Empty, Torn}
  /\ req_count \in 0 .. 2^16 - 1
  /\ shell = Idle \/ shell \in Typed
  /\ memos \subseteq Memo
  /\ transfers \in Seq(Transfer)
  /\ entered \in 0 .. MaxCommands

\* What the transfers look like to the user, who is promised nothing of those
\* that were typed over.
Phase(t) ==
  IF t \notin DOMAIN transfers THEN "new"
  ELSE IF transfers[t].overwritten THEN "forgotten"
  ELSE IF transfers[t].outcome \in {"open", "complete"} THEN transfers[t].outcome ELSE "failed"
Asked(t) == IF Phase(t) \in {"new", "forgotten"} THEN <<>> ELSE transfers[t].asked

Promised == INSTANCE BlockwiseTransfer
  WITH Id <- 1 .. MaxCommands,
       phase <- [t \in 1 .. MaxCommands |-> Phase(t)],
       asked <- [t \in 1 .. MaxCommands |-> Asked(t)]

\* A transfer nobody typed over asks for the blocks of its own resource, each
\* once and in order, "blockwise complete" is printed when it has asked for all
\* of them, and whatever was printed, it asks for no more.
ImplementsTransfer == Promised!Spec

\* A transfer has one request open, or has ended: a response never starts two.
OneRequestEach ==
  /\ Cardinality({m.t : m \in memos}) = Cardinality(memos)
  /\ \A t \in DOMAIN transfers : transfers[t].outcome = "open" <=> \E m \in memos : m.t = t

\* "Retain request path to re-request if response includes block": a transfer
\* keeps its path when the commands typed meanwhile started no request.
PathRetained ==
  \A t \in DOMAIN transfers :
    Len(transfers) = t /\ shell = Idle /\ transfers[t].path \notin LongPath =>
      \A i \in DOMAIN transfers[t].asked : transfers[t].asked[i][1] = transfers[t].path

Reported(t) == transfers[t].outcome \in {"complete", "too long", "timeout", "error"}

\* Nothing was typed while transfer t ran, nor did it begin while another ran.
Alone(t) == ~transfers[t].overwritten /\ ~transfers[t].beside

\* A follow-up always finds a memo and a resend buffer beside its predecessor's.
OutcomeTold ==
  \A t \in DOMAIN transfers : Alone(t) => transfers[t].outcome = "open" \/ Reported(t)

\* A user who waits for a transfer to end is told how it ended.
TransfersReported ==
  \A t \in 1 .. MaxCommands :
    t \in DOMAIN transfers ~> t \in DOMAIN transfers /\ (Alone(t) => Reported(t))
=============================================================================
