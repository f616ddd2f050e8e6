------------------------------ MODULE CoapChunks ------------------------------
(***************************************************************************)
(* The chunk-wise resource of the CoAP example server                      *)
(* (resources/res-chunks.c), fetched block by block by a client that may   *)
(* ask for smaller blocks as it goes, over a network that loses, repeats   *)
(* and reorders.  The handler is told an offset and a preferred size, and  *)
(* answers with bytes and the offset where to continue, or -1.             *)
(***************************************************************************)
EXTENDS Integers

CONSTANTS
  CHUNKS_TOTAL,  \* length of the representation
  BlockSize,     \* the block sizes a client may use
  MAX_BLOCK_SIZE \* the one the engine uses when the client names none

ASSUME ChunksAssumption ==
  /\ CHUNKS_TOTAL \in Nat \ {0}
  /\ BlockSize \subseteq Nat \ {0}
  /\ MAX_BLOCK_SIZE \in BlockSize

VARIABLES
  phase,     \* the client's: asking, done, or refused with BlockOutOfScope
  asked,     \* offset of the block it waits for
  size,      \* block size it uses
  got,       \* bytes it has put together
  requests,  \* requests under way
  replies    \* responses under way

vars == <<phase, asked, size, got, requests, replies>>

Request == [offset: 0 .. CHUNKS_TOTAL, size: BlockSize]
Block == [offset: 0 .. CHUNKS_TOTAL, code: {"2.05", "4.02"}, len: 0 .. CHUNKS_TOTAL,
          more: BOOLEAN]

\* Fault: the end is tested before the last bytes are counted.
ResGetHandlerEarlyTest(offset, preferred_size) ==
  IF offset >= CHUNKS_TOTAL THEN [code |-> "4.02", len |-> 0, next |-> offset]
  ELSE LET strpos == IF offset + preferred_size > CHUNKS_TOTAL
                       THEN CHUNKS_TOTAL - offset ELSE preferred_size
       IN  [code |-> "2.05", len |-> strpos,
            next |-> IF offset + strpos > CHUNKS_TOTAL THEN -1 ELSE offset + strpos]

\* Fault: the last block is not cut at the end of the representation.
ResGetHandlerUncut(offset, preferred_size) ==
  IF offset >= CHUNKS_TOTAL THEN [code |-> "4.02", len |-> 0, next |-> offset]
  ELSE [code |-> "2.05", len |-> preferred_size,
        next |-> IF offset + preferred_size >= CHUNKS_TOTAL THEN -1
                 ELSE offset + preferred_size]

\* res_get_handler.  The loop fills preferred_size bytes; what would lie beyond
\* the end is cut; an offset that reaches the end becomes -1.
ResGetHandler(offset, preferred_size) ==
  IF offset >= CHUNKS_TOTAL THEN [code |-> "4.02", len |-> 0, next |-> offset]
  ELSE LET strpos == IF offset + preferred_size > CHUNKS_TOTAL
                       THEN CHUNKS_TOTAL - offset ELSE preferred_size
       IN  [code |-> "2.05", len |-> strpos,
            next |-> IF offset + strpos >= CHUNKS_TOTAL THEN -1 ELSE offset + strpos]

Init ==
  /\ phase = "asking" /\ asked = 0 /\ got = 0
  /\ size = MAX_BLOCK_SIZE
  /\ requests = {[offset |-> 0, size |-> MAX_BLOCK_SIZE]}
  /\ replies = {}

\* The engine sets the More flag from the offset the handler leaves.
ServeBlock(q) ==
  LET h == ResGetHandler(q.offset, q.size) IN
    /\ replies' = replies \cup {[offset |-> q.offset, code |-> h.code, len |-> h.len,
                                 more |-> h.next # -1]}
    /\ requests' = requests \ {q}
    /\ UNCHANGED <<phase, asked, size, got>>

\* A copy of the request or of the response the network made, or a client
\* that repeats its request.
RepeatRequest ==
  /\ phase = "asking"
  /\ requests' = requests \cup {[offset |-> asked, size |-> size]}
  /\ UNCHANGED <<phase, asked, size, got, replies>>

\* Block number and size give an offset, so the next size must divide it.
Continue(b, s) ==
  /\ b.code = "2.05" /\ b.more
  /\ s <= size /\ (b.offset + b.len) % s = 0
  /\ got' = got + b.len
  /\ asked' = b.offset + b.len
  /\ size' = s
  /\ requests' = requests \cup {[offset |-> asked', size |-> s]}
  /\ UNCHANGED phase

Finish(b) ==
  /\ b.code = "2.05" /\ ~b.more
  /\ got' = got + b.len
  /\ phase' = "done"
  /\ UNCHANGED <<asked, size, requests>>

Refuse(b) ==
  /\ b.code = "4.02"
  /\ phase' = "refused"
  /\ UNCHANGED <<asked, size, got, requests>>

\* Only the answer to the pending request counts.
ReceiveBlock(b) ==
  /\ replies' = replies \ {b}
  /\ IF phase = "asking" /\ b.offset = asked
       THEN Finish(b) \/ Refuse(b) \/ \E s \in BlockSize : Continue(b, s)
       ELSE UNCHANGED <<phase, asked, size, got, requests>>

LoseRequest(q) ==
  /\ requests' = requests \ {q}
  /\ UNCHANGED <<phase, asked, size, got, replies>>

LoseReply(b) ==
  /\ replies' = replies \ {b}
  /\ UNCHANGED <<phase, asked, size, got, requests>>

Next ==
  \/ \E q \in requests : ServeBlock(q) \/ LoseRequest(q)
  \/ \E b \in replies : ReceiveBlock(b) \/ LoseReply(b)
  \/ RepeatRequest

Spec == Init /\ [][Next]_vars

\* The client repeats its request for as long as it waits, and the network does
\* not lose every copy.
FairSpec ==
  /\ Spec
  /\ WF_vars(RepeatRequest)
  /\ SF_vars(\E q \in requests : q.offset = asked /\ ServeBlock(q))
  /\ SF_vars(\E b \in replies : b.offset = asked /\ ReceiveBlock(b))

-----------------------------------------------------------------------------
TypeOK ==
  /\ phase \in {"asking", "done", "refused"}
  /\ asked \in 0 .. CHUNKS_TOTAL
  /\ size \in BlockSize
  /\ got \in 0 .. CHUNKS_TOTAL
  /\ requests \subseteq Request
  /\ replies \subseteq Block

\* The file's contract for chunk-wise resources: the offset becomes -1 exactly
\* when the end is reached, so the last block, and no other, has More unset.
EndSignalled ==
  \A b \in replies : b.code = "2.05" => (b.more <=> b.offset + b.len < CHUNKS_TOTAL)

\* A client that follows the More flags never asks beyond the end, whatever
\* block sizes it changes to.
NeverOutOfScope == phase # "refused"

\* What a client puts together is the whole representation, no byte twice.
WholeTransferred == phase = "done" => got = CHUNKS_TOTAL

\* The transfer ends.
TransferEnds == <>(phase = "done")
=============================================================================
