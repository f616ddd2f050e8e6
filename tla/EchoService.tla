------------------------------ MODULE EchoService ------------------------------
(***************************************************************************)
(* What the resource test/b1sepb2 promises a client, without blocks, a     *)
(* buffer and messages on the wire: the message it posted comes back from  *)
(* its first byte on, and the exchange is done when all of it came back.   *)
(***************************************************************************)
EXTENDS Naturals, Sequences

CONSTANTS Client,
          Byte       \* what is promised of a byte, which may be nothing

VARIABLES message,   \* of each client
          phase,     \* of its exchange
          returned   \* what came back so far

vars == <<message, phase, returned>>

Init ==
  /\ message \in [Client -> Seq(Byte)]
  /\ phase = [c \in Client |-> "idle"]
  /\ returned = [c \in Client |-> <<>>]

Post(c) ==
  /\ phase[c] = "idle" /\ phase' = [phase EXCEPT ![c] = "waiting"]
  /\ UNCHANGED <<message, returned>>

\* More of the message comes back; with the last byte the exchange may be done.
Return(c) ==
  /\ phase[c] = "waiting"
  /\ \E n \in Len(returned[c]) + 1 .. Len(message[c]) :
       /\ returned' = [returned EXCEPT ![c] = SubSeq(message[c], 1, n)]
       /\ \/ UNCHANGED phase
          \/ n = Len(message[c]) /\ phase' = [phase EXCEPT ![c] = "done"]
  /\ UNCHANGED message

Fail(c) ==
  /\ phase[c] = "waiting" /\ phase' = [phase EXCEPT ![c] = "failed"]
  /\ UNCHANGED <<message, returned>>

\* Another request wrote over the messages of these clients: nothing is
\* promised to them any more.
Forget(disturbed) ==
  /\ phase' = [c \in Client |-> IF c \in disturbed THEN "forgotten" ELSE phase[c]]
  /\ returned' = [c \in Client |-> IF c \in disturbed THEN <<>> ELSE returned[c]]
  /\ UNCHANGED message

Next ==
  \/ \E c \in Client : Post(c) \/ Return(c) \/ Fail(c)
  \/ \E disturbed \in SUBSET Client : Forget(disturbed)

Spec == Init /\ [][Next]_vars
=============================================================================
