--------------------------- MODULE BlockwiseTransfer ---------------------------
(***************************************************************************)
(* What the command line client promises whoever types a request, without  *)
(* threads, request memos and a path kept on the side: a transfer asks for *)
(* the blocks of one resource, each once and in order, is complete when it *)
(* has asked for all of them, and asks for nothing once it has ended.      *)
(***************************************************************************)
EXTENDS Naturals, Sequences

CONSTANTS Id, Path,
          Blocks   \* how many blocks the resource of a path has

VARIABLES phase,   \* of each transfer
          asked    \* the blocks it asked for, each with the path it gave

vars == <<phase, asked>>

Init ==
  /\ phase = [t \in Id |-> "new"]
  /\ asked = [t \in Id |-> <<>>]

Begin(t) ==
  /\ phase[t] = "new" /\ phase' = [phase EXCEPT ![t] = "open"]
  /\ \E path \in Path : asked' = [asked EXCEPT ![t] = <<<<path, 0>>>>]

\* The resource of an open transfer.
Resource(t) == asked[t][1][1]

AskNext(t) ==
  /\ phase[t] = "open" /\ Len(asked[t]) < Blocks[Resource(t)]
  /\ asked' = [asked EXCEPT ![t] = Append(@, <<Resource(t), Len(@)>>)]
  /\ UNCHANGED phase

Complete(t) ==
  /\ phase[t] = "open" /\ Len(asked[t]) = Blocks[Resource(t)]
  /\ phase' = [phase EXCEPT ![t] = "complete"]
  /\ UNCHANGED asked

\* It is over before it is complete.
Fail(t) ==
  /\ phase[t] = "open" /\ phase' = [phase EXCEPT ![t] = "failed"]
  /\ UNCHANGED asked

\* A new command is typed: nothing is promised any more of the open transfers.
Forget ==
  /\ phase' = [t \in Id |-> IF phase[t] = "open" THEN "forgotten" ELSE phase[t]]
  /\ asked' = [t \in Id |-> IF phase[t] = "open" THEN <<>> ELSE asked[t]]

Next == Forget \/ \E t \in Id : Begin(t) \/ AskNext(t) \/ Complete(t) \/ Fail(t)

Spec == Init /\ [][Next]_vars
=============================================================================
