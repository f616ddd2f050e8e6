--------------------------- MODULE SeparateMailbox ---------------------------
(***************************************************************************)
(* What the separate-response example promises to its clients, without     *)
(* slots, counters, messages or transactions: accepted exchanges queue up, *)
(* at most Capacity of them, and one press of the button answers the       *)
(* exchange accepted last and forgets the ones accepted before it.         *)
(***************************************************************************)
EXTENDS Naturals, Sequences, SequencesExt

CONSTANTS Exchange,   \* the exchanges that may ever be accepted
          Capacity    \* how many are accepted before the next is refused

VARIABLES pending,    \* the exchanges accepted since the last answer, oldest first
          answered    \* the exchanges a response was sent for

vars == <<pending, answered>>

Init == pending = <<>> /\ answered = {}

\* An exchange nobody has seen before is accepted behind the pending ones.
Accept ==
  /\ Len(pending) < Capacity
  /\ Len(pending') = Len(pending) + 1
  /\ Front(pending') = pending
  /\ Last(pending') \in Exchange \ (answered \cup ToSet(pending))
  /\ UNCHANGED answered

\* The newest pending exchange is answered; the older ones never will be.
Answer ==
  /\ pending # <<>>
  /\ answered' = answered \cup {Last(pending)}
  /\ pending' = <<>>

Next == Accept \/ Answer

Spec == Init /\ [][Next]_vars

FairSpec == Spec /\ WF_vars(Answer)
=============================================================================
