---------------------------- MODULE ObservedCounter ----------------------------
(***************************************************************************)
(* What an observable counter promises to its clients, without lists of    *)
(* observers, sequence numbers, transactions and messages: the counter goes *)
(* up by one, and what a client has seen of it moves towards what it is.   *)
(***************************************************************************)
EXTENDS Naturals

CONSTANTS Counter, Client,
          Watched   \* the counter of each client

VARIABLES counter,  \* events so far
          seen      \* events each client knows of

vars == <<counter, seen>>

Init ==
  /\ counter = [c \in Counter |-> 0]
  /\ seen = [o \in Client |-> 0]

\* One event happens; no client has seen it yet.
Event(c) ==
  /\ counter' = [counter EXCEPT ![c] = @ + 1]
  /\ UNCHANGED seen

\* A client learns of some events that it did not know of; it forgets none and
\* none is invented.
Learn(o) ==
  /\ \E n \in seen[o] + 1 .. counter[Watched[o]] : seen' = [seen EXCEPT ![o] = n]
  /\ UNCHANGED counter

Next == (\E c \in Counter : Event(c)) \/ (\E o \in Client : Learn(o))

Spec == Init /\ [][Next]_vars
=============================================================================
