---------------------------- MODULE EventChannel ----------------------------
(***************************************************************************)
(* What the event path of the kernel sensor promises: each process         *)
(* creation event is given to one call of one client, or waits, or is      *)
(* lost, and what has been given or lost stays so.  Events may overtake    *)
(* each other.  InvertedCall implements it.                                *)
(***************************************************************************)
EXTENDS Integers, Sequences

CONSTANTS Client, MaxEvents

VARIABLES
  created,    \* number of events created
  waiting,    \* events nobody has been given yet
  delivered,  \* the completions with an event, in order
  lost        \* events nobody will be given

vars == <<created, waiting, delivered, lost>>

Init ==
  /\ created = 0
  /\ waiting = {}
  /\ delivered = << >>
  /\ lost = {}

Give(e, c) == delivered' = Append(delivered, [event |-> e, to |-> c])

(* A new event is given to a client at once, or waits. *)
Create ==
  /\ created < MaxEvents
  /\ created' = created + 1
  /\ \/ waiting' = waiting \cup {created'} /\ UNCHANGED delivered
     \/ (\E c \in Client : Give(created', c)) /\ UNCHANGED waiting
  /\ UNCHANGED lost

Deliver(e, c) ==
  /\ e \in waiting
  /\ waiting' = waiting \ {e}
  /\ Give(e, c)
  /\ UNCHANGED <<created, lost>>

Lose(E) ==
  /\ waiting' = waiting \ E
  /\ lost' = lost \cup E
  /\ UNCHANGED <<created, delivered>>

Next ==
  \/ Create
  \/ \E e \in waiting, c \in Client : Deliver(e, c)
  \/ \E E \in SUBSET waiting : Lose(E)

Spec == Init /\ [][Next]_vars
=============================================================================
