------------------------------ MODULE MCFleet ------------------------------
(***************************************************************************)
(* Fleet, for agents, connections and events that can stand for each       *)
(* other.                                                                  *)
(***************************************************************************)
EXTENDS Fleet, TLC

Symmetry == Permutations(Agent) \cup Permutations(Conn) \cup Permutations(Event)
=============================================================================
