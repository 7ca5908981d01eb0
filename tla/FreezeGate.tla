------------------------------ MODULE FreezeGate ------------------------------
(***************************************************************************)
(* What the freeze gate promises, without lists, events, APCs or a cache:  *)
(* each request holds a process at most once, and the process is let go    *)
(* because a request was allowed or its time was up, or ended because it   *)
(* was not allowed or the gate itself was cut short.  Two requests may     *)
(* stand for each other only if their PIDs are equal, or the PID of one is *)
(* the id of the other.  Requests are what the gate counts: where two have *)
(* one PID, one process may be held for both.                              *)
(***************************************************************************)
EXTENDS Naturals

CONSTANTS Pid, Request, NoPid

VARIABLES
  pid,      \* PID of the process of each request
  gate,     \* what has become of the process
  verdict,  \* the agent's verdict on each request
  expired,  \* requests whose process was held too long
  cut,      \* requests whose process was ended by others while it was held
  over      \* whether the gate has been closed down

vars == <<pid, gate, verdict, expired, cut, over>>

Init ==
  /\ pid = [r \in Request |-> NoPid]
  /\ gate = [r \in Request |-> "none"]
  /\ verdict = [r \in Request |-> "none"]
  /\ expired = {} /\ cut = {}
  /\ over = FALSE

Create(r) ==
  /\ pid[r] = NoPid
  /\ \E p \in Pid : pid' = [pid EXCEPT ![r] = p]
  /\ UNCHANGED <<gate, verdict, expired, cut, over>>

Hold(r) ==
  /\ pid[r] # NoPid /\ gate[r] = "none" /\ ~over
  /\ gate' = [gate EXCEPT ![r] = "held"]
  /\ UNCHANGED <<pid, verdict, expired, cut, over>>

Give(r) ==
  /\ pid[r] # NoPid /\ verdict[r] = "none" /\ ~over
  /\ \E v \in {"allow", "block"} : verdict' = [verdict EXCEPT ![r] = v]
  /\ UNCHANGED <<pid, gate, expired, cut, over>>

Interfere(r) ==
  /\ gate[r] = "held" /\ r \notin expired \cup cut
  /\ \/ expired' = expired \cup {r} /\ UNCHANGED cut
     \/ cut' = cut \cup {r} /\ UNCHANGED expired
  /\ UNCHANGED <<pid, gate, verdict, over>>

Related(r, q) == pid[q] # NoPid /\ (pid[q] = pid[r] \/ q = pid[r])

Ends(r, how) ==
  /\ gate[r] = "held"
  /\ gate' = [gate EXCEPT ![r] = how]
  /\ UNCHANGED <<pid, verdict, expired, cut, over>>

Resume(r) ==
  /\ r \in expired \/ \E q \in Request : Related(r, q) /\ verdict[q] = "allow"
  /\ Ends(r, "resumed")

Kill(r) ==
  /\ r \notin expired
  /\ over \/ r \in cut \/ verdict[r] = "block" \/ \E q \in Request \ {r} : Related(r, q)
  /\ Ends(r, "killed")

(* The thread that was held ends before the gate has looked at it. *)
Leave(r) == r \notin expired \cup cut /\ Ends(r, "left")

Close == ~over /\ over' = TRUE /\ UNCHANGED <<pid, gate, verdict, expired, cut>>

Next ==
  \/ \E r \in Request : \/ Create(r) \/ Hold(r) \/ Give(r) \/ Interfere(r)
                        \/ Resume(r) \/ Kill(r) \/ Leave(r)
  \/ Close

Spec == Init /\ [][Next]_vars
=============================================================================
