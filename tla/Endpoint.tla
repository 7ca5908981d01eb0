------------------------------- MODULE Endpoint -------------------------------
(***************************************************************************)
(* The sensor and the agent together, with time: how long a process waits  *)
(* frozen and how long the agent may take for its verdict.  FreezeGate     *)
(* stands for the gate, one held call and a queue for the event path, and  *)
(* what analyze_event does for its steps that take time: the wait for a    *)
(* worker, the wait for the scan of another request, and a scan of its     *)
(* own.  All processes have one image path.  ScanGate, InvertedCall and    *)
(* ScanCache have the detail.                                              *)
(*                                                                         *)
(* A tick is a second.  It comes only when nothing is left that the code   *)
(* does at once: the kernel's steps, those of the event loop, and those of *)
(* a worker except the scan.  Creations, a thread's way to its freeze APC, *)
(* and scans take as long as they like, and an event that was queued while *)
(* the call of the event loop was being held stays where it is.  The PIDs  *)
(* of the processes differ and are no request ids; ScanGate has what comes *)
(* of PIDs otherwise.                                                      *)
(***************************************************************************)
EXTENDS Naturals, SequencesExt, FiniteSets

CONSTANTS
  Requests,    \* bound: processes created
  Workers,     \* n_workers
  MaxQueue,    \* events that fit into EVENT_QUEUE
  KernelWait,  \* seconds the freeze APC waits
  ScanWait     \* SCAN_WAIT_TIMEOUT_SECS

ASSUME EndpointAssumption ==
  /\ Requests \in Nat
  /\ {Workers, MaxQueue} \subseteq Nat \ {0}
  /\ {KernelWait, ScanWait} \subseteq Nat

Request == 1 .. Requests
Pid     == {Requests + r : r \in Request}
NoPid   == 0

VARIABLES
  pid, gate, verdict, expired, cut, over,  \* of FreezeGate; cut and over stay as they are
  left,     \* seconds left to a process that is held
  heard,    \* requests whose verdict came after their scan was listed
  agent,    \* whether the agent runs
  call,     \* PENDING_IRP: whether the call of the event loop is held
  queue,    \* events in EVENT_QUEUE
  pool,     \* events given to the pool no worker has taken
  at,       \* where the call of analyze_event for each request is
  waits,    \* waits for a scan begun by each request that is not answered yet
  barrier,  \* what has become of the scan each request waits for
  patience, \* seconds left to a wait for a scan
  late,     \* auxiliary: held while its event waited for a worker
  stranded, \* auxiliary: held while its event stood in the queue
  spent     \* auxiliary: seconds its own scan took while it was held

sensor == <<pid, gate, verdict, expired, cut, over, left, heard>>
work   == <<at, waits, barrier, patience>>
path   == <<agent, call, queue, pool>>
seen   == <<late, stranded, spent>>
vars   == <<sensor, path, work, seen>>

Gate == INSTANCE FreezeGate

\* Mutant of Patience: as long as the kernel waits.
PatienceOfKernel == KernelWait

(* SCAN_WAIT_TIMEOUT *)
Patience == ScanWait

Busy == {"acquire", "scan", "wait", "allow", "block"}

TypeOK ==
  /\ left \in [Request -> 0 .. KernelWait]
  /\ {heard, late, stranded, expired} \subseteq SUBSET Request
  /\ cut = {} /\ over = FALSE
  /\ agent \in {"up", "down"} /\ call \in {"none", "held"}
  /\ queue \in Seq(Request) /\ Len(queue) <= MaxQueue
  /\ pool \in Seq(Request)
  /\ at \in [Request -> Busy \cup {"none", "notifying", "queued", "pooled", "dropped",
                                  "answered"}]
  /\ Cardinality({r \in Request : at[r] \in Busy}) <= Workers
  /\ waits \in [Request -> 0 .. 2]
  /\ barrier \in [Request -> {"none", "pending", "allow", "block", "failed"}]
  /\ \A q, r \in Request : at[q] = "scan" /\ at[r] = "scan" => q = r
  /\ patience \in [Request -> 0 .. Patience]
  /\ spent \in [Request -> 0 .. KernelWait]

Init ==
  /\ Gate!Init
  /\ left = [r \in Request |-> 0]
  /\ heard = {}
  /\ agent = "up" /\ call = "none"
  /\ queue = <<>> /\ pool = <<>>
  /\ at = [r \in Request |-> "none"]
  /\ waits = [r \in Request |-> 0]
  /\ barrier = [r \in Request |-> "none"]
  /\ patience = [r \in Request |-> 0]
  /\ late = {} /\ stranded = {}
  /\ spent = [r \in Request |-> 0]

Goto(r, place) == at' = [at EXCEPT ![r] = place]

-----------------------------------------------------------------------------
(* The sensor. *)

\* Mutant of Queued: there is always room.
QueuedAlways(r) == queue' = Append(queue, r) /\ Goto(r, "queued")

(* An event the queue has no room for is dropped. *)
Queued(r) ==
  IF Len(queue) < MaxQueue
  THEN queue' = Append(queue, r) /\ Goto(r, "queued")
  ELSE UNCHANGED queue /\ Goto(r, "dropped")

(* The creation of a process that is not allow-listed, and notify_agent's first lock: a
   held call is completed with the event, which the loop gives to the pool. *)
Create(r) ==
  /\ pid[r] = NoPid
  /\ \A q \in 1 .. r - 1 : pid[q] # NoPid
  /\ pid' = [pid EXCEPT ![r] = Requests + r]
  /\ IF call = "held"
     THEN call' = "none" /\ pool' = Append(pool, r) /\ Goto(r, "pooled")
     ELSE UNCHANGED <<call, pool>> /\ Goto(r, "notifying")
  /\ UNCHANGED <<gate, verdict, expired, cut, over, left, heard, agent, queue,
                 waits, barrier, patience, seen>>

(* Its second lock: no call was held, though one may be by now, and the event is
   queued. *)
Enqueue(r) ==
  /\ at[r] = "notifying"
  /\ Queued(r)
  /\ UNCHANGED <<sensor, agent, call, pool, waits, barrier, patience, seen>>

(* The first thread of the process, which starts when the notification has returned,
   lists its scan and starts to wait. *)
Freeze(r) ==
  /\ at[r] # "notifying"
  /\ Gate!Hold(r)
  /\ left' = [left EXCEPT ![r] = KernelWait]
  /\ UNCHANGED <<heard, path, work, seen>>

(* Nothing is measured of a process that is no longer held. *)
Thaw(r) ==
  /\ left' = [left EXCEPT ![r] = 0]
  /\ heard' = heard \ {r}
  /\ late' = late \ {r} /\ stranded' = stranded \ {r}
  /\ spent' = [spent EXCEPT ![r] = 0]
  /\ UNCHANGED <<path, work>>

(* The APC ends with the verdict, when there is one and it came in time. *)
Verdict(r) ==
  /\ gate[r] = "held" /\ r \in heard
  /\ IF verdict[r] = "allow" THEN Gate!Resume(r) ELSE Gate!Kill(r)
  /\ Thaw(r)

TimedOut(r) == gate[r] = "held" /\ left[r] = 0 /\ r \notin heard

(* The wait times out, and the process resumes. *)
Timeout(r) ==
  /\ TimedOut(r)
  /\ gate' = [gate EXCEPT ![r] = "resumed"]
  /\ expired' = expired \cup {r}
  /\ UNCHANGED <<pid, verdict, cut, over>>
  /\ Thaw(r)

-----------------------------------------------------------------------------
(* The agent. *)

Agent == agent = "up" /\ UNCHANGED <<agent, left, seen>>

(* The event loop calls: the first event of the queue comes back, and is given to the
   pool, or the queue is empty and the call is held. *)
GetEvent ==
  /\ Agent
  /\ call = "none"
  /\ \/ /\ queue # <<>>
        /\ queue' = Tail(queue)
        /\ pool' = Append(pool, Head(queue))
        /\ Goto(Head(queue), "pooled")
        /\ UNCHANGED call
     \/ /\ queue = <<>>
        /\ call' = "held"
        /\ UNCHANGED <<queue, pool, at>>
  /\ UNCHANGED <<sensor, waits, barrier, patience>>

FreeWorker == Cardinality({r \in Request : at[r] \in Busy}) < Workers

(* A worker takes an event; the file is there, or it is not. *)
Start ==
  /\ Agent
  /\ pool # <<>> /\ FreeWorker
  /\ pool' = Tail(pool)
  /\ \E next \in {"block", "acquire"} : Goto(Head(pool), next)
  /\ UNCHANGED <<sensor, call, queue, waits, barrier, patience>>

Step(r, place) ==
  /\ Agent
  /\ at[r] = place
  /\ UNCHANGED <<sensor, call, queue, pool>>

ScanRuns == \E r \in Request : at[r] = "scan"

(* try_acquire_scan: a completed scan, the slot of the path, or the barrier of who
   has it. *)
Acquire(r) ==
  /\ Step(r, "acquire")
  /\ \/ (\E v \in {"allow", "block"} : Goto(r, v)) /\ UNCHANGED <<waits, barrier, patience>>
     \/ ~ScanRuns /\ Goto(r, "scan") /\ UNCHANGED <<waits, barrier, patience>>
     \/ /\ ScanRuns
        /\ Goto(r, "wait")
        /\ waits' = [waits EXCEPT ![r] = @ + 1]
        /\ barrier' = [barrier EXCEPT ![r] = "pending"]
        /\ patience' = [patience EXCEPT ![r] = Patience]

(* Whoever waits for the scan is told. *)
Resolve(result) ==
  /\ barrier' = [q \in Request |-> IF barrier[q] = "pending" THEN result ELSE barrier[q]]
  /\ UNCHANGED <<waits, patience>>

(* The scan is complete; the hook is injected before the verdict is sent. *)
Complete(r) ==
  /\ Step(r, "scan")
  /\ \E v \in {"allow", "block"} : Resolve(v) /\ Goto(r, v)

(* The file could not be read after all. *)
AbortScan(r) ==
  /\ Step(r, "scan")
  /\ Resolve("failed")
  /\ Goto(r, "block")

\* Mutant of Wakes: the wait has no limit.
WakesIfTold(r) == barrier[r] # "pending"

(* The wait is over: with a result, or with none. *)
Wakes(r) == barrier[r] # "pending" \/ patience[r] = 0

WakeUp(r, place) ==
  /\ Goto(r, place)
  /\ barrier' = [barrier EXCEPT ![r] = "none"]
  /\ patience' = [patience EXCEPT ![r] = 0]
  /\ UNCHANGED waits

Woken(r) ==
  /\ Step(r, "wait")
  /\ barrier[r] \in {"allow", "block"}
  /\ WakeUp(r, barrier[r])

(* The second wait was the last. *)
Exhausted(r) == waits[r] = 2

(* After a failed wait the slot is tried once more; after two, block. *)
GiveUp(r) ==
  /\ Step(r, "wait")
  /\ barrier[r] \notin {"allow", "block"}
  /\ Wakes(r)
  /\ WakeUp(r, IF Exhausted(r) THEN "block" ELSE "acquire")

(* broadcast_static_process_verdict; a scan that is not listed yet never learns of
   the verdict. *)
Answer(r) ==
  /\ Agent
  /\ at[r] \in {"allow", "block"}
  /\ Goto(r, "answered")
  /\ verdict' = [verdict EXCEPT ![r] = at[r]]
  /\ heard' = IF gate[r] = "held" THEN heard \cup {r} ELSE heard
  /\ waits' = [waits EXCEPT ![r] = 0]
  /\ UNCHANGED <<pid, gate, expired, cut, over, call, queue, pool, barrier, patience>>

(* The event loop ends, or a thread panics, which aborts the process: all workers are
   gone, and the held call is cancelled. *)
AgentStops ==
  /\ agent = "up"
  /\ agent' = "down" /\ call' = "none"
  /\ pool' = <<>>
  /\ at' = [r \in Request |-> IF at[r] = "pooled" \/ at[r] \in Busy THEN "none" ELSE at[r]]
  /\ waits' = [r \in Request |-> 0]
  /\ barrier' = [r \in Request |-> "none"]
  /\ patience' = [r \in Request |-> 0]
  /\ late' = {} /\ stranded' = {} /\ spent' = [r \in Request |-> 0]
  /\ UNCHANGED <<sensor, queue>>

-----------------------------------------------------------------------------
(* Time. *)

\* Whether something is left to do at once.
Urgent ==
  \/ \E r \in Request : \/ TimedOut(r) \/ (gate[r] = "held" /\ r \in heard)
                        \/ at[r] = "notifying"
  \/ /\ agent = "up"
     /\ \/ call = "none"
        \/ pool # <<>> /\ FreeWorker
        \/ \E r \in Request : \/ at[r] \in Busy \ {"scan", "wait"}
                              \/ at[r] = "wait" /\ Wakes(r)

Less(seconds) == IF seconds > 0 THEN seconds - 1 ELSE 0

Tick ==
  /\ ~Urgent
  /\ \E r \in Request : gate[r] = "held" \/ (agent = "up" /\ at[r] = "wait")
  /\ left' = [r \in Request |-> Less(left[r])]
  /\ patience' = [r \in Request |-> Less(patience[r])]
  /\ late' = late \cup {r \in Request : gate[r] = "held" /\ at[r] = "pooled"}
  /\ stranded' = stranded \cup {r \in Request : gate[r] = "held" /\ at[r] = "queued"}
  /\ spent' = [r \in Request |-> IF gate[r] = "held" /\ at[r] = "scan" THEN spent[r] + 1
                                                                       ELSE spent[r]]
  /\ UNCHANGED <<pid, gate, verdict, expired, cut, over, heard, path, at, waits, barrier>>

Works(r) ==
  \/ Acquire(r) \/ Woken(r) \/ GiveUp(r) \/ Answer(r)

Kernel(r) == Enqueue(r) \/ Verdict(r) \/ Timeout(r)

Next ==
  \/ \E r \in Request : \/ Create(r) \/ Freeze(r) \/ Kernel(r)
                        \/ Works(r) \/ Complete(r) \/ AbortScan(r)
  \/ GetEvent \/ Start \/ AgentStops
  \/ Tick

\* What the event loop and the workers do at once.
AgentWorks == GetEvent \/ Start \/ \E r \in Request : Works(r)

(* Threads run on and time passes.  The requests are few and each takes a few steps, so
   nothing is asked of a single thread.  Nothing is assumed of a scan: it may never end. *)
Fairness ==
  /\ WF_vars(\E r \in Request : Kernel(r))
  /\ WF_vars(AgentWorks)
  /\ WF_vars(Tick)

Spec == Init /\ [][Next]_vars /\ Fairness

-----------------------------------------------------------------------------
(* Properties. *)

(* The wait of the gate for request r ends unanswered. *)
Expires(r) == r \in expired' \ expired

(* How long the agent can have been about r: its waits for the scans of others, and
   its own scan. *)
Delay(r) == waits[r] * ScanWait + spent[r]

(* A process that resumes without its verdict does so because the agent had gone, its
   event was dropped, no worker was free, its event stood in the queue beside a held
   call, the verdict had come before its scan was listed, or its own scan took what its
   waits for the scans of others had left of the kernel's five seconds, which is nothing
   after two.  Nothing else on the way of an event costs a second (notify_agent,
   apc_normal_routine, analyze_event). *)
TimeoutHasReason ==
  [][\A r \in Request : Expires(r) =>
       \/ agent = "down"
       \/ at[r] = "dropped"
       \/ r \in late \cup stranded
       \/ verdict[r] # "none"
       \/ Delay(r) >= KernelWait]_vars

(* The event has been given to the loop, or the loop finds it at its next call: the
   event that is queued beside a held call waits for another to complete that call. *)
Reached(r) == at[r] = "pooled" \/ (at[r] = "queued" /\ call = "none")

(* Every event that reaches the loop, and so every queued one once a held call has been
   completed, is answered in the end, or scanned for, as long as the agent runs: a scan
   that hangs keeps its own worker, but neither those who wait for it nor those behind
   them, who give up after two waits. *)
EventAnswered ==
  \A r \in Request :
    Reached(r) ~> at[r] \in {"answered", "scan"} \/ agent = "down"

(* config.rs:17-18, of SCAN_WAIT_TIMEOUT_SECS: "Must be shorter than the kernel freeze
   APC timeout (5 s)": no process resumes while its request, which was taken from the
   queue and had a worker at once, waits for the scan of another. *)
WaitFallsThrough ==
  [][\A r \in Request :
       Expires(r) /\ agent = "up" /\ at[r] = "wait" => r \in late \cup stranded]_vars
=============================================================================
