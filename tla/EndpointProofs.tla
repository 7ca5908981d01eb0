--------------------------- MODULE EndpointProofs ---------------------------
(***************************************************************************)
(* Theorems about sensor and agent together, for any number of processes,  *)
(* any pool of workers, any size of EVENT_QUEUE and any two limits.        *)
(*                                                                         *)
(* The invariant keeps an account of time: SecondsCounted sets the seconds *)
(* a process has been frozen against those the agent has spent on its      *)
(* request, and what the other parts say is why a tick finds the agent     *)
(* waiting or scanning.                                                    *)
(***************************************************************************)
EXTENDS Endpoint, Integers, FiniteSetTheorems, SequenceTheorems, TLAPS

(* An element of a sequence. *)
In(list, r) == \E i \in 1 .. Len(list) : list[i] = r

(* No element of a sequence stands in it twice. *)
Distinct(list) == \A i, j \in 1 .. Len(list) : list[i] = list[j] => i = j

(* The types of what the gate shares, which TypeOK leaves to FreezeGate. *)
GateTyped ==
  /\ pid \in [Request -> Pid \cup {NoPid}]
  /\ gate \in [Request -> {"none", "held", "resumed", "killed"}]
  /\ verdict \in [Request -> {"none", "allow", "block"}]

(* An event is in one place, and at says where. *)
EventsPlaced ==
  /\ Distinct(queue) /\ Distinct(pool)
  /\ \A r \in Request : /\ at[r] = "queued" <=> In(queue, r)
                        /\ at[r] = "pooled" <=> In(pool, r)

(* Nothing happens to a request before it is created, and while the agent runs its
   event is somewhere afterwards. *)
CreatedFirst ==
  \A r \in Request :
    /\ pid[r] = NoPid => gate[r] = "none" /\ at[r] = "none" /\ verdict[r] = "none"
    /\ agent = "up" /\ pid[r] # NoPid => at[r] # "none"

(* What a call of analyze_event has done when it is at a step. *)
CallsKnown ==
  \A r \in Request :
    /\ waits[r] # 0 => at[r] \in Busy
    /\ at[r] = "acquire" => waits[r] <= 1
    /\ at[r] = "wait" => waits[r] >= 1
    /\ at[r] # "wait" => patience[r] = 0 /\ barrier[r] = "none"
    /\ at[r] = "answered" => verdict[r] # "none"

(* The seconds that have passed since the thread of request r was frozen. *)
Elapsed(r) == KernelWait - left[r]

(* Nothing is measured of a process that is not held. *)
HeldOnly ==
  \A r \in Request :
    /\ gate[r] # "held" => left[r] = 0 /\ spent[r] = 0 /\ r \notin late \cup stranded
    /\ gate[r] = "held" => spent[r] <= Elapsed(r)

(* What nothing excuses is waits and a scan. *)
SecondsCounted ==
  \A r \in Request :
    agent = "up" /\ gate[r] = "held" /\ at[r] # "dropped" /\ r \notin late \cup stranded
      /\ verdict[r] = "none" => Elapsed(r) <= Delay(r) - patience[r]

(* Where the call of analyze_event for a request may be. *)
Place == Busy \cup {"none", "notifying", "queued", "pooled", "dropped", "answered"}

(* The types but for what counts. *)
Typed ==
  /\ left \in [Request -> 0 .. KernelWait]
  /\ heard \subseteq Request /\ expired \subseteq Request
  /\ late \subseteq Request /\ stranded \subseteq Request
  /\ cut = {} /\ over = FALSE
  /\ agent \in {"up", "down"} /\ call \in {"none", "held"}
  /\ queue \in Seq(Request) /\ Len(queue) <= MaxQueue
  /\ pool \in Seq(Request)
  /\ at \in [Request -> Place]
  /\ waits \in [Request -> 0 .. 2]
  /\ barrier \in [Request -> {"none", "pending", "allow", "block", "failed"}]
  /\ patience \in [Request -> 0 .. Patience]
  /\ spent \in [Request -> 0 .. KernelWait]

(* The requests that have a worker. *)
AtWork == {r \in Request : at[r] \in Busy}

(* There are no more of them than workers. *)
WorkersBounded == Cardinality(AtWork) <= Workers

(* One scan at a time, for all processes have one image path. *)
OneScan == \A q, r \in Request : at[q] = "scan" /\ at[r] = "scan" => q = r

(* The inductive invariant. *)
Inv ==
  /\ Typed /\ GateTyped /\ WorkersBounded /\ OneScan /\ EventsPlaced /\ CreatedFirst
  /\ CallsKnown /\ HeldOnly /\ SecondsCounted

-----------------------------------------------------------------------------
(* Numbers, queues and workers. *)

(* The constants are numbers, and no request has the PID of another. *)
LEMMA Numbers ==
  /\ Requests \in Nat /\ Workers \in Nat \ {0} /\ MaxQueue \in Nat \ {0}
  /\ KernelWait \in Nat /\ ScanWait \in Nat /\ Patience = ScanWait
  /\ \A r \in Request : r \in Nat /\ Requests + r \in Pid /\ Requests + r # NoPid
BY EndpointAssumption DEF EndpointAssumption, Patience, Request, Pid, NoPid

(* What notify_agent and the event loop do to a queue: the event is in it, once. *)
LEMMA Appended ==
  ASSUME NEW S, NEW s \in Seq(S), NEW x \in S
  PROVE  /\ Append(s, x) \in Seq(S) /\ Len(Append(s, x)) = Len(s) + 1
         /\ \A y : In(Append(s, x), y) <=> In(s, y) \/ y = x
         /\ Distinct(s) /\ ~ In(s, x) => Distinct(Append(s, x))
<1> DEFINE t == Append(s, x)
<1>1. /\ Len(s) \in Nat /\ t \in Seq(S) /\ Len(t) = Len(s) + 1
      /\ \A i \in 1 .. Len(s) : t[i] = s[i]
      /\ t[Len(s) + 1] = x
  BY AppendProperties, LenProperties
<1> HIDE DEF t
<1>2. \A i \in 1 .. Len(t) : i \in 1 .. Len(s) \/ i = Len(s) + 1
  BY <1>1
<1>3. \A y : In(t, y) <=> In(s, y) \/ y = x
  BY <1>1, <1>2 DEF In
<1>4. Distinct(s) /\ ~ In(s, x) => Distinct(t)
  BY <1>1, <1>2 DEF In, Distinct
<1> QED
  BY <1>1, <1>3, <1>4 DEF t

(* What taking the first event does to a queue that has each once. *)
LEMMA Taken ==
  ASSUME NEW S, NEW s \in Seq(S), s # << >>, Distinct(s)
  PROVE  /\ Head(s) \in S /\ In(s, Head(s))
         /\ Tail(s) \in Seq(S) /\ Len(Tail(s)) = Len(s) - 1
         /\ \A y : In(Tail(s), y) <=> In(s, y) /\ y # Head(s)
         /\ Distinct(Tail(s))
<1> DEFINE t == Tail(s)
<1>1. /\ Len(s) \in Nat \ {0} /\ t \in Seq(S) /\ Len(t) = Len(s) - 1
      /\ \A i \in 1 .. Len(t) : t[i] = s[i + 1]
      /\ Head(s) = s[1] /\ Head(s) \in S
  BY HeadTailProperties, EmptySeq
<1> HIDE DEF t
<1>2. \A i \in 1 .. Len(s) : i = 1 \/ (i - 1 \in 1 .. Len(t) /\ t[i - 1] = s[i])
  BY <1>1
<1>3. \A y : In(t, y) <=> In(s, y) /\ y # Head(s)
  <2>1. ASSUME NEW y, In(t, y) PROVE In(s, y) /\ y # Head(s)
    BY <1>1, <2>1 DEF In, Distinct
  <2>2. ASSUME NEW y, In(s, y), y # Head(s) PROVE In(t, y)
    BY <1>1, <1>2, <2>2 DEF In
  <2> QED
    BY <2>1, <2>2
<1>4. Distinct(t)
  BY <1>1 DEF Distinct
<1>5. In(s, Head(s))
  BY <1>1 DEF In
<1> QED
  BY <1>1, <1>3, <1>4, <1>5 DEF t

(* The workers that are busy can be counted. *)
LEMMA AtWorkFinite == IsFiniteSet(AtWork) /\ Cardinality(AtWork) \in Nat
<1>1. IsFiniteSet(Request)
  BY Numbers, FS_Interval DEF Request
<1>2. AtWork \subseteq Request
  BY DEF AtWork
<1> QED
  BY <1>1, <1>2, FS_Subset, FS_CardinalityType

(* A step that gives no worker a request keeps their bound. *)
LEMMA FewerAtWork ==
  ASSUME Inv, AtWork' \subseteq AtWork
  PROVE  WorkersBounded'
<1>1. IsFiniteSet(AtWork)
  BY AtWorkFinite
<1>2. Cardinality(AtWork') <= Cardinality(AtWork) /\ Cardinality(AtWork) \in Nat
      /\ Cardinality(AtWork') \in Nat
  BY <1>1, FS_Subset, FS_CardinalityType
<1> QED
  BY <1>2, Numbers DEF Inv, WorkersBounded

(* A request goes to another place. *)
LEMMA Moved ==
  ASSUME Typed, NEW r \in Request, NEW place \in Place, Goto(r, place)
  PROVE  /\ at' \in [Request -> Place]
         /\ at'[r] = place /\ \A q \in Request \ {r} : at'[q] = at[q]
BY DEF Typed, Goto

(* The prover does not multiply variables: the few products there are. *)
LEMMA Products ==
  /\ 0 * ScanWait = 0 /\ 1 * ScanWait = ScanWait
  /\ \A w \in 0 .. 2 : w * ScanWait \in Nat
  /\ \A w \in 0 .. 1 : (w + 1) * ScanWait = w * ScanWait + ScanWait
BY Numbers

(* The delay is a number, and grows only with waits and spent. *)
LEMMA DelayIs ==
  ASSUME Typed
  PROVE  /\ \A r \in Request : Delay(r) \in Nat
         /\ \A r \in Request :
              waits'[r] = waits[r] /\ spent'[r] = spent[r] => Delay(r)' = Delay(r)
         /\ \A r \in Request :
              waits'[r] = waits[r] /\ spent'[r] = spent[r] + 1 => Delay(r)' = Delay(r) + 1
         /\ \A r \in Request :
              waits[r] \in 0 .. 1 /\ waits'[r] = waits[r] + 1 /\ spent'[r] = spent[r] =>
                Delay(r)' = Delay(r) + ScanWait
<1>1. \A r \in Request : waits[r] \in 0 .. 2 /\ spent[r] \in Nat
  BY Numbers DEF Typed
<1>2. \A r \in Request : waits[r] * ScanWait \in Nat
  BY <1>1, Products
<1>3. \A r \in Request :
        waits[r] \in 0 .. 1 => (waits[r] + 1) * ScanWait = waits[r] * ScanWait + ScanWait
  BY Products
<1> QED
  BY <1>1, <1>2, <1>3, Numbers DEF Delay

-----------------------------------------------------------------------------
(* Each step of the sensor keeps the invariant. *)

(* The event of a new process goes to the pool, when a call is held, or on its way to
   EVENT_QUEUE. *)
LEMMA CreateKept ==
  ASSUME Inv, NEW r \in Request, Create(r)
  PROVE  Inv'
<1> USE Numbers DEF Inv, Create
<1>1. /\ at[r] = "none" /\ waits[r] = 0 /\ barrier[r] = "none" /\ patience[r] = 0
      /\ ~ In(queue, r) /\ ~ In(pool, r)
  BY DEF Busy, CallsKnown, CreatedFirst, EventsPlaced
<1>2. /\ pid' = [pid EXCEPT ![r] = Requests + r] /\ pid[r] = NoPid
      /\ UNCHANGED <<gate, verdict, expired, cut, over, left, heard, agent, queue,
                     waits, barrier, patience, late, stranded, spent>>
  BY DEF seen
<1>3. /\ at' \in [Request -> Place] /\ at'[r] \in {"pooled", "notifying"}
      /\ \A q \in Request \ {r} : at'[q] = at[q]
  BY Moved DEF Place
<1>4. /\ call' \in {"none", "held"}
      /\ pool' \in Seq(Request) /\ Distinct(pool')
      /\ \A y \in Request : In(pool', y) <=> In(pool, y) \/ (y = r /\ at'[r] = "pooled")
  <2>1. CASE call = "held"
    <3>1. at'[r] = "pooled" /\ pool' = Append(pool, r) /\ call' = "none"
      BY <2>1, Moved DEF Place
    <3>2. /\ Append(pool, r) \in Seq(Request)
          /\ \A y : In(Append(pool, r), y) <=> In(pool, y) \/ y = r
          /\ Distinct(Append(pool, r))
      BY <1>1, Appended DEF EventsPlaced, Typed
    <3> QED
      BY <3>1, <3>2
  <2>2. CASE call # "held"
    <3>1. at'[r] = "notifying" /\ pool' = pool /\ call' = call
      BY <2>2, Moved DEF Place
    <3> QED
      BY <3>1 DEF EventsPlaced, Typed
  <2> QED
    BY <2>1, <2>2
<1> HIDE DEF Create
<1>5. Typed'
  BY <1>2, <1>3, <1>4 DEF Typed
<1>6. GateTyped'
  BY <1>2 DEF GateTyped
<1>7. WorkersBounded'
  <2>1. AtWork' \subseteq AtWork
    BY <1>3 DEF AtWork, Busy
  <2> QED
    BY <2>1, FewerAtWork
<1>8. OneScan'
  BY <1>3 DEF OneScan
<1>9. EventsPlaced'
  BY <1>1, <1>2, <1>3, <1>4 DEF EventsPlaced
<1>10. CreatedFirst'
  BY <1>2, <1>3 DEF CreatedFirst, GateTyped
<1>11. CallsKnown'
  BY <1>1, <1>2, <1>3 DEF CallsKnown
<1>12. HeldOnly'
  BY <1>2 DEF Elapsed, HeldOnly
<1>13. SecondsCounted'
  <2>1. \A q \in Request : Delay(q)' = Delay(q)
    BY <1>2 DEF Delay
  <2>2. gate[r] # "held"
    BY <1>2 DEF CreatedFirst
  <2> QED
    BY <1>2, <1>3, <2>1, <2>2 DEF Elapsed, SecondsCounted
<1> QED
  BY <1>5, <1>6, <1>7, <1>8, <1>9, <1>10, <1>11, <1>12, <1>13

(* The event of a new process goes to the end of EVENT_QUEUE, or is dropped. *)
LEMMA EnqueueKept ==
  ASSUME Inv, NEW r \in Request, Enqueue(r)
  PROVE  Inv'
<1> USE Numbers DEF Inv, Enqueue
<1>1. /\ Append(queue, r) \in Seq(Request) /\ Len(Append(queue, r)) = Len(queue) + 1
      /\ \A y : In(Append(queue, r), y) <=> In(queue, y) \/ y = r
      /\ Distinct(Append(queue, r)) /\ Len(queue) \in Nat /\ ~ In(queue, r)
      /\ ~ In(pool, r)
  BY Appended, LenProperties DEF CreatedFirst, EventsPlaced, Typed
<1>2. \/ queue' = Append(queue, r) /\ Len(queue) < MaxQueue /\ Goto(r, "queued")
      \/ queue' = queue /\ Goto(r, "dropped")
  BY DEF Queued
<1>3. at' \in [Request -> Place] /\ at'[r] \in {"queued", "dropped"}
      /\ \A q \in Request \ {r} : at'[q] = at[q]
  BY <1>2, Moved DEF Place
<1>4. /\ queue' \in Seq(Request) /\ Len(queue') <= MaxQueue /\ Distinct(queue')
      /\ \A y \in Request : In(queue', y) <=> In(queue, y) \/ (y = r /\ at'[r] = "queued")
  <2>1. CASE queue' = Append(queue, r) /\ Len(queue) < MaxQueue /\ Goto(r, "queued")
    <3>1. at'[r] = "queued"
      BY <2>1, Moved DEF Place
    <3>2. Len(queue') <= MaxQueue
      BY <1>1, <2>1, Numbers
    <3>3. queue' \in Seq(Request) /\ Distinct(queue')
      BY <1>1, <2>1
    <3>4. \A y \in Request :
            In(queue', y) <=> In(queue, y) \/ (y = r /\ at'[r] = "queued")
      BY <1>1, <2>1, <3>1
    <3> QED
      BY <3>2, <3>3, <3>4
  <2>2. CASE queue' = queue /\ Goto(r, "dropped")
    <3>1. at'[r] = "dropped"
      BY <2>2, Moved DEF Place
    <3> QED
      BY <2>2, <3>1 DEF EventsPlaced, Typed
  <2> QED
    BY <1>2, <2>1, <2>2
<1>5. at[r] = "notifying" /\ waits[r] = 0 /\ barrier[r] = "none" /\ patience[r] = 0
  BY DEF Busy, CallsKnown
<1>6. UNCHANGED <<pid, gate, verdict, expired, cut, over, left, heard, agent, call, pool,
                  waits, barrier, patience, late, stranded, spent>>
  BY DEF seen, sensor
<1> HIDE DEF Enqueue
<1>7. Typed'
  BY <1>3, <1>4, <1>5, <1>6 DEF Typed
<1>8. GateTyped'
  BY <1>3, <1>4, <1>5, <1>6 DEF GateTyped
<1>9. WorkersBounded'
  <2>1. AtWork' \subseteq AtWork
    BY <1>3 DEF AtWork, Busy
  <2> QED
    BY <2>1, FewerAtWork
<1>10. OneScan'
  BY <1>3, <1>4, <1>5, <1>6 DEF OneScan
<1>11. EventsPlaced'
  BY <1>1, <1>3, <1>4, <1>5, <1>6 DEF EventsPlaced
<1>12. CreatedFirst'
  BY <1>3, <1>4, <1>5, <1>6 DEF CreatedFirst, GateTyped
<1>13. CallsKnown'
  BY <1>3, <1>4, <1>5, <1>6 DEF CallsKnown
<1>14. HeldOnly'
  BY <1>3, <1>4, <1>5, <1>6 DEF Elapsed, HeldOnly
<1>15. SecondsCounted'
  <2>1. \A q \in Request : Delay(q)' = Delay(q)
    BY <1>6 DEF Delay
  <2> QED
    BY <1>3, <1>5, <1>6, <2>1 DEF Elapsed, SecondsCounted
<1> QED
  BY <1>7, <1>8, <1>9, <1>10, <1>11, <1>12, <1>13, <1>14, <1>15

(* A process that is frozen has been so for no time at all. *)
LEMMA FreezeKept ==
  ASSUME Inv, NEW r \in Request, Freeze(r)
  PROVE  Inv'
<1> USE Numbers DEF Inv, Freeze, path, seen
<1>1. Typed'
  <2>1. left' \in [Request -> 0 .. KernelWait]
    BY DEF Typed
  <2>2. UNCHANGED <<heard, expired, late, stranded, cut, over, agent, call, queue, pool, at,
                    waits, barrier, patience, spent>>
    BY DEF Gate!Hold, work
  <2> QED
    BY <2>1, <2>2 DEF Typed
<1>2. GateTyped'
  BY DEF Gate!Hold, GateTyped
<1>3. WorkersBounded'
  BY FewerAtWork DEF AtWork, work
<1>4. OneScan'
  BY DEF OneScan, work
<1>5. EventsPlaced'
  BY DEF EventsPlaced, work
<1>6. CreatedFirst'
  BY DEF CreatedFirst, Gate!Hold, work
<1>7. CallsKnown'
  BY DEF CallsKnown, Gate!Hold, work
<1>8. HeldOnly'
  BY DEF Elapsed, Gate!Hold, GateTyped, HeldOnly
<1>9. SecondsCounted'
  <2>1. \A q \in Request : Delay(q) \in Nat /\ Delay(q)' = Delay(q)
    BY DelayIs DEF work
  <2>2. left'[r] = KernelWait /\ patience[r] <= Delay(r)
    <3>1. waits[r] >= 1 => Delay(r) >= ScanWait
      <4>1. waits[r] \in 0 .. 2 /\ spent[r] \in Nat
        BY DEF Typed
      <4>2. waits[r] >= 1 => waits[r] * ScanWait >= ScanWait
        <5>1. waits[r] = 1 \/ waits[r] = 2 \/ waits[r] = 0
          BY <4>1
        <5>2. 2 * ScanWait >= ScanWait
          BY Numbers
        <5> QED
          BY <5>1, <5>2, Products
      <4> QED
        BY <4>1, <4>2, Products DEF Delay
    <3> QED
      BY <2>1, <3>1 DEF CallsKnown, Typed
  <2>3. \A q \in Request \ {r} : left'[q] = left[q] /\ gate'[q] = gate[q]
    BY DEF Gate!Hold
  <2>4. /\ agent' = agent /\ at' = at /\ late' = late /\ verdict' = verdict
        /\ stranded' = stranded
        /\ patience' = patience
    BY DEF Gate!Hold, work
  <2>5. \A q \in Request \ {r} : Elapsed(q)' = Elapsed(q)
    BY <2>3 DEF Elapsed
  <2>6. Elapsed(r)' <= Delay(r)' - patience'[r]
    <3>1. Elapsed(r)' = 0
      BY <2>2, Numbers DEF Elapsed
    <3>2. patience[r] \in Nat
      BY DEF Typed
    <3> QED
      BY <2>1, <2>2, <2>4, <3>1, <3>2
  <2>7. ASSUME NEW q \in Request, agent' = "up", gate'[q] = "held", at'[q] # "dropped",
               q \notin late' \cup stranded', verdict'[q] = "none"
        PROVE  Elapsed(q)' <= Delay(q)' - patience'[q]
    <3>1. CASE q = r
      BY <2>6, <3>1
    <3>2. CASE q # r
      BY <2>1, <2>3, <2>4, <2>5, <2>7, <3>2 DEF SecondsCounted
    <3> QED
      BY <3>1, <3>2
  <2> QED
    BY <2>7 DEF SecondsCounted
<1> QED
  BY <1>1, <1>2, <1>3, <1>4, <1>5, <1>6, <1>7, <1>8, <1>9

(* A process whose verdict has come is no longer held. *)
LEMMA VerdictKept ==
  ASSUME Inv, NEW r \in Request, Verdict(r)
  PROVE  Inv'
<1> USE Numbers DEF Inv, Verdict, path, seen
<1>1. Typed'
  <2>1. UNCHANGED <<expired, cut, over>>
    BY DEF Gate!Ends, Gate!Kill, Gate!Resume
  <2>2. UNCHANGED <<agent, call, queue, pool, at, waits, barrier, patience>>
    BY DEF Thaw, work
  <2>3. /\ left' \in [Request -> 0 .. KernelWait] /\ spent' \in [Request -> 0 .. KernelWait]
        /\ heard' \subseteq Request /\ late' \subseteq Request
        /\ stranded' \subseteq Request
    BY DEF Thaw, Typed
  <2> QED
    BY <2>1, <2>2, <2>3 DEF Typed
<1>2. GateTyped'
  BY DEF Gate!Ends, Gate!Kill, Gate!Resume, GateTyped
<1>3. WorkersBounded'
  BY FewerAtWork DEF AtWork, Thaw, work
<1>4. OneScan'
  BY DEF OneScan, Thaw, work
<1>5. EventsPlaced'
  BY DEF EventsPlaced, Thaw, work
<1>6. CreatedFirst'
  BY DEF CreatedFirst, Gate!Ends, Gate!Kill, Gate!Resume, GateTyped, Thaw, work
<1>7. CallsKnown'
  BY DEF CallsKnown, Gate!Ends, Gate!Kill, Gate!Resume, Thaw, work
<1>8. HeldOnly'
  BY DEF Elapsed, Gate!Ends, Gate!Kill, Gate!Resume, GateTyped, HeldOnly, Thaw, Typed
<1>9. SecondsCounted'
  <2>1. \A q \in Request : gate'[q] = "held" => q # r /\ gate[q] = "held"
    BY DEF Gate!Ends, Gate!Kill, Gate!Resume, GateTyped
  <2>2. \A q \in Request \ {r} :
          Delay(q)' = Delay(q) /\ left'[q] = left[q] /\ (q \in late => q \in late')
          /\ (q \in stranded => q \in stranded')
    BY DelayIs DEF Thaw, work
  <2>3. UNCHANGED <<agent, at, verdict, patience>>
    BY DEF Gate!Ends, Gate!Kill, Gate!Resume, Thaw, work
  <2> QED
    BY <2>1, <2>2, <2>3 DEF Elapsed, SecondsCounted
<1> QED
  BY <1>1, <1>2, <1>3, <1>4, <1>5, <1>6, <1>7, <1>8, <1>9

(* A process whose wait has timed out is no longer held. *)
LEMMA TimeoutKept ==
  ASSUME Inv, NEW r \in Request, Timeout(r)
  PROVE  Inv'
<1> USE Numbers DEF Inv, Timeout, path, seen
<1>1. Typed'
  BY DEF Thaw, Typed, work
<1>2. GateTyped'
  BY DEF GateTyped
<1>3. WorkersBounded'
  BY FewerAtWork DEF AtWork, Thaw, work
<1>4. OneScan'
  BY DEF OneScan, Thaw, work
<1>5. EventsPlaced'
  BY DEF EventsPlaced, Thaw, work
<1>6. CreatedFirst'
  BY DEF CreatedFirst, Thaw, TimedOut, work
<1>7. CallsKnown'
  BY DEF CallsKnown, Thaw, work
<1>8. HeldOnly'
  BY DEF Elapsed, HeldOnly, Thaw, Typed
<1>9. SecondsCounted'
  BY DEF Delay, Elapsed, GateTyped, SecondsCounted, Thaw, work
<1> QED
  BY <1>1, <1>2, <1>3, <1>4, <1>5, <1>6, <1>7, <1>8, <1>9

-----------------------------------------------------------------------------
(* Each step of the agent. *)

(* try_acquire_scan: a wait that begins adds its limit to what the agent may take,
   and to what is left of it. *)
LEMMA AcquireKept ==
  ASSUME Inv, NEW r \in Request, Acquire(r)
  PROVE  Inv'
<1> USE Numbers DEF Inv, Acquire
<1>1. at[r] = "acquire" /\ waits[r] \in 0 .. 1 /\ patience[r] = 0
  BY DEF CallsKnown, Step, Typed
<1>2. at' \in [Request -> Place] /\ at'[r] \in Busy \ {"acquire"}
      /\ \A q \in Request \ {r} : at'[q] = at[q]
  BY Moved DEF Busy, Place
<1>3. at'[r] = "scan" => \A q \in Request : at[q] # "scan"
  BY Moved DEF Busy, Place, ScanRuns
<1>4. \/ at'[r] # "wait" /\ UNCHANGED <<waits, barrier, patience>>
      \/ /\ at'[r] = "wait"
         /\ waits' = [waits EXCEPT ![r] = @ + 1]
         /\ barrier' = [barrier EXCEPT ![r] = "pending"]
         /\ patience' = [patience EXCEPT ![r] = Patience]
  BY Moved DEF Busy, Place
<1>5. /\ agent = "up"
      /\ UNCHANGED <<sensor, call, queue, pool, agent, left, late, stranded, spent>>
  BY DEF Agent, Step, seen
<1> HIDE DEF Acquire
<1>6. Typed'
  <2>1. /\ waits' \in [Request -> 0 .. 2] /\ patience' \in [Request -> 0 .. Patience]
        /\ barrier' \in [Request -> {"none", "pending", "allow", "block", "failed"}]
    <3>1. CASE UNCHANGED <<waits, barrier, patience>>
      BY <3>1 DEF Typed
    <3>2. CASE /\ waits' = [waits EXCEPT ![r] = @ + 1]
               /\ barrier' = [barrier EXCEPT ![r] = "pending"]
               /\ patience' = [patience EXCEPT ![r] = Patience]
      BY <1>1, <3>2 DEF Typed
    <3> QED
      BY <1>4, <3>1, <3>2
  <2> QED
    BY <1>2, <1>5, <2>1 DEF Typed, sensor
<1>7. GateTyped'
  BY <1>5 DEF GateTyped, sensor
<1>8. WorkersBounded'
  <2>1. AtWork' \subseteq AtWork
    BY <1>1, <1>2 DEF AtWork, Busy
  <2> QED
    BY <2>1, FewerAtWork
<1>9. OneScan'
  BY <1>2, <1>3 DEF OneScan
<1>10. EventsPlaced'
  BY <1>1, <1>2, <1>5 DEF Busy, EventsPlaced
<1>11. CreatedFirst'
  BY <1>1, <1>2, <1>5 DEF Busy, CreatedFirst, sensor
<1>12. CallsKnown'
  <2>1. \A q \in Request \ {r} :
          waits'[q] = waits[q] /\ patience'[q] = patience[q] /\ barrier'[q] = barrier[q]
    BY <1>4 DEF Typed
  <2>2. CASE at'[r] # "wait"
    BY <1>1, <1>2, <1>4, <1>5, <2>1, <2>2 DEF Busy, CallsKnown, sensor
  <2>3. CASE at'[r] = "wait"
    <3>1. waits'[r] = waits[r] + 1
      BY <1>4, <2>3 DEF Typed
    <3> QED
      BY <1>1, <1>2, <1>5, <2>1, <2>3, <3>1 DEF CallsKnown, sensor
  <2> QED
    BY <2>2, <2>3
<1>13. HeldOnly'
  BY <1>5 DEF Elapsed, HeldOnly, sensor
<1>14. SecondsCounted'
  <2>1. \A q \in Request : Delay(q)' - patience'[q] = Delay(q) - patience[q]
    <3>1. CASE UNCHANGED <<waits, patience>>
      BY <1>5, <3>1, DelayIs
    <3>2. CASE /\ waits' = [waits EXCEPT ![r] = @ + 1]
               /\ patience' = [patience EXCEPT ![r] = Patience]
      <4>1. Delay(r)' = Delay(r) + ScanWait /\ Delay(r) \in Nat
        BY <1>1, <1>5, <3>2, DelayIs DEF Typed
      <4>2. \A q \in Request \ {r} : Delay(q)' = Delay(q) /\ patience'[q] = patience[q]
        BY <1>5, <3>2, DelayIs
      <4>3. patience'[r] = ScanWait
        BY <3>2 DEF Typed
      <4> QED
        BY <1>1, <4>1, <4>2, <4>3
    <3> QED
      BY <1>4, <3>1, <3>2
  <2> QED
    BY <1>1, <1>2, <1>5, <2>1 DEF Elapsed, SecondsCounted, sensor
<1> QED
  BY <1>6, <1>7, <1>8, <1>9, <1>10, <1>11, <1>12, <1>13, <1>14

(* A wait that ends with a result is over before its limit. *)
LEMMA WokenKept ==
  ASSUME Inv, NEW r \in Request, Woken(r)
  PROVE  Inv'
<1> USE Numbers DEF Inv, Woken, seen
<1>1. Typed'
  BY DEF Agent, Busy, Goto, Place, Step, Typed, WakeUp, sensor
<1>2. GateTyped'
  BY DEF GateTyped, Step, sensor
<1>3. WorkersBounded'
  BY FewerAtWork DEF AtWork, Busy, Goto, Step, WakeUp
<1>4. OneScan'
  BY DEF Goto, OneScan, WakeUp
<1>5. EventsPlaced'
  BY DEF EventsPlaced, Goto, Step, WakeUp
<1>6. CreatedFirst'
  BY DEF Agent, CreatedFirst, Goto, Step, WakeUp, sensor
<1>7. CallsKnown'
  BY DEF Busy, CallsKnown, Goto, Step, Typed, WakeUp, sensor
<1>8. HeldOnly'
  BY DEF Agent, Elapsed, HeldOnly, Step, sensor
<1>9. SecondsCounted'
  <2>1. \A q \in Request : Delay(q)' = Delay(q) /\ Delay(q) \in Nat
    BY DelayIs DEF Agent, Step, WakeUp
  <2>2. at'[r] # "dropped" /\ at[r] # "dropped" /\ patience'[r] = 0
        /\ \A q \in Request \ {r} : at'[q] = at[q] /\ patience'[q] = patience[q]
    BY DEF Goto, Step, Typed, WakeUp
  <2>3. \A q \in Request : patience[q] \in Nat /\ left[q] \in Nat
    BY DEF Typed
  <2> QED
    BY <2>1, <2>2, <2>3 DEF Agent, Elapsed, SecondsCounted, Step, sensor
<1> QED
  BY <1>1, <1>2, <1>3, <1>4, <1>5, <1>6, <1>7, <1>8, <1>9

(* A wait that ends without a result has used its limit up, or failed earlier. *)
LEMMA GiveUpKept ==
  ASSUME Inv, NEW r \in Request, GiveUp(r)
  PROVE  Inv'
<1> USE Numbers DEF Inv, GiveUp, seen
<1>1. Typed'
  BY DEF Agent, Busy, Goto, Place, Step, Typed, WakeUp, sensor
<1>2. GateTyped'
  BY DEF GateTyped, Step, sensor
<1>3. WorkersBounded'
  BY FewerAtWork DEF AtWork, Busy, Goto, Step, WakeUp
<1>4. OneScan'
  BY DEF Goto, OneScan, WakeUp
<1>5. EventsPlaced'
  BY DEF EventsPlaced, Goto, Step, WakeUp
<1>6. CreatedFirst'
  BY DEF Agent, CreatedFirst, Goto, Step, WakeUp, sensor
<1>7. CallsKnown'
  BY DEF Busy, CallsKnown, Exhausted, Goto, Step, Typed, WakeUp, sensor
<1>8. HeldOnly'
  BY DEF Agent, Elapsed, HeldOnly, Step, sensor
<1>9. SecondsCounted'
  <2>1. \A q \in Request : Delay(q)' = Delay(q) /\ Delay(q) \in Nat
    BY DelayIs DEF Agent, Step, WakeUp
  <2>2. at'[r] # "dropped" /\ at[r] # "dropped" /\ patience'[r] = 0
        /\ \A q \in Request \ {r} : at'[q] = at[q] /\ patience'[q] = patience[q]
    BY DEF Goto, Step, Typed, WakeUp
  <2>3. \A q \in Request : patience[q] \in Nat /\ left[q] \in Nat
    BY DEF Typed
  <2> QED
    BY <2>1, <2>2, <2>3 DEF Agent, Elapsed, SecondsCounted, Step, sensor
<1> QED
  BY <1>1, <1>2, <1>3, <1>4, <1>5, <1>6, <1>7, <1>8, <1>9

(* A request that is answered has a verdict; nothing is counted of it any more. *)
LEMMA AnswerKept ==
  ASSUME Inv, NEW r \in Request, Answer(r)
  PROVE  Inv'
<1> USE Numbers DEF Inv, Answer, seen
<1>1. at' \in [Request -> Place]
  BY Moved DEF Place
<1>2. waits' \in [Request -> 0 .. 2] /\ heard' \subseteq Request
  BY DEF Typed
<1>3. Typed'
  BY <1>1, <1>2 DEF Agent, Typed
<1>4. GateTyped'
  BY DEF GateTyped
<1>5. WorkersBounded'
  BY FewerAtWork DEF AtWork, Busy, Goto
<1>6. OneScan'
  BY DEF Goto, OneScan
<1>7. EventsPlaced'
  BY DEF EventsPlaced, Goto
<1>8. CreatedFirst'
  BY DEF Agent, CreatedFirst, Goto
<1>9. CallsKnown'
  BY DEF CallsKnown, GateTyped, Goto, Typed
<1>10. HeldOnly'
  BY DEF Agent, Elapsed, HeldOnly
<1>11. SecondsCounted'
  BY DEF Agent, Delay, Elapsed, GateTyped, Goto, SecondsCounted
<1> QED
  BY <1>3, <1>4, <1>5, <1>6, <1>7, <1>8, <1>9, <1>10, <1>11

(* The scan is over, and those who wait for it have a result. *)
LEMMA CompleteKept ==
  ASSUME Inv, NEW r \in Request, Complete(r)
  PROVE  Inv'
<1> USE Numbers DEF Inv, Complete, seen
<1>1. at' \in [Request -> Place]
  BY Moved DEF Busy, Place
<1>2. barrier' \in [Request -> {"none", "pending", "allow", "block", "failed"}]
  BY DEF Resolve, Typed
<1>3. Typed'
  BY <1>1, <1>2 DEF Agent, Resolve, Step, Typed, sensor
<1>4. GateTyped'
  BY DEF GateTyped, Step, sensor
<1>5. WorkersBounded'
  BY FewerAtWork DEF AtWork, Busy, Goto, Step
<1>6. OneScan'
  BY DEF Goto, OneScan
<1>7. EventsPlaced'
  BY DEF EventsPlaced, Goto, Step
<1>8. CreatedFirst'
  BY DEF Agent, CreatedFirst, Goto, Step, sensor
<1>9. CallsKnown'
  BY DEF Busy, CallsKnown, Goto, Resolve, Step, sensor
<1>10. HeldOnly'
  BY DEF Agent, Elapsed, HeldOnly, Step, sensor
<1>11. SecondsCounted'
  BY DEF Agent, Delay, Elapsed, Goto, Resolve, SecondsCounted, Step, sensor
<1> QED
  BY <1>3, <1>4, <1>5, <1>6, <1>7, <1>8, <1>9, <1>10, <1>11

(* The scan has failed, and those who wait for it know. *)
LEMMA AbortScanKept ==
  ASSUME Inv, NEW r \in Request, AbortScan(r)
  PROVE  Inv'
<1> USE Numbers DEF Inv, AbortScan, seen
<1>1. Typed'
  BY DEF Agent, Busy, Goto, Place, Resolve, Step, Typed, sensor
<1>2. GateTyped'
  BY DEF GateTyped, Step, sensor
<1>3. WorkersBounded'
  BY FewerAtWork DEF AtWork, Busy, Goto, Step
<1>4. OneScan'
  BY DEF Goto, OneScan
<1>5. EventsPlaced'
  BY DEF EventsPlaced, Goto, Step
<1>6. CreatedFirst'
  BY DEF Agent, CreatedFirst, Goto, Step, sensor
<1>7. CallsKnown'
  BY DEF Busy, CallsKnown, Goto, Resolve, Step, sensor
<1>8. HeldOnly'
  BY DEF Agent, Elapsed, HeldOnly, Step, sensor
<1>9. SecondsCounted'
  BY DEF Agent, Delay, Elapsed, Goto, Resolve, SecondsCounted, Step, sensor
<1> QED
  BY <1>1, <1>2, <1>3, <1>4, <1>5, <1>6, <1>7, <1>8, <1>9

(* With the queue empty, the call of the event loop is held. *)
LEMMA CallHeldKept ==
  ASSUME Inv, GetEvent, queue = << >>
  PROVE  Inv'
<1>1. /\ call' \in {"none", "held"}
      /\ UNCHANGED <<sensor, agent, queue, pool, at, left, late, stranded, spent, waits,
                     barrier, patience>>
  BY DEF Agent, GetEvent, seen
<1> USE Numbers, <1>1 DEF Inv
<1>2. Typed'
  BY DEF Typed, sensor
<1>3. GateTyped' /\ CreatedFirst' /\ CallsKnown'
  BY DEF GateTyped, CreatedFirst, CallsKnown, sensor
<1>4. WorkersBounded'
  BY DEF AtWork, WorkersBounded
<1>5. OneScan' /\ EventsPlaced' /\ HeldOnly'
  BY DEF OneScan, EventsPlaced, HeldOnly, Elapsed, sensor
<1>6. SecondsCounted'
  BY DEF SecondsCounted, Elapsed, Delay, sensor
<1> QED
  BY <1>2, <1>3, <1>4, <1>5, <1>6

(* Otherwise the loop moves its first event to the pool. *)
LEMMA EventTakenKept ==
  ASSUME Inv, GetEvent, queue # << >>
  PROVE  Inv'
<1> USE Numbers DEF Inv
<1> DEFINE h == Head(queue)
<1>0. /\ queue' = Tail(queue) /\ pool' = Append(pool, h) /\ Goto(h, "pooled")
      /\ UNCHANGED call
  BY DEF GetEvent
<1>1. /\ h \in Request /\ In(queue, h) /\ ~ In(pool, h)
      /\ queue' \in Seq(Request) /\ Len(queue') = Len(queue) - 1 /\ Len(queue) \in Nat
      /\ \A y : In(queue', y) <=> In(queue, y) /\ y # h
      /\ Distinct(queue')
  <2>1. queue \in Seq(Request) /\ Distinct(queue)
    BY DEF EventsPlaced, Typed
  <2>2. h \in Request /\ In(queue, h)
    BY <2>1, Taken
  <2>3. ~ In(pool, h)
    BY <2>2 DEF EventsPlaced
  <2> QED
    BY <1>0, <2>1, <2>2, <2>3, Taken, LenProperties
<1>2. /\ pool' \in Seq(Request)
      /\ \A y : In(pool', y) <=> In(pool, y) \/ y = h
      /\ Distinct(pool')
  <2>1. pool \in Seq(Request) /\ Distinct(pool)
    BY DEF EventsPlaced, Typed
  <2> HIDE DEF h, Inv
  <2> QED
    BY <1>0, <1>1, <2>1, Appended
<1>3. at' \in [Request -> Place] /\ at'[h] = "pooled"
      /\ \A q \in Request \ {h} : at'[q] = at[q]
  BY <1>0, <1>1, Moved DEF Place
<1>4. at[h] = "queued" /\ waits[h] = 0 /\ barrier[h] = "none" /\ patience[h] = 0
  BY <1>1 DEF Busy, CallsKnown, EventsPlaced
<1>5. /\ agent = "up"
      /\ UNCHANGED <<sensor, agent, call, left, late, stranded, spent, waits, barrier,
                     patience>>
  BY <1>0 DEF Agent, GetEvent, seen
<1> HIDE DEF h
<1>6. Typed'
  <2>1. Len(queue') <= MaxQueue
    BY <1>1 DEF Typed
  <2> QED
    BY <1>1, <1>2, <1>3, <1>5, <2>1 DEF Typed, sensor
<1>7. GateTyped'
  BY <1>5 DEF GateTyped, sensor
<1>8. WorkersBounded'
  <2>1. AtWork' \subseteq AtWork
    BY <1>1, <1>3 DEF AtWork, Busy
  <2> QED
    BY <2>1, FewerAtWork
<1>9. OneScan'
  BY <1>1, <1>3 DEF OneScan
<1>10. EventsPlaced'
  BY <1>1, <1>2, <1>3, <1>4, <1>5 DEF EventsPlaced
<1>11. CreatedFirst'
  BY <1>1, <1>2, <1>3, <1>4, <1>5 DEF CreatedFirst, sensor
<1>12. CallsKnown'
  BY <1>1, <1>3, <1>4, <1>5 DEF CallsKnown, sensor
<1>13. HeldOnly'
  BY <1>5 DEF Elapsed, HeldOnly, sensor
<1>14. SecondsCounted'
  <2>1. \A q \in Request : Delay(q)' = Delay(q)
    BY <1>5, DelayIs
  <2> QED
    BY <1>1, <1>3, <1>4, <1>5, <2>1 DEF Elapsed, SecondsCounted, sensor
<1> QED
  BY <1>6, <1>7, <1>8, <1>9, <1>10, <1>11, <1>12, <1>13, <1>14

(* A worker that is free takes the first event of the pool. *)
LEMMA StartKept ==
  ASSUME Inv, Start
  PROVE  Inv'
<1> USE Numbers DEF Inv, Start
<1> DEFINE h == Head(pool)
<1>1. /\ h \in Request /\ In(pool, h) /\ ~ In(queue, h)
      /\ pool' \in Seq(Request)
      /\ \A y : In(pool', y) <=> In(pool, y) /\ y # h
      /\ Distinct(pool')
  BY Taken DEF EventsPlaced, Typed
<1>2. at' \in [Request -> Place] /\ at'[h] \in {"block", "acquire"}
      /\ \A q \in Request \ {h} : at'[q] = at[q]
  BY <1>1, Moved DEF Busy, Place
<1>3. at[h] = "pooled" /\ waits[h] = 0 /\ barrier[h] = "none" /\ patience[h] = 0
  BY <1>1 DEF Busy, CallsKnown, EventsPlaced
<1>4. /\ agent = "up"
      /\ UNCHANGED <<sensor, agent, call, left, late, stranded, spent, waits, barrier,
                     patience, queue>>
  BY DEF Agent, seen
<1>5. Cardinality(AtWork) < Workers
  BY DEF AtWork, FreeWorker
<1> HIDE DEF h, Start
<1>6. Typed'
  BY <1>1, <1>2, <1>3, <1>4 DEF Typed, sensor
<1>7. GateTyped'
  BY <1>4 DEF GateTyped, sensor
<1>8. WorkersBounded'
  <2>1. AtWork' \subseteq AtWork \cup {h}
    BY <1>1, <1>2 DEF AtWork
  <2>2. IsFiniteSet(AtWork) /\ Cardinality(AtWork) \in Nat
    BY AtWorkFinite
  <2>3. /\ IsFiniteSet(AtWork \cup {h})
        /\ Cardinality(AtWork \cup {h}) = IF h \in AtWork THEN Cardinality(AtWork)
                                                         ELSE Cardinality(AtWork) + 1
    BY <2>2, FS_AddElement
  <2>4. Cardinality(AtWork') <= Cardinality(AtWork \cup {h})
        /\ Cardinality(AtWork') \in Nat /\ Cardinality(AtWork \cup {h}) \in Nat
    BY <2>1, <2>3, FS_Subset, FS_CardinalityType
  <2> QED
    BY <1>5, <2>2, <2>3, <2>4 DEF WorkersBounded
<1>9. OneScan'
  BY <1>1, <1>2 DEF OneScan
<1>10. EventsPlaced'
  BY <1>1, <1>2, <1>3, <1>4 DEF EventsPlaced
<1>11. CreatedFirst'
  BY <1>1, <1>2, <1>3, <1>4 DEF CreatedFirst, sensor
<1>12. CallsKnown'
  BY <1>1, <1>2, <1>3, <1>4 DEF CallsKnown, sensor
<1>13. HeldOnly'
  BY <1>4 DEF Elapsed, HeldOnly, sensor
<1>14. SecondsCounted'
  <2>1. \A q \in Request : Delay(q)' = Delay(q)
    BY <1>4, DelayIs
  <2> QED
    BY <1>1, <1>2, <1>3, <1>4, <2>1 DEF Elapsed, SecondsCounted, sensor
<1> QED
  BY <1>6, <1>7, <1>8, <1>9, <1>10, <1>11, <1>12, <1>13, <1>14

(* The end of the agent leaves no request at work. *)
LEMMA AgentStopsKept ==
  ASSUME Inv, AgentStops
  PROVE  Inv'
<1> USE Numbers DEF Inv, AgentStops
<1>1. pool' \in Seq(Request) /\ Distinct(pool') /\ \A y : ~ In(pool', y)
  BY EmptySeq DEF Distinct, In
<1>2. Typed'
  BY <1>1 DEF Place, Typed, sensor
<1>3. GateTyped'
  BY <1>1 DEF GateTyped, sensor
<1>4. WorkersBounded'
  BY FewerAtWork DEF AtWork, Busy
<1>5. OneScan'
  BY <1>1 DEF OneScan
<1>6. EventsPlaced'
  BY <1>1 DEF Busy, EventsPlaced
<1>7. CreatedFirst'
  BY <1>1 DEF CreatedFirst, sensor
<1>8. CallsKnown'
  BY <1>1 DEF CallsKnown, sensor
<1>9. HeldOnly'
  BY <1>1 DEF Elapsed, HeldOnly, Typed, sensor
<1>10. SecondsCounted'
  BY <1>1 DEF SecondsCounted
<1> QED
  BY <1>2, <1>3, <1>4, <1>5, <1>6, <1>7, <1>8, <1>9, <1>10

-----------------------------------------------------------------------------
(* Time. *)

(* A second passes only when each request that is held and has neither a verdict
   nor an excuse waits, with patience left, or is scanned: the one uses up
   patience, the other is counted as spent. *)
LEMMA TickKept ==
  ASSUME Inv, Tick
  PROVE  Inv'
<1> USE Numbers DEF Inv, Tick, path
<1>1. \A q \in Request :
        /\ left[q] \in Nat /\ left[q] <= KernelWait /\ left'[q] = Less(left[q])
        /\ patience[q] \in Nat /\ patience[q] <= ScanWait
        /\ patience'[q] = Less(patience[q])
  BY DEF Typed
<1>2. \A q \in Request : gate[q] = "held" => left[q] # 0
  BY DEF TimedOut, Urgent
<1>3. \A q \in Request : agent = "up" =>
        /\ at[q] \notin Busy \ {"scan", "wait"}
        /\ at[q] = "wait" => patience[q] # 0
        /\ at[q] # "notifying"
  BY DEF Urgent, Wakes
<1>4. /\ \A q \in Request :
           spent'[q] = IF gate[q] = "held"
           /\ at[q] = "scan" THEN spent[q] + 1 ELSE spent[q]
      /\ late' = late \cup {q \in Request : gate[q] = "held" /\ at[q] = "pooled"}
      /\ stranded' = stranded \cup {q \in Request : gate[q] = "held" /\ at[q] = "queued"}
      /\ UNCHANGED <<pid, gate, verdict, expired, cut, over, heard, agent, call, queue,
                     pool, at, waits, barrier>>
  OBVIOUS
<1>5. /\ left' = [q \in Request |-> left'[q]]
      /\ patience' = [q \in Request |-> patience'[q]]
      /\ spent' = [q \in Request |-> spent'[q]]
  OBVIOUS
<1> HIDE DEF Tick
<1>6. \A q \in Request : /\ left'[q] \in 0 .. KernelWait
                         /\ left[q] = 0 => left'[q] = 0
                         /\ gate[q] = "held" => left'[q] = left[q] - 1
  <2> TAKE q \in Request
  <2> QED
    BY <1>1, <1>2 DEF Less
<1>7. \A q \in Request : /\ patience'[q] \in 0 .. ScanWait
                         /\ patience[q] = 0 => patience'[q] = 0
                         /\ patience[q] # 0 => patience'[q] = patience[q] - 1
  <2> TAKE q \in Request
  <2> QED
    BY <1>1 DEF Less
<1>8. \A q \in Request : /\ spent'[q] \in 0 .. KernelWait
                         /\ gate[q] = "held" => spent'[q] <= KernelWait - left'[q]
  <2> TAKE q \in Request
  <2>1. spent[q] \in 0 .. KernelWait
        /\ (gate[q] = "held" => spent[q] <= KernelWait - left[q])
    BY DEF Elapsed, HeldOnly, Typed
  <2>2. left[q] \in Nat /\ (gate[q] = "held" => left'[q] = left[q] - 1)
    BY <1>1, <1>6
  <2>3. spent'[q] = IF gate[q] = "held" /\ at[q] = "scan" THEN spent[q] + 1 ELSE spent[q]
    BY <1>4
  <2>4. left'[q] \in 0 .. KernelWait
    BY <1>6
  <2> HIDE DEF Inv
  <2> QED
    BY <2>1, <2>2, <2>3, <2>4
<1>9. Typed'
  <2>1. /\ left' \in [Request -> 0 .. KernelWait]
        /\ patience' \in [Request -> 0 .. Patience]
        /\ spent' \in [Request -> 0 .. KernelWait]
        /\ late' \subseteq Request /\ stranded' \subseteq Request
    <3>1. \A q \in Request :
            left'[q] \in 0 .. KernelWait /\ patience'[q] \in 0 .. Patience
                            /\ spent'[q] \in 0 .. KernelWait
      BY <1>6, <1>7, <1>8
    <3>2. late' \subseteq Request /\ stranded' \subseteq Request
      BY <1>4 DEF Typed
    <3>3. left' \in [Request -> 0 .. KernelWait]
      BY <1>5, <3>1
    <3>4. patience' \in [Request -> 0 .. Patience]
      BY <1>5, <3>1
    <3>5. spent' \in [Request -> 0 .. KernelWait]
      BY <1>5, <3>1
    <3> QED
      BY <3>2, <3>3, <3>4, <3>5
  <2> QED
    BY <1>4, <2>1 DEF Typed
<1>10. GateTyped'
  BY <1>4 DEF GateTyped
<1>11. WorkersBounded'
  BY <1>4, FewerAtWork DEF AtWork
<1>12. OneScan'
  BY <1>4 DEF OneScan
<1>13. EventsPlaced'
  BY <1>4 DEF EventsPlaced
<1>14. CreatedFirst'
  BY <1>4 DEF CreatedFirst
<1>15. CallsKnown'
  BY <1>4, <1>7 DEF CallsKnown
<1>16. HeldOnly'
  BY <1>4, <1>6, <1>8 DEF Elapsed, HeldOnly
<1>17. SecondsCounted'
  <2> SUFFICES ASSUME NEW r \in Request, agent = "up", gate[r] = "held",
                           at[r] # "dropped", r \notin late' \cup stranded',
                           verdict[r] = "none"
               PROVE  Elapsed(r)' <= Delay(r)' - patience'[r]
    BY <1>4 DEF SecondsCounted
  <2>1. at[r] \in {"scan", "wait"}
    <3>1. at[r] # "none" /\ at[r] # "answered"
      BY <1>4 DEF CallsKnown, CreatedFirst
    <3>2. at[r] # "pooled" /\ at[r] # "queued"
      BY <1>4
    <3>3. at[r] \in Place
      BY DEF Typed
    <3> QED
      BY <1>3, <3>1, <3>2, <3>3 DEF Place
  <2>2. left'[r] = left[r] - 1 /\ left[r] \in Nat
    BY <1>1, <1>6
  <2>3. Elapsed(r) <= Delay(r) - patience[r] /\ patience[r] \in Nat /\ Delay(r) \in Nat
    BY <1>1, <1>4, DelayIs DEF SecondsCounted
  <2>4. Elapsed(r)' = Elapsed(r) + 1 /\ Elapsed(r) \in Int
    BY <2>2 DEF Elapsed
  <2>5. CASE at[r] = "scan"
    <3>1. Delay(r)' = Delay(r) + 1
      BY <1>4, <2>5, DelayIs
    <3>2. patience[r] = 0
      BY <2>5 DEF CallsKnown
    <3> QED
      BY <1>7, <2>3, <2>4, <3>1, <3>2
  <2>6. CASE at[r] = "wait"
    <3>1. Delay(r)' = Delay(r)
      BY <1>4, <2>6, DelayIs
    <3>2. patience'[r] = patience[r] - 1
      BY <1>3, <1>7, <2>6
    <3> QED
      BY <2>3, <2>4, <3>1, <3>2
  <2> QED
    BY <2>1, <2>5, <2>6
<1> QED
  BY <1>9, <1>10, <1>11, <1>12, <1>13, <1>14, <1>15, <1>16, <1>17

-----------------------------------------------------------------------------
(* The theorems. *)

(* The invariant holds initially. *)
LEMMA Initially == Init => Inv
<1> SUFFICES ASSUME Init PROVE Inv
  OBVIOUS
<1> USE Numbers DEF Init, Gate!Init
<1>1. Typed
  BY EmptySeq DEF Typed, Place
<1>2. GateTyped
  BY DEF GateTyped
<1>3. AtWork = {}
  BY DEF AtWork, Busy
<1>4. WorkersBounded
  BY <1>3, FS_EmptySet DEF WorkersBounded
<1>5. OneScan /\ CreatedFirst /\ HeldOnly
  BY DEF OneScan, CreatedFirst, HeldOnly
<1>6. EventsPlaced
  BY EmptySeq DEF EventsPlaced, Distinct, In
<1>7. CallsKnown
  BY DEF CallsKnown
<1>8. SecondsCounted
  BY DEF SecondsCounted
<1> QED
  BY <1>1, <1>2, <1>4, <1>5, <1>6, <1>7, <1>8 DEF Inv

(* Every step keeps it. *)
LEMMA Kept == Inv /\ [Next]_vars => Inv'
<1> SUFFICES ASSUME Inv, [Next]_vars PROVE Inv'
  OBVIOUS
<1>1. ASSUME NEW r \in Request, Create(r) \/ Freeze(r) \/ Kernel(r) PROVE Inv'
  BY <1>1, CreateKept, EnqueueKept, FreezeKept, VerdictKept, TimeoutKept DEF Kernel
<1>2. ASSUME NEW r \in Request, Works(r) PROVE Inv'
  BY <1>2, AcquireKept, WokenKept, GiveUpKept, AnswerKept DEF Works
<1>3. ASSUME NEW r \in Request, Complete(r) \/ AbortScan(r) PROVE Inv'
  BY <1>3, CompleteKept, AbortScanKept
<1>4. CASE GetEvent \/ Start \/ AgentStops \/ Tick
  BY <1>4, CallHeldKept, EventTakenKept, StartKept, AgentStopsKept, TickKept
<1>5. CASE UNCHANGED vars
  <2>1. /\ Typed' /\ GateTyped' /\ CreatedFirst' /\ CallsKnown'
    BY <1>5 DEF Inv, vars, sensor, path, seen, work, Typed, GateTyped, CreatedFirst, CallsKnown
  <2>2. OneScan' /\ EventsPlaced' /\ HeldOnly'
    BY <1>5 DEF Inv, vars, sensor, path, seen, work, OneScan, EventsPlaced, HeldOnly, Elapsed
  <2>3. WorkersBounded'
    BY <1>5 DEF Inv, vars, sensor, path, seen, work, WorkersBounded, AtWork
  <2>4. SecondsCounted'
    BY <1>5 DEF Inv, vars, sensor, path, seen, work, SecondsCounted, Elapsed, Delay
  <2> QED
    BY <2>1, <2>2, <2>3, <2>4 DEF Inv
<1> QED
  BY <1>1, <1>2, <1>3, <1>4, <1>5 DEF Next

(* So it always holds. *)
LEMMA Invariant == Spec => []Inv
<1> QED
  BY Initially, Kept, PTL DEF Spec

(* Type correctness: no more workers are busy than n_workers, the queue is never
   longer than EVENT_QUEUE, a request waits for scans twice at most, and there is
   one scan at a time of the path. *)
THEOREM TypeCorrect == Spec => []TypeOK
<1>1. Inv => TypeOK
  BY Numbers DEF Inv, Typed, WorkersBounded, AtWork, OneScan, Place, TypeOK
<1> QED
  BY <1>1, Invariant, PTL

(* What may hold a request up until it expires: what TimeoutHasReason asks for. *)
Reason(r) ==
  \/ agent = "down"
  \/ at[r] = "dropped"
  \/ r \in late \cup stranded
  \/ verdict[r] # "none"
  \/ Delay(r) >= KernelWait

(* Only the timeout of its own wait makes a request one that expired. *)
LEMMA ExpiresAtTimeout ==
  ASSUME Inv, Next, NEW r \in Request, Expires(r)
  PROVE  Timeout(r)
<1>1. ASSUME NEW q \in Request, Timeout(q) PROVE q = r
  BY <1>1 DEF Timeout, Expires
<1>2. ASSUME NEW q \in Request, Create(q) \/ Freeze(q) \/ Enqueue(q) \/ Verdict(q)
      PROVE  FALSE
  BY <1>2 DEF Create, Freeze, Enqueue, sensor, Verdict, Gate!Hold, Gate!Resume,
     Gate!Kill, Gate!Ends, Expires
<1>3. ASSUME NEW q \in Request, Acquire(q) \/ Woken(q) \/ GiveUp(q) \/ Complete(q)
             \/ AbortScan(q)
      PROVE  FALSE
  BY <1>3 DEF Acquire, Woken, GiveUp, Complete, AbortScan, Step, sensor, Expires
<1>4. ASSUME NEW q \in Request, Answer(q) PROVE FALSE
  BY <1>4 DEF Answer, Expires
<1>5. CASE GetEvent \/ Start \/ AgentStops \/ Tick
  BY <1>5 DEF GetEvent, Start, AgentStops, Tick, sensor, Expires
<1> QED
  BY <1>1, <1>2, <1>3, <1>4, <1>5 DEF Next, Works, Kernel

(* When the wait times out, nothing of the five seconds is left. *)
LEMMA TimeoutReason ==
  ASSUME Inv, NEW r \in Request, Timeout(r)
  PROVE  Reason(r)
<1> SUFFICES ASSUME agent = "up", at[r] # "dropped", r \notin late \cup stranded,
                    verdict[r] = "none"
             PROVE  Delay(r) >= KernelWait
  BY DEF Reason, Inv, Typed
<1>1. gate[r] = "held" /\ left[r] = 0
  BY DEF Timeout, TimedOut
<1>2. Elapsed(r) = KernelWait
  BY <1>1, Numbers DEF Elapsed
<1>3. Elapsed(r) <= Delay(r) - patience[r]
  BY <1>1 DEF Inv, SecondsCounted
<1>4. patience[r] \in Nat /\ Delay(r) \in Nat
  <2>1. Typed
    BY DEF Inv
  <2>2. patience[r] \in Nat
    BY <2>1, Numbers DEF Typed
  <2>3. Delay(r) \in Nat
    BY <2>1, DelayIs
  <2> QED
    BY <2>2, <2>3
<1> QED
  BY <1>2, <1>3, <1>4, Numbers

(* A process that resumes without its verdict does so because the agent had gone,
   its event was dropped, no worker was free, its event stood in EVENT_QUEUE beside a
   held call, the verdict came before its scan was listed, or its waits for the scans
   of others and its own scan took the time apc_normal_routine waits: nothing else in
   notify_agent or analyze_event costs a second. *)
THEOREM TimeoutsExplained == Spec => TimeoutHasReason
<1>1. ASSUME Inv, [Next]_vars, NEW r \in Request, Expires(r) PROVE Reason(r)
  <2>1. CASE UNCHANGED vars
    BY <1>1, <2>1 DEF vars, sensor, Expires
  <2>2. CASE Next
    BY <1>1, <2>2, ExpiresAtTimeout, TimeoutReason
  <2> QED
    BY <1>1, <2>1, <2>2
<1>2. Inv /\ [Next]_vars => [\A r \in Request : Expires(r) => Reason(r)]_vars
  BY <1>1
<1>3. Spec => [][\A r \in Request : Expires(r) => Reason(r)]_vars
  BY <1>2, Invariant, PTL DEF Spec
<1> QED
  BY <1>3 DEF TimeoutHasReason, Reason
=============================================================================
