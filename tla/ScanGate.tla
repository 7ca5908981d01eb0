------------------------------ MODULE ScanGate ------------------------------
(***************************************************************************)
(* The freeze gate of the Galatea kernel sensor.  Every process creation   *)
(* takes a request id; unless its image is allow-listed, the first thread  *)
(* of the process is frozen by an APC until the agent's verdict for that   *)
(* request arrives, or five seconds pass.                                  *)
(*                                                                         *)
(* A process instance is named by the request id its creation took: ids    *)
(* are never reused, PIDs are.  At most one APC is injected per request,   *)
(* so the APC context of request r is also named r; host[r] is the process *)
(* whose thread it was injected into, which need not be process r when a   *)
(* PID has been reused.                                                    *)
(*                                                                         *)
(* One action is one critical section of a spin lock, or one call of the   *)
(* kernel whose outcome the code acts on.                                  *)
(***************************************************************************)
EXTENDS Integers, Sequences, FiniteSets, SequencesExt

CONSTANTS
  Pid,           \* process ids the system hands out, reused after an exit
  FirstRequest,  \* value of REQUEST_ID_COUNTER when the behaviour starts
  LastRequest,   \* bound: the last request id handed out
  MaxCache       \* MAX_VERDICT_CACHE_SIZE

(* Both kinds of id are u64 in the code, and one is compared with the other. *)
ASSUME ConstantsAssumption ==
  /\ Pid \subseteq Nat \ {0}
  /\ FirstRequest \in Nat \ {0}
  /\ LastRequest \in Nat
  /\ MaxCache \in Nat \ {0}

Request == FirstRequest .. LastRequest
NoPid   == 0
Answer  == {"allow", "block"}

VARIABLES
  nextRequest,  \* REQUEST_ID_COUNTER
  pid,          \* pid of the process created with each request
  life,         \* how far each process has come
  held,         \* requests that were not fast-passed: GalateaEvent.frozen
  target,       \* TARGET_PIDS
  pending,      \* PENDING_SCANS
  cache,        \* VERDICT_CACHE, oldest entry first
  stage,        \* how far the freeze APC of each request has come
  host,         \* the process each APC was injected into
  signaled,     \* requests whose FreezeApcCtx.event is set
  cause,        \* why each APC stopped waiting
  outcome,      \* what each APC decided: should_terminate
  apcCount,     \* APC_COUNT
  verdict,      \* the verdict the agent sent for each request
  missed,       \* requests between the two critical sections of apply_verdict
  driver        \* progress of driver_unload

process == <<nextRequest, pid, life, held>>
frozen  == <<stage, host, cause, outcome>>
agent   == <<verdict, missed>>
vars    == <<process, target, pending, cache, frozen, signaled, apcCount,
             agent, driver>>

Life  == {"unborn", "created", "running", "dying", "dead"}
\* The context of an APC is allocated exactly in the stages of Live.
Live  == {"listed", "queued", "hit", "waiting", "woken", "decided"}
Stage == Live \cup {"absent", "reclaimed", "gone", "leaving", "resumed", "killed"}
Cause == {"none", "early", "verdict", "interrupted", "timeout"}

TypeOK ==
  /\ nextRequest \in Nat /\ nextRequest >= FirstRequest
  /\ pid \in [Request -> Pid \cup {NoPid}]
  /\ life \in [Request -> Life]
  /\ held \subseteq Request
  /\ target \in Seq([pid : Pid, rid : Request])
  /\ pending \in Seq([pid : Pid, rid : Request, verdict : Answer])
  /\ cache \in Seq([rid : Request, verdict : Answer])
  /\ stage \in [Request -> Stage]
  /\ host \in [Request -> Request]
  /\ signaled \subseteq Request
  /\ cause \in [Request -> Cause]
  /\ outcome \in [Request -> {"none", "resume", "kill"}]
  /\ apcCount \in Nat
  /\ verdict \in [Request -> Answer \cup {"none"}]
  /\ missed \subseteq Request
  /\ driver \in {"loaded", "draining", "unloaded"}

Init ==
  /\ nextRequest = FirstRequest
  /\ pid = [r \in Request |-> NoPid]
  /\ life = [r \in Request |-> "unborn"]
  /\ held = {}
  /\ target = << >>
  /\ pending = << >>
  /\ cache = << >>
  /\ stage = [r \in Request |-> "absent"]
  /\ host = [r \in Request |-> r]
  /\ signaled = {}
  /\ cause = [r \in Request |-> "none"]
  /\ outcome = [r \in Request |-> "none"]
  /\ apcCount = 0
  /\ verdict = [r \in Request |-> "none"]
  /\ missed = {}
  /\ driver = "loaded"

-----------------------------------------------------------------------------
\* Mutant of First: takes the oldest entry, whatever it is about.
Oldest(list, key, v) == {i \in DOMAIN list : i = 1}

(* iter().position(..): the index of the first entry, or no index at all. *)
First(list, key, v) ==
  {i \in DOMAIN list : /\ list[i][key] = v
                       /\ \A j \in 1 .. i - 1 : list[j][key] # v}

\* Mutant of NewScan: allowed until the agent objects.
NewScanAllowed(r) == [pid |-> pid[r], rid |-> r, verdict |-> "allow"]

(* PendingScan of inject_freeze_apc: denied until the agent says otherwise. *)
NewScan(r) == [pid |-> pid[r], rid |-> r, verdict |-> "block"]

(* The process is terminated unless the verdict is STATUS_SUCCESS. *)
Decide(r, v) ==
  outcome' = [outcome EXCEPT ![r] = IF v = "allow" THEN "resume" ELSE "kill"]

Advance(r, s) == stage' = [stage EXCEPT ![r] = s]

-----------------------------------------------------------------------------
(* Process and thread notifications. *)

(* process_notify_routine for a creation; fast is is_allowlisted_static.  The
   agent is told of every creation by notify_agent, which InvertedCall models;
   it answers only the frozen ones. *)
CreateProcess(p, fast) ==
  LET r == nextRequest IN
  /\ driver = "loaded"
  /\ r <= LastRequest
  /\ \A q \in Request : life[q] \in {"created", "running", "dying"} => pid[q] # p
  /\ nextRequest' = r + 1
  /\ pid' = [pid EXCEPT ![r] = p]
  /\ life' = [life EXCEPT ![r] = "created"]
  /\ IF fast THEN UNCHANGED <<held, target>>
             ELSE /\ held' = held \cup {r}
                  /\ target' = Append(target, [pid |-> p, rid |-> r])
  /\ UNCHANGED <<pending, cache, frozen, signaled, apcCount, agent, driver>>

(* Removal of the request a new thread's process is targeted for. *)
TakeTarget(i) == target' = RemoveAt(target, i)

\* Mutant of ListScan: APC_COUNT is not incremented.
ListScanUncounted(h, r) ==
  /\ apcCount' = apcCount
  /\ pending' = Append(pending, NewScan(r))
  /\ Advance(r, "listed")
  /\ host' = [host EXCEPT ![r] = h]

(* inject_freeze_apc up to the end of its first critical section. *)
ListScan(h, r) ==
  /\ apcCount' = apcCount + 1
  /\ pending' = Append(pending, NewScan(r))
  /\ Advance(r, "listed")
  /\ host' = [host EXCEPT ![r] = h]

(* thread_notify_routine for a thread of process h: the first one, or a later
   one.  PsLookupThreadByThreadId may fail, and then nothing is frozen. *)
ThreadNotify(h) ==
  /\ driver = "loaded"
  /\ life[h] \in {"created", "running"}
  /\ life' = [life EXCEPT ![h] = "running"]
  /\ \/ /\ First(target, "pid", pid[h]) = {}
        /\ life[h] = "created"
        /\ UNCHANGED <<target, pending, stage, host, apcCount>>
     \/ \E i \in First(target, "pid", pid[h]) :
          /\ TakeTarget(i)
          /\ \/ UNCHANGED <<pending, stage, host, apcCount>>
             \/ ListScan(h, target[i].rid)
  /\ UNCHANGED <<nextRequest, pid, held, cache, cause, outcome, signaled,
                 agent, driver>>

(* KeInsertQueueApc succeeds. *)
InsertApc(r) ==
  /\ stage[r] = "listed"
  /\ Advance(r, "queued")
  /\ UNCHANGED <<process, target, pending, cache, host, cause, outcome,
                 signaled, apcCount, agent, driver>>

(* KeInsertQueueApc fails because the thread is terminating: the context is
   freed at once. *)
InsertFails(r) ==
  /\ stage[r] = "listed"
  /\ life[host[r]] = "dying"
  /\ Advance(r, "reclaimed")
  /\ UNCHANGED <<process, target, pending, cache, host, cause, outcome,
                 signaled, apcCount, agent, driver>>

(* Removal of the first scan listed for the PID, which the callers search for
   by PID and not by request. *)
Unlist(r) ==
  \/ \E i \in First(pending, "pid", pid[r]) : pending' = RemoveAt(pending, i)
  \/ First(pending, "pid", pid[r]) = {} /\ UNCHANGED pending

(* ... and only then is the scan removed from PENDING_SCANS. *)
Reclaim(r) ==
  /\ stage[r] = "reclaimed"
  /\ Unlist(r)
  /\ apcCount' = apcCount - 1
  /\ Advance(r, "gone")
  /\ UNCHANGED <<process, target, cache, host, cause, outcome, signaled,
                 agent, driver>>

(* A process is killed or ends by itself. *)
Die(h) ==
  /\ life[h] = "running"
  /\ life' = [life EXCEPT ![h] = "dying"]
  /\ UNCHANGED <<nextRequest, pid, held, target, pending, cache, frozen,
                 signaled, apcCount, agent, driver>>

(* A process is gone and its PID free again: process_notify_routine without a
   create_info, which changes nothing.  A creation can also fail before the
   first thread is announced. *)
Exit(h) ==
  /\ \/ life[h] = "created"
     \/ /\ life[h] = "dying"
        /\ \A r \in Request : host[r] = h =>
             stage[r] \notin Live \cup {"reclaimed", "leaving"}
  /\ life' = [life EXCEPT ![h] = "dead"]
  /\ UNCHANGED <<nextRequest, pid, held, target, pending, cache, frozen,
                 signaled, apcCount, agent, driver>>

-----------------------------------------------------------------------------
(* The freeze APC, on the frozen thread. *)

\* Mutant of Rundown: the context is freed and APC_COUNT left alone.
RundownCounted(r) ==
  /\ stage[r] = "queued"
  /\ life[host[r]] = "dying"
  /\ Advance(r, "gone")
  /\ UNCHANGED <<process, target, pending, cache, host, cause, outcome,
                 signaled, apcCount, agent, driver>>

(* apc_rundown_routine: the thread ends before the APC ran. *)
Rundown(r) ==
  /\ stage[r] = "queued"
  /\ life[host[r]] = "dying"
  /\ Advance(r, "gone")
  /\ apcCount' = apcCount - 1
  /\ UNCHANGED <<process, target, pending, cache, host, cause, outcome,
                 signaled, agent, driver>>

(* check_early_verdict, called with the PID where the entries are keyed by
   request id: it finds a verdict only when the two numbers coincide. *)
EarlyCheck(r) ==
  /\ stage[r] = "queued"
  /\ \/ \E i \in First(cache, "rid", pid[r]) :
          /\ cache' = RemoveAt(cache, i)
          /\ Decide(r, cache[i].verdict)
          /\ cause' = [cause EXCEPT ![r] = "early"]
          /\ Advance(r, "hit")
     \/ /\ First(cache, "rid", pid[r]) = {}
        /\ Advance(r, "waiting")
        /\ UNCHANGED <<cache, cause, outcome>>
  /\ UNCHANGED <<process, target, pending, host, signaled, apcCount, agent,
                 driver>>

EarlyUnlist(r) ==
  /\ stage[r] = "hit"
  /\ Unlist(r)
  /\ Advance(r, "decided")
  /\ UNCHANGED <<process, target, cache, host, cause, outcome, signaled,
                 apcCount, agent, driver>>

(* KeWaitForSingleObject returns, in the three ways it can. *)
StopWaiting(r, why) ==
  /\ stage[r] = "waiting"
  /\ cause' = [cause EXCEPT ![r] = why]
  /\ Advance(r, "woken")
  /\ UNCHANGED <<process, target, pending, cache, host, outcome, signaled,
                 apcCount, agent, driver>>

\* Mutant of Timeout: the wait has a limit only once the agent has answered.
TimeoutIfAnswered(r) ==
  verdict[r] # "none" /\ r \notin signaled /\ StopWaiting(r, "timeout")

Wake(r)      == r \in signaled /\ StopWaiting(r, "verdict")
Interrupt(r) == life[host[r]] = "dying" /\ StopWaiting(r, "interrupted")
Timeout(r)   == r \notin signaled /\ StopWaiting(r, "timeout")

(* The scan is removed and its verdict read; a timeout resumes the process
   whatever the verdict says. *)
Collect(r) ==
  /\ stage[r] = "woken"
  /\ \/ \E i \in First(pending, "pid", pid[r]) :
          /\ pending' = RemoveAt(pending, i)
          /\ Decide(r, IF cause[r] = "timeout" THEN "allow" ELSE pending[i].verdict)
     \/ /\ First(pending, "pid", pid[r]) = {}
        /\ UNCHANGED pending
        /\ Decide(r, IF cause[r] = "timeout" THEN "allow" ELSE "block")
  /\ Advance(r, "decided")
  /\ UNCHANGED <<process, target, cache, host, cause, signaled, apcCount,
                 agent, driver>>

(* The context is freed and the APC no longer counted. *)
Release(r) ==
  /\ stage[r] = "decided"
  /\ apcCount' = apcCount - 1
  /\ Advance(r, IF outcome[r] = "kill" THEN "leaving" ELSE "resumed")
  /\ UNCHANGED <<process, target, pending, cache, host, cause, outcome,
                 signaled, agent, driver>>

(* ZwTerminateProcess on the current process. *)
Terminate(r) ==
  /\ stage[r] = "leaving"
  /\ Advance(r, "killed")
  /\ life' = [life EXCEPT ![host[r]] = "dying"]
  /\ UNCHANGED <<nextRequest, pid, held, target, pending, cache, host, cause,
                 outcome, signaled, apcCount, agent, driver>>

-----------------------------------------------------------------------------
(* IOCTL_SEND_VERDICT.  The agent answers each frozen request once. *)

\* Mutant of SendVerdict: the event is set and the verdict not stored.
SendVerdictUnstored(r, v) ==
  /\ driver = "loaded"
  /\ r \in held
  /\ verdict[r] = "none"
  /\ verdict' = [verdict EXCEPT ![r] = v]
  /\ IF First(pending, "rid", r) = {}
     THEN missed' = missed \cup {r} /\ UNCHANGED signaled
     ELSE signaled' = signaled \cup {r} /\ UNCHANGED missed
  /\ UNCHANGED <<process, target, pending, cache, frozen, apcCount, driver>>

(* apply_verdict, under PENDING_SCANS_LOCK: a listed scan gets the verdict and
   its event is set, or the verdict is carried on to the cache. *)
SendVerdict(r, v) ==
  /\ driver = "loaded"
  /\ r \in held
  /\ verdict[r] = "none"
  /\ verdict' = [verdict EXCEPT ![r] = v]
  /\ \/ \E i \in First(pending, "rid", r) :
          /\ pending' = [pending EXCEPT ![i].verdict = v]
          /\ signaled' = signaled \cup {r}
          /\ UNCHANGED missed
     \/ /\ First(pending, "rid", r) = {}
        /\ missed' = missed \cup {r}
        /\ UNCHANGED <<pending, signaled>>
  /\ UNCHANGED <<process, target, cache, frozen, apcCount, driver>>

\* Mutant of Trim: evicts only when the cache has outgrown its limit.
TrimLate(list, expired) ==
  LET fresh == SubSeq(list, expired + 1, Len(list)) IN
  IF Len(fresh) <= MaxCache THEN fresh
  ELSE SubSeq(fresh, Len(fresh) - MaxCache + 2, Len(fresh))

(* What is left of the cache once expired entries and, while it is full, the
   oldest are removed.  Entries are in the order of their timestamps, so both
   remove from the front. *)
Trim(list, expired) ==
  LET fresh == SubSeq(list, expired + 1, Len(list)) IN
  IF Len(fresh) < MaxCache THEN fresh
  ELSE SubSeq(fresh, Len(fresh) - MaxCache + 2, Len(fresh))

(* apply_verdict, under CACHE_LOCK. *)
CacheVerdict(r) ==
  /\ r \in missed
  /\ missed' = missed \ {r}
  /\ \E expired \in 0 .. Len(cache) :
       LET kept == Trim(cache, expired)
           old  == First(kept, "rid", r)
       IN cache' = IF old = {}
                   THEN Append(kept, [rid |-> r, verdict |-> verdict[r]])
                   ELSE [i \in DOMAIN kept |->
                           IF i \in old THEN [kept[i] EXCEPT !.verdict = verdict[r]]
                                        ELSE kept[i]]
  /\ UNCHANGED <<process, target, pending, frozen, signaled, apcCount,
                 verdict, driver>>

-----------------------------------------------------------------------------
(* driver_unload.  The system calls it with every handle to the device closed,
   and removing a notify routine waits for its calls in progress. *)

BeginUnload ==
  /\ driver = "loaded"
  /\ missed = {}
  /\ \A r \in Request : stage[r] \notin {"listed", "reclaimed"}
  /\ driver' = "draining"
  /\ signaled' = signaled \cup {pending[i].rid : i \in DOMAIN pending}
  /\ pending' = << >>
  /\ UNCHANGED <<process, target, cache, frozen, apcCount, agent>>

(* The wait for APC_COUNT ends. *)
FinishUnload ==
  /\ driver = "draining"
  /\ apcCount = 0
  /\ driver' = "unloaded"
  /\ UNCHANGED <<process, target, pending, cache, frozen, signaled, apcCount,
                 agent>>

-----------------------------------------------------------------------------
ApcStep(r) ==
  \/ EarlyCheck(r) \/ EarlyUnlist(r) \/ Wake(r) \/ Interrupt(r) \/ Timeout(r)
  \/ Collect(r) \/ Release(r) \/ Terminate(r)

InjectStep(r) == InsertApc(r) \/ InsertFails(r) \/ Reclaim(r)

Next ==
  \/ \E p \in Pid, fast \in BOOLEAN : CreateProcess(p, fast)
  \/ \E r \in Request :
       \/ ThreadNotify(r) \/ Die(r) \/ Exit(r)
       \/ InjectStep(r) \/ Rundown(r) \/ ApcStep(r)
       \/ \E v \in Answer : SendVerdict(r, v)
       \/ CacheVerdict(r)
  \/ BeginUnload
  \/ FinishUnload

Spec == Init /\ [][Next]_vars

(* The injecting thread, the frozen thread, the kernel's timer and the unloading
   thread all run on; nothing is assumed of the agent or of other processes. *)
Fairness ==
  /\ \A r \in Request : WF_vars(InjectStep(r)) /\ WF_vars(ApcStep(r))
  /\ WF_vars(FinishUnload)

FairSpec == Spec /\ Fairness

-----------------------------------------------------------------------------
Created == {q \in Request : q < nextRequest}

(* Requests r and q can be taken for each other: their PIDs are equal, or the
   PID of r is the request id q. *)
Related(r, q) == pid[q] = pid[r] \/ q = pid[r]

(* A process the gate lets go without a timeout has an allow verdict of the
   agent behind it: for a request of the same PID, or for the request whose id
   equals the PID, because that is how apc.rs looks verdicts up.  No order of
   verdicts, kills, reused PIDs and unloads makes the gate fail open. *)
FailClosed ==
  \A r \in Request : outcome[r] = "resume" /\ cause[r] # "timeout" =>
    \E q \in held : verdict[q] = "allow" /\ Related(r, q)

(* With a PID used once, and no request id equal to it, an APC that was woken by
   a verdict acts on the verdict the agent gave for this very request: the
   search by PID in apc.rs finds the right scan, however many are pending. *)
VerdictHonoured ==
  \A r \in Request :
    /\ driver = "loaded"
    /\ cause[r] = "verdict"
    /\ outcome[r] # "none"
    /\ \A q \in Created \ {r} : ~Related(r, q)
    => outcome[r] = IF verdict[r] = "allow" THEN "resume" ELSE "kill"

(* Each request is frozen at most once: its id stands at most once in
   TARGET_PIDS and PENDING_SCANS together, so a verdict has one addressee. *)
RequestListedOnce ==
  /\ \A i, j \in DOMAIN target : target[i].rid = target[j].rid => i = j
  /\ \A i, j \in DOMAIN pending : pending[i].rid = pending[j].rid => i = j
  /\ \A i \in DOMAIN target, j \in DOMAIN pending : target[i].rid # pending[j].rid

(* The driver does not finish unloading while an APC still holds a context: the
   wait for APC_COUNT covers contexts that are queued, waiting, or collected,
   and those whose thread died first. *)
UnloadDrains ==
  driver = "unloaded" => \A r \in Request : stage[r] \notin Live

(* The verdict cache stays within MAX_VERDICT_CACHE_SIZE and answers each
   request with one verdict, the one the agent sent. *)
CacheFaithful ==
  /\ Len(cache) <= MaxCache
  /\ \A i, j \in DOMAIN cache : cache[i].rid = cache[j].rid => i = j
  /\ \A i \in DOMAIN cache : cache[i].verdict = verdict[cache[i].rid]

(* A frozen process is always released or terminated in the end, whatever the
   agent does: the wait of apc_normal_routine is bounded. *)
FrozenReleased ==
  \A r \in Request : stage[r] \in Live ~> stage[r] \in {"resumed", "killed", "gone"}

(* An unload that has begun ends: every APC that is counted is counted off. *)
UnloadCompletes == driver = "draining" ~> driver = "unloaded"

(* apc.rs:153 "Early exit: Agent beat us - verdict is already in the cache": no
   thread starts to wait for a verdict that is already in the cache. *)
EarlyVerdictUsed ==
  [][\A r \in Request : stage[r] = "queued" /\ stage'[r] = "waiting" =>
       \A i \in DOMAIN cache : cache[i].rid # r]_vars

(* What the gate does to the process of each request. *)
GateOf(s) ==
  CASE s = "absent" -> "none"
    [] s \in Live -> "held"
    [] s = "resumed" -> "resumed"
    [] s \in {"leaving", "killed"} -> "killed"
    [] s \in {"reclaimed", "gone"} -> "left"

Gate == INSTANCE FreezeGate WITH
  gate    <- [r \in Request |-> GateOf(stage[r])],
  expired <- {r \in Request : cause[r] = "timeout"},
  cut     <- {r \in Request : cause[r] = "interrupted"},
  over    <- driver # "loaded"

(* The lists, events, contexts and the cache do what FreezeGate promises: whatever
   is killed, reused, unloaded or answered meanwhile, a process is held once for
   each request (one whose PID was reused may be held for two), and every resumption
   and every termination has one of the reasons given there; a timeout is one. *)
ImplementsGate == Gate!Spec
=============================================================================
