----------------------------- MODULE ScanCache ------------------------------
(***************************************************************************)
(* analyze_event for the frozen processes of one image path, and the cache *)
(* that lets concurrent and later requests share one scan of the file.     *)
(* Paths share nothing but the workers: both maps of the cache are keyed   *)
(* by path.                                                                *)
(*                                                                         *)
(* The requests are numbered in the order they are given to the worker     *)
(* pool.  A request acquires the scan slot of the path at most once, so    *)
(* the barrier it creates is named after it.                               *)
(*                                                                         *)
(* The file may be replaced, removed or unreadable at any time; the agent  *)
(* reads its metadata, its content and its identity at different times.    *)
(* A panic anywhere aborts the agent (panic = "abort" in Cargo.toml), and  *)
(* the cache is gone with it: that is the end of a behaviour.              *)
(***************************************************************************)
EXTENDS StaticAnalysis, FiniteSets

CONSTANTS
  Requests,     \* bound: number of requests for the path
  Workers,      \* size of the worker pool: 16 in main.rs
  Version,      \* what the file can be
  MaxReplaced,  \* bound: how often the file is replaced
  None

Request == 1 .. Requests

(* A version has a stamp (modification time and size), a file index, and the
   findings its content leads to. *)
ASSUME ConstantsAssumption ==
  /\ Requests \in Nat \ {0}
  /\ Workers \in Nat \ {0}
  /\ MaxReplaced \in Nat
  /\ \A v \in Version : v.findings \in Findings
  /\ None \notin Request /\ None \notin Version

(* The cache takes a stamp and an index together for the identity of a content. *)
ASSUME IdentityAssumption ==
  \A v, w \in Version : v.stamp = w.stamp /\ v.index = w.index => v = w

(* What a scan records is the stamp its owner read first, the index it read last
   and the score it came to.  Nothing of it changes once it is recorded, so a
   completed entry, or a completed barrier, is named after its owner.  stat and
   indexed hold the whole version; the code sees its stamp, or its index. *)
VARIABLES
  file,        \* the version at the path, or None
  replaced,    \* how often it was replaced
  phase,       \* how far each request has come
  tries,       \* calls of try_acquire_scan each request has made
  stat,        \* the version each request took the stamp of
  found,       \* the entry each request compares with, or the barrier it waits on
  read,        \* the version in the buffer of each owner
  result,      \* the analysis each owner has come to
  indexed,     \* the version each owner took the file index of, or None
  completed,   \* the completed entry of the path, or None
  inProgress,  \* the barrier in_progress holds for the path, or None
  barrier,     \* the state of the barrier each owner created
  verdict,     \* the verdict on each request
  source,      \* the owner of the scan each verdict is based on, or None
  disturbed    \* requests at work while the file changed or a probe failed

disk   == <<file, replaced>>
scan   == <<read, result, indexed>>
cache  == <<completed, inProgress, barrier>>
answer == <<tries, found, verdict, source>>
vars   == <<disk, phase, stat, scan, cache, answer, disturbed>>

(* The phases in which a request owns the scan slot of the path. *)
Scanning == {"reading", "hashing", "trusting", "indexing", "inserting", "releasing"}
Active   == Scanning \cup
              {"lookup", "validating", "invalidate", "purge", "claim", "waiting"}
Busy     == Active \cup {"started"}
Phase    == Busy \cup {"queued", "done"}

TypeOK ==
  /\ file \in Version \cup {None}
  /\ replaced \in 0 .. MaxReplaced
  /\ phase \in [Request -> Phase]
  /\ tries \in [Request -> 0 .. 2]
  /\ stat \in [Request -> Version \cup {None}]
  /\ found \in [Request -> Request \cup {None}]
  /\ read \in [Request -> Version \cup {None}]
  /\ result \in [Request -> [score : Int, blocked : BOOLEAN]]
  /\ indexed \in [Request -> Version \cup {None}]
  /\ completed \in Request \cup {None}
  /\ inProgress \in Request \cup {None}
  /\ barrier \in [Request -> {"absent", "pending", "completed", "failed"}]
  /\ verdict \in [Request -> {"none", "allow", "block"}]
  /\ source \in [Request -> Request \cup {None}]
  /\ disturbed \subseteq Request

Init ==
  /\ file \in Version
  /\ replaced = 0
  /\ phase = [r \in Request |-> "queued"]
  /\ tries = [r \in Request |-> 0]
  /\ stat = [r \in Request |-> None]
  /\ found = [r \in Request |-> None]
  /\ read = [r \in Request |-> None]
  /\ result = [r \in Request |-> NewResult]
  /\ indexed = [r \in Request |-> None]
  /\ completed = None
  /\ inProgress = None
  /\ barrier = [r \in Request |-> "absent"]
  /\ verdict = [r \in Request |-> "none"]
  /\ source = [r \in Request |-> None]
  /\ disturbed = {}

-----------------------------------------------------------------------------
Goto(r, p) == phase' = [phase EXCEPT ![r] = p]

(* broadcast_static_process_verdict: the event is answered, from scan q, and the
   call of analyze_event is over. *)
Answer(r, allow, q) ==
  /\ Goto(r, "done")
  /\ tries' = [tries EXCEPT ![r] = 0]
  /\ found' = [found EXCEPT ![r] = None]
  /\ verdict' = [verdict EXCEPT ![r] = IF allow THEN "allow" ELSE "block"]
  /\ source' = [source EXCEPT ![r] = q]

BlockUnscanned(r) == Answer(r, FALSE, None)

(* The verdict on a score taken over from scan q. *)
Reuse(r, q) == Answer(r, AllowScore(result[q].score), q)

-----------------------------------------------------------------------------
(* The world around the agent. *)

(* The file is written, replaced, removed or created. *)
Replace(v) ==
  /\ replaced < MaxReplaced
  /\ v # file
  /\ file' = v
  /\ replaced' = replaced + 1
  /\ disturbed' = disturbed \cup {r \in Request : phase[r] \in Active}
  /\ UNCHANGED <<phase, stat, scan, cache, answer>>

(* The completed cache is full and drops the entry. *)
Evict ==
  /\ completed # None
  /\ completed' = None
  /\ UNCHANGED <<disk, phase, stat, scan, inProgress, barrier, answer, disturbed>>

(* A free worker takes the next job of the pool. *)
Start(r) ==
  /\ phase[r] = "queued"
  /\ \A q \in 1 .. r - 1 : phase[q] # "queued"
  /\ Cardinality({q \in Request : phase[q] \in Busy}) < Workers
  /\ Goto(r, "started")
  /\ UNCHANGED <<disk, stat, scan, cache, answer, disturbed>>

-----------------------------------------------------------------------------
(* analyze_event, up to the verdict or the scan. *)

(* fs::metadata may fail, or find an empty file. *)
Stat(r) ==
  /\ phase[r] = "started"
  /\ \/ /\ file # None
        /\ stat' = [stat EXCEPT ![r] = file]
        /\ Goto(r, "lookup")
        /\ UNCHANGED answer
     \/ BlockUnscanned(r) /\ UNCHANGED stat
  /\ UNCHANGED <<disk, scan, cache, disturbed>>

(* try_acquire_scan gets the completed entry and compares the stamps; an entry
   without an index is a hit. *)
Lookup(r) ==
  LET Proceed(p) == /\ Goto(r, p)
                    /\ tries' = [tries EXCEPT ![r] = @ + 1]
                    /\ found' = [found EXCEPT ![r] = completed]
                    /\ UNCHANGED <<verdict, source>>
  IN
  /\ phase[r] = "lookup"
  /\ \/ completed = None /\ Proceed("claim")
     \/ /\ completed # None
        /\ stat[completed].stamp # stat[r].stamp
        /\ Proceed("purge")
     \/ /\ completed # None
        /\ stat[completed].stamp = stat[r].stamp
        /\ IF indexed[completed] = None THEN Reuse(r, completed)
                                        ELSE Proceed("validating")
  /\ UNCHANGED <<disk, stat, scan, cache, disturbed>>

\* Mutant of SameIndex: equal stamps are enough.
AnyIndex(q) == TRUE

(* The file at the path now has the index recorded with scan q. *)
SameIndex(q) == file # None /\ file.index = indexed[q].index

(* get_file_index, which may fail to open the file. *)
Validate(r) ==
  /\ phase[r] = "validating"
  /\ \/ SameIndex(found[r]) /\ Reuse(r, found[r])
     \/ Goto(r, "invalidate") /\ UNCHANGED answer
  /\ UNCHANGED <<disk, stat, scan, cache, disturbed>>

(* completed.invalidate, whatever entry it is by now; after an index mismatch
   it is called twice. *)
Purge(r) ==
  /\ phase[r] \in {"invalidate", "purge"}
  /\ completed' = None
  /\ Goto(r, IF phase[r] = "invalidate" THEN "purge" ELSE "claim")
  /\ UNCHANGED <<disk, stat, scan, inProgress, barrier, answer, disturbed>>

(* Under the lock of in_progress: the slot is acquired, or its barrier taken. *)
Claim(r) ==
  /\ phase[r] = "claim"
  /\ found' = [found EXCEPT ![r] = inProgress]
  /\ \/ /\ inProgress = None
        /\ inProgress' = r
        /\ barrier' = [barrier EXCEPT ![r] = "pending"]
        /\ Goto(r, "reading")
     \/ /\ inProgress # None
        /\ Goto(r, "waiting")
        /\ UNCHANGED <<inProgress, barrier>>
  /\ UNCHANGED <<disk, tries, stat, scan, completed, verdict, source, disturbed>>

(* ScanBarrier::wait returns a scan; it is not validated. *)
Woken(r) ==
  /\ phase[r] = "waiting"
  /\ barrier[found[r]] = "completed"
  /\ Reuse(r, found[r])
  /\ UNCHANGED <<disk, stat, scan, cache, disturbed>>

\* Mutant of TriedTwice: the last resort is to allow.
AllowTwice(r) == Answer(r, TRUE, None)

\* Mutant of TriedTwice: it tries again.
TryForEver(r) == Goto(r, "lookup") /\ UNCHANGED answer

(* The second wait has failed as well. *)
TriedTwice(r) == BlockUnscanned(r)

(* ScanBarrier::wait returns Failed, or Timeout on a barrier still pending. *)
GiveUp(r) ==
  /\ phase[r] = "waiting"
  /\ barrier[found[r]] \in {"failed", "pending"}
  /\ \/ tries[r] = 1 /\ Goto(r, "lookup") /\ UNCHANGED answer
     \/ tries[r] = 2 /\ TriedTwice(r)
  /\ UNCHANGED <<disk, stat, scan, cache, disturbed>>

-----------------------------------------------------------------------------
(* analyze_event of the owner of the slot. *)

\* Mutant of Abort: the slot stays occupied.
AbortBarrier(r) ==
  /\ barrier' = [barrier EXCEPT ![r] = "failed"]
  /\ UNCHANGED <<completed, inProgress>>

(* The guard is dropped: abort_scan_inner. *)
Abort(r) ==
  /\ inProgress' = None
  /\ barrier' = [barrier EXCEPT ![r] = "failed"]
  /\ UNCHANGED completed

(* fs::read. *)
Read(r) ==
  /\ phase[r] = "reading"
  /\ \/ /\ file # None
        /\ read' = [read EXCEPT ![r] = file]
        /\ Goto(r, "hashing")
        /\ UNCHANGED <<cache, answer>>
     \/ Abort(r) /\ BlockUnscanned(r) /\ UNCHANGED read
  /\ UNCHANGED <<disk, stat, result, indexed, disturbed>>

(* stage_signature_check hashes the file at the path, not the buffer; without a
   hash or a database connection there is no match. *)
Hash(r) ==
  /\ phase[r] = "hashing"
  /\ \E sig \in 0 .. 100 :
       /\ \/ /\ file # None
             /\ sig = file.findings.sig
             /\ UNCHANGED disturbed
          \/ /\ sig = 0
             /\ disturbed' = disturbed \cup {r}
       /\ result' = [result EXCEPT ![r] = SignatureStage(@, sig)]
  /\ Goto(r, "trusting")
  /\ UNCHANGED <<disk, stat, read, indexed, cache, answer>>

(* stage_authenticode_check, on the file at the path again: any failure counts
   as signed and not trusted.  Then the two stages on the buffer. *)
CheckTrust(r) ==
  /\ phase[r] = "trusting"
  /\ \E trust \in Trust :
       /\ \/ /\ file # None
             /\ trust = file.findings.trust
             /\ UNCHANGED disturbed
          \/ /\ trust = "untrusted"
             /\ disturbed' = disturbed \cup {r}
       /\ result' = [result EXCEPT ![r] =
                       PeStages(FileStages(@, trust), read[r].findings.pe)]
  /\ read' = [read EXCEPT ![r] = None]
  /\ Goto(r, "indexing")
  /\ UNCHANGED <<disk, stat, indexed, cache, answer>>

(* get_file_index, once more at the path, may fail. *)
TakeIndex(r) ==
  /\ phase[r] = "indexing"
  /\ \E v \in {file, None} : indexed' = [indexed EXCEPT ![r] = v]
  /\ Goto(r, "inserting")
  /\ UNCHANGED <<disk, stat, read, result, cache, answer, disturbed>>

(* complete_scan_inner: the completed entry first, *)
Insert(r) ==
  /\ phase[r] = "inserting"
  /\ completed' = r
  /\ Goto(r, "releasing")
  /\ UNCHANGED <<disk, stat, scan, inProgress, barrier, answer, disturbed>>

(* ... then the slot and the waiters.  The verdict is the result's own. *)
Release(r) ==
  /\ phase[r] = "releasing"
  /\ inProgress' = None
  /\ barrier' = [barrier EXCEPT ![r] = "completed"]
  /\ Answer(r, ~result[r].blocked, r)
  /\ UNCHANGED <<disk, stat, scan, completed, disturbed>>

-----------------------------------------------------------------------------
Work(r) ==
  \/ Start(r) \/ Stat(r) \/ Lookup(r) \/ Validate(r) \/ Purge(r) \/ Claim(r)
  \/ Woken(r) \/ GiveUp(r)
  \/ Read(r) \/ Hash(r) \/ CheckTrust(r) \/ TakeIndex(r) \/ Insert(r) \/ Release(r)

Next ==
  \/ \E v \in Version \cup {None} : Replace(v)
  \/ Evict
  \/ \E r \in Request : Work(r)

Spec == Init /\ [][Next]_vars

-----------------------------------------------------------------------------
(* One request scans the path at a time, and it is the one whose barrier others
   find.  The slot is given back when the scan fails as when it is complete, and
   nobody waits on a barrier that no one will resolve. *)
OneScanner ==
  /\ \A r \in Request : inProgress = r <=> phase[r] \in Scanning
  /\ \A r \in Request : phase[r] = "waiting" /\ barrier[found[r]] = "pending" =>
       inProgress = found[r]

(* Waits do not fail open: a request is allowed only on the score of a scan that
   was completed, by itself or by another, however its own waits, their timeouts and
   the second try for the slot went.  A scan is completed though a probe failed: a
   failed hash or signature lookup counts as finding nothing, and may allow. *)
AllowNeedsScan ==
  \A r \in Request : verdict[r] = "allow" =>
    /\ source[r] # None
    /\ barrier[source[r]] \in {"pending", "completed"}
    /\ phase[source[r]] \in {"releasing", "done"}
    /\ AllowScore(result[source[r]].score)

(* A verdict is the verdict on the file the request is about, scanned now or
   before: unless the file changes, or a probe fails, while the request or the
   scan it relies on is at work, or the scan could not take the file index. *)
VerdictFresh ==
  \A r \in Request :
    /\ source[r] # None
    /\ {r, source[r]} \cap disturbed = {}
    /\ indexed[source[r]] # None
    => verdict[r] = IF Analysis(stat[r].findings).blocked THEN "block" ELSE "allow"

(* static_analyzer_cache.rs:25-26 "including file identity so waiters can
   re-validate metadata": a verdict taken over is for a file of the same stamp. *)
WaiterRevalidates ==
  \A r \in Request : source[r] # None => stat[source[r]].stamp = stat[r].stamp
=============================================================================
