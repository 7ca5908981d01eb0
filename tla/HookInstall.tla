----------------------------- MODULE HookInstall -----------------------------
(***************************************************************************)
(* The hook DLL of Galatea inside a process that has been allowed: the     *)
(* agent makes a thread of the process load it, the DLL starts a thread of *)
(* its own, and that thread suspends the others, overwrites the first      *)
(* bytes of two system call stubs, and resumes whom it suspended.          *)
(*                                                                         *)
(* The threads of the process go on meanwhile: they call the stubs, take   *)
(* the locks of the heap and of the loader, start threads, suspended or    *)
(* not, and end.  SuspendThread does not wait until the thread has         *)
(* stopped.                                                                *)
(***************************************************************************)
EXTENDS Integers, Sequences, FiniteSets

CONSTANTS
  Thread,  \* threads of the process, the DLL's own thread excepted
  Main,    \* its first thread, which the kernel sensor may have frozen
  Loader,  \* the thread the agent starts to load the DLL
  Locker,  \* threads that take locks; Loader takes its lock in any case
  None     \* no thread

ASSUME ThreadsAssumption ==
  /\ IsFiniteSet(Thread)
  /\ Main \in Thread /\ Loader \in Thread /\ Main # Loader
  /\ Locker \subseteq Thread
  /\ None \notin Thread
  /\ "init" \notin Thread \cup {None}  \* Self

Self == "init"          \* the thread that runs init_hooks
Id   == Thread \cup {Self}

(* The stubs of ZwAllocateVirtualMemory and ZwOpenProcess, in the order of the
   keys of StubAddresses::addresses. *)
Order == <<"alloc", "open">>
Stub  == {"alloc", "open"}

(* What allocates takes the lock of the heap, what looks for a module or in one that
   of the loader.  Who needs both takes the loader's first. *)
Lock == {"heap", "loader"}

VARIABLES
  inject,   \* whether inject_dll has returned
  frozen,   \* Main is held by the freeze gate
  process,  \* whether the process is up
  place,    \* where each thread is
  callee,   \* the stub each thread is in, or whose hook
  owner,    \* the owner of each lock
  count,    \* suspend count of each thread
  own,      \* threads the process has started suspended
  stopped,  \* suspended threads that have come to a stop
  code,     \* what stands in the 32 bytes of each stub
  numbers,  \* stubs whose number is in SYSCALL_NUMBER
  init,     \* the next step of init_hooks
  ids,      \* thread_ids, those still to be suspended
  opened,   \* handle, not yet pushed
  handles,  \* suspended_handles
  index,    \* position in Order of the stub being patched
  caught    \* auxiliary: threads that patching may not hurt

app   == <<place, callee, owner>>
stops == <<count, own, stopped>>
stubs == <<code, numbers, index>>
dll   == <<init, ids, opened, handles>>
vars  == <<inject, frozen, process, app, stops, stubs, dll, caught>>

Alive(t) == place[t] \notin {"unborn", "ended"}

TypeOK ==
  /\ inject \in {"called", "returned"}
  /\ frozen \in BOOLEAN
  /\ process \in {"up", "aborted"}
  /\ place \in [Thread -> {"unborn", "loading", "out", "stub", "hook", "astray", "ended"}]
  /\ callee \in [Thread -> Stub \cup {None}]
  /\ owner \in [Lock -> Thread \cup {None}]
  /\ count \in [Id -> 0 .. 2]
  /\ own \subseteq Thread
  /\ stopped \subseteq Id
  /\ code \in [Stub -> {"orig", "torn", "hook"}]
  /\ numbers \subseteq Stub
  /\ init \in {"absent", "attach", "snapshot", "next", "push", "box", "map", "numbers",
               "repo", "protect", "blank", "jump", "revert", "resume", "done"}
  /\ ids \subseteq Id
  /\ opened \in Id \cup {None}
  /\ handles \in Seq(Id) /\ Len(handles) <= Cardinality(Id)
  /\ index \in 1 .. Len(Order)
  /\ caught \subseteq Thread

Init ==
  /\ inject = "called"
  /\ frozen \in BOOLEAN
  /\ process = "up"
  /\ place = [t \in Thread |-> IF t = Main THEN "out" ELSE "unborn"]
  /\ callee = [t \in Thread |-> None]
  /\ owner = [l \in Lock |-> None]
  /\ count = [t \in Id |-> 0]
  /\ own = {}
  /\ stopped = {}
  /\ code = [s \in Stub |-> "orig"]
  /\ numbers = {}
  /\ init = "absent"
  /\ ids = {}
  /\ opened = None
  /\ handles = << >>
  /\ index = 1
  /\ caught = {}

-----------------------------------------------------------------------------
(* The agent and the freeze gate. *)

(* inject_dll opens the process, allocates, writes the path, and starts Loader;
   it returns at the first of the four that fails. *)
Inject ==
  /\ process = "up"
  /\ inject = "called"
  /\ inject' = "returned"
  /\ \/ place' = [place EXCEPT ![Loader] = "loading"]
     \/ UNCHANGED place
  /\ UNCHANGED <<frozen, process, callee, owner, stops, stubs, dll, caught>>

(* The verdict, sent once inject_dll has returned, or the timeout before it. *)
Unfreeze ==
  /\ frozen
  /\ frozen' = FALSE
  /\ UNCHANGED <<inject, process, app, stops, stubs, dll, caught>>

-----------------------------------------------------------------------------
(* The threads of the process. *)

Running(t) ==
  /\ process = "up"
  /\ place[t] \in {"out", "stub", "hook"}
  /\ t \notin stopped
  /\ ~(t = Main /\ frozen)

Move(t, p) == place' = [place EXCEPT ![t] = p]

Rest == UNCHANGED <<inject, frozen, stubs, dll, caught>>

(* A call of a stub: whole, it makes the system call; patched, it jumps to the
   hook; in between, it runs into the stub behind it.  The heap grows by a call
   under its lock, and gives the lock back with the memory. *)
Call(t, s) ==
  /\ Running(t) /\ t # Loader
  /\ place[t] = "out"
  /\ owner["heap"] = t => s = "alloc"
  /\ callee' = [callee EXCEPT ![t] = IF code[s] = "torn" THEN None ELSE s]
  /\ Move(t, CASE code[s] = "orig" -> "stub"
               [] code[s] = "hook" -> "hook"
               [] OTHER            -> "astray")
  /\ UNCHANGED <<process, owner, stops>> /\ Rest

LeaveHeap(t) == owner' = [owner EXCEPT !["heap"] = IF @ = t THEN None ELSE @]

(* A thread inside a stub, in the system call perhaps, runs on with the bytes
   that stand there now; only the old ones end in a return. *)
Return(t) ==
  /\ Running(t)
  /\ place[t] = "stub"
  /\ IF code[callee[t]] = "orig" THEN Move(t, "out") /\ LeaveHeap(t)
                                 ELSE Move(t, "astray") /\ UNCHANGED owner
  /\ callee' = [callee EXCEPT ![t] = None]
  /\ UNCHANGED <<process, stops>> /\ Rest

(* nt_open_process and virtual_alloc_ex: without the number of the system call
   they panic, which aborts the process. *)
HookReturn(t) ==
  /\ Running(t)
  /\ place[t] = "hook"
  /\ IF callee[t] \in numbers
     THEN Move(t, "out") /\ LeaveHeap(t) /\ UNCHANGED process
     ELSE process' = "aborted" /\ UNCHANGED <<place, owner>>
  /\ callee' = [callee EXCEPT ![t] = None]
  /\ UNCHANGED stops /\ Rest

Take(t, l) ==
  /\ Running(t)
  /\ place[t] = "out" /\ t \in Locker /\ owner[l] = None
  /\ l = "loader" => owner["heap"] # t
  /\ owner' = [owner EXCEPT ![l] = t]
  /\ UNCHANGED <<process, place, callee, stops>> /\ Rest

Give(t, l) ==
  /\ Running(t)
  /\ place[t] = "out" /\ owner[l] = t
  /\ owner' = [owner EXCEPT ![l] = None]
  /\ UNCHANGED <<process, place, callee, stops>> /\ Rest

(* A new thread, which may be started suspended. *)
Spawn(t, u) ==
  /\ Running(t) /\ t # Loader
  /\ place[t] = "out"
  /\ place[u] = "unborn" /\ u # Loader
  /\ Move(u, "out")
  /\ \/ UNCHANGED stops
     \/ /\ own' = own \cup {u}
        /\ count' = [count EXCEPT ![u] = 1]
        /\ stopped' = stopped \cup {u}
  /\ UNCHANGED <<process, callee, owner>> /\ Rest

End(t) ==
  /\ Running(t)
  /\ place[t] = "out" /\ \A l \in Lock : owner[l] # t
  /\ Move(t, "ended")
  /\ count' = [count EXCEPT ![t] = 0]
  /\ UNCHANGED <<process, callee, owner, own, stopped>> /\ Rest

(* A suspended thread comes to a stop, some time after SuspendThread. *)
Stop(t) ==
  /\ process = "up"
  /\ count[t] > 0 /\ Alive(t)
  /\ t \notin stopped
  /\ stopped' = stopped \cup {t}
  /\ UNCHANGED <<process, app, count, own>> /\ Rest

(* ResumeThread on thread t. *)
Resumed(t) ==
  /\ count' = [count EXCEPT ![t] = IF @ > 0 THEN @ - 1 ELSE 0]
  /\ stopped' = IF count[t] <= 1 THEN stopped \ {t} ELSE stopped

OwnResume(t, u) ==
  /\ Running(t) /\ t # Loader
  /\ place[t] = "out" /\ u \in own
  /\ own' = own \ {u}
  /\ Resumed(u)
  /\ UNCHANGED <<process, app>> /\ Rest

(* LoadLibraryA calls DllMain under the lock of the loader; its CreateThread may
   fail. *)
DllMain ==
  /\ process = "up"
  /\ place[Loader] = "loading" /\ Loader \notin stopped
  /\ owner["loader"] = None
  /\ owner' = [owner EXCEPT !["loader"] = Loader]
  /\ Move(Loader, "out")
  /\ init' \in {"absent", "attach"}
  /\ UNCHANGED <<inject, frozen, process, callee, stops, stubs,
                 ids, opened, handles, caught>>

-----------------------------------------------------------------------------
(* init_hooks. *)

InitAt(step) == process = "up" /\ Self \notin stopped /\ init = step

Free(l) == owner[l] = None

(* A panic: init_hooks may not unwind into the system. *)
Abort ==
  /\ process' = "aborted"
  /\ UNCHANGED <<app, stops, stubs, dll, caught>>

\* Mutant of Listed: the thread that installs the hooks is not left out.
ListedAll == {t \in Thread : Alive(t)} \cup {Self}

\* Mutant of Listed: the loop ends after Thread32First.
ListedFirst == IF Alive(Main) THEN {Main} ELSE {t \in Thread : Alive(t)}

(* A new thread passes the loader before it runs. *)
Attach ==
  /\ InitAt("attach") /\ Free("loader")
  /\ init' = "snapshot"
  /\ UNCHANGED <<inject, frozen, process, app, stops, stubs, ids, opened,
                 handles, caught>>

(* get_thread_ids *)
Listed == {t \in Thread : Alive(t)}

Snapshot ==
  /\ InitAt("snapshot") /\ Free("heap")
  /\ \/ /\ ids' = Listed
        /\ caught' = {t \in Thread : Alive(t)}
        /\ init' = "next"
        /\ UNCHANGED <<process, app, stops, stubs, opened, handles>>
     \/ Abort
  /\ UNCHANGED <<inject, frozen>>

(* OpenThread and SuspendThread, whose result is ignored.  The id of a thread
   that has ended can be opened as long as somebody has a handle to it. *)
Suspend(t) ==
  /\ InitAt("next")
  /\ t \in ids
  /\ ids' = ids \ {t}
  /\ opened' = t
  /\ init' = "push"
  /\ count' = IF t = Self \/ Alive(t) THEN [count EXCEPT ![t] = @ + 1] ELSE count
  /\ stopped' = IF t = Self THEN stopped \cup {t} ELSE stopped
  /\ UNCHANGED <<inject, frozen, process, app, own, stubs, handles, caught>>

(* The capacity of a Vec of handles goes from 0 to 4, 8, 16, ... *)
Grows(n) == n = 0 \/ \E k \in 2 .. n : n = 2 ^ k

Push ==
  /\ InitAt("push")
  /\ Grows(Len(handles)) => Free("heap")
  /\ handles' = Append(handles, opened)
  /\ opened' = None
  /\ init' = "next"
  /\ UNCHANGED <<inject, frozen, process, app, stops, stubs, ids, caught>>

(* OpenThread fails: a message box waits for the user, and the thread runs on. *)
OpenFails(t) ==
  /\ InitAt("next") /\ Free("heap")
  /\ t \in ids
  /\ ids' = ids \ {t}
  /\ init' = "box"
  /\ caught' = caught \ {t}
  /\ UNCHANGED <<inject, frozen, process, app, stops, stubs, opened, handles>>

(* The box is shown, which may load modules, and dismissed. *)
Dismiss ==
  /\ InitAt("box") /\ Free("loader")
  /\ init' = "next"
  /\ UNCHANGED <<inject, frozen, process, app, stops, stubs, ids, opened,
                 handles, caught>>

(* StubAddresses::new looks both procedures up in ntdll, and then fills a map. *)
Resolve ==
  /\ InitAt("next") /\ Free("loader")
  /\ ids = {}
  /\ \/ /\ init' = "map"
        /\ UNCHANGED <<process, app, stops, stubs, ids, opened, handles, caught>>
     \/ Abort
  /\ UNCHANGED <<inject, frozen>>

FillMap ==
  /\ InitAt("map") /\ Free("heap")
  /\ init' = "numbers"
  /\ UNCHANGED <<inject, frozen, process, app, stops, stubs, ids, opened,
                 handles, caught>>

Readable(changed) == {s \in Stub \ changed : code[s] = "orig"}

(* The first line of patch has the numbers of all system calls read out of their
   stubs, which are looked up again, but for those another product has changed. *)
ReadNumbers ==
  /\ InitAt("numbers") /\ Free("loader")
  /\ \E changed \in SUBSET Stub : numbers' = Readable(changed)
  /\ init' = "repo"
  /\ UNCHANGED <<inject, frozen, process, app, stops, code, index, ids, opened,
                 handles, caught>>

(* They are kept in a map, and patch panics if that of ZwOpenProcess is not there. *)
KeepNumbers ==
  /\ InitAt("repo") /\ Free("heap")
  /\ \/ /\ "open" \in numbers
        /\ init' = "protect"
        /\ UNCHANGED <<process, app, stops, stubs, ids, opened, handles, caught>>
     \/ "open" \notin numbers /\ Abort
  /\ UNCHANGED <<inject, frozen>>

\* Mutant of AtLast: one too many.
AtLastLate == index > Len(Order)

AtLast == index = Len(Order)

(* VirtualProtect, before and after. *)
Protect ==
  /\ InitAt("protect")
  /\ \/ /\ init' = "blank"
        /\ UNCHANGED <<process, app, stops, stubs, ids, opened, handles, caught>>
     \/ Abort
  /\ UNCHANGED <<inject, frozen>>

Revert ==
  /\ InitAt("revert")
  /\ \/ /\ IF AtLast THEN index' = index /\ init' = "resume"
                     ELSE index' = index + 1 /\ init' = "protect"
        /\ UNCHANGED <<process, app, stops, code, numbers, ids, opened, handles, caught>>
     \/ Abort
  /\ UNCHANGED <<inject, frozen>>

Code(v) == code' = [code EXCEPT ![Order[index]] = v]

(* The first copy fills the stub with no-operations. *)
Blank ==
  /\ InitAt("blank")
  /\ Code("torn")
  /\ init' = "jump"
  /\ caught' = IF index > 1 THEN caught
               ELSE {t \in caught : /\ place[t] = "out"
                                    /\ count[t] > 0 => t \in stopped}
  /\ UNCHANGED <<inject, frozen, process, app, stops, numbers, index, ids,
                 opened, handles>>

(* The copies of the instruction and the address change nothing for a thread that
   enters; with that of the jump the stub leads to the hook. *)
Jump ==
  /\ InitAt("jump")
  /\ Code("hook")
  /\ init' = "revert"
  /\ UNCHANGED <<inject, frozen, process, app, stops, numbers, index, ids,
                 opened, handles, caught>>

(* resume_all_threads *)
Resume ==
  /\ InitAt("resume")
  /\ IF handles = << >>
     THEN init' = "done" /\ UNCHANGED <<handles, count, stopped>>
     ELSE /\ Resumed(Head(handles))
          /\ handles' = Tail(handles)
          /\ UNCHANGED init
  /\ UNCHANGED <<inject, frozen, process, app, own, stubs, ids, opened, caught>>

InitStep ==
  \/ Attach \/ Snapshot \/ Push \/ Resolve \/ FillMap \/ ReadNumbers \/ KeepNumbers
  \/ Protect \/ Blank \/ Jump \/ Revert \/ Resume
  \/ \E t \in ids : Suspend(t) \/ OpenFails(t)

AppStep(t) ==
  \/ \E s \in Stub : Call(t, s)
  \/ \E l \in Lock : Take(t, l) \/ Give(t, l)
  \/ Return(t) \/ HookReturn(t) \/ End(t) \/ Stop(t)
  \/ \E u \in Thread : Spawn(t, u) \/ OwnResume(t, u)

Next ==
  \/ Inject \/ Unfreeze \/ DllMain \/ InitStep \/ Dismiss
  \/ \E t \in Thread : AppStep(t)

Spec == Init /\ [][Next]_vars

(* The system runs the threads that may run; a thread keeps a lock for some time only,
   unless it is stopped, init_hooks gets a lock that is free again and again, and the
   user dismisses a message box.  Nothing is assumed of what else threads do. *)
Fairness ==
  /\ SF_vars(InitStep \/ Dismiss)
  /\ \A l \in Lock : SF_vars(\E t \in Thread : Give(t, l))
  /\ \A t \in Thread : WF_vars(Return(t) \/ HookReturn(t))

FairSpec == Spec /\ Fairness

-----------------------------------------------------------------------------
(* A thread the snapshot saw and that OpenThread has opened, and that stands outside
   the stubs when the first byte is overwritten, never runs a stub that is half
   overwritten, unless SuspendThread had not stopped it yet.  Threads that could not be
   opened, that were started after the snapshot, or are inside a stub, have no such
   promise. *)
CaughtStaySafe == \A t \in caught : place[t] # "astray"

(* A lock init_hooks may need is held by a thread that will not run again. *)
Stuck == \E l \in Lock : owner[l] # None /\ ~Running(owner[l])

(* The installation ends, with every thread's suspend count as the process left
   it, or in a panic, which aborts the process; unless a thread that holds the lock of
   the heap or of the loader is stopped for ever. *)
InstallEnds ==
  \/ <>[]Stuck
  \/ init # "absent" ~>
       \/ process = "aborted"
       \/ /\ init = "done"
          /\ \A t \in Thread : Alive(t) => count[t] = IF t \in own THEN 1 ELSE 0
=============================================================================
