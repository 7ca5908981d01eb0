------------------------- MODULE HookInstallProofs -------------------------
(***************************************************************************)
(* The types, and the safety of the threads that init_hooks has stopped,   *)
(* for any set of threads.                                                 *)
(***************************************************************************)
EXTENDS HookInstall, FiniteSetTheorems, SequenceTheorems, TLAPS

(* The steps before and after the bytes of stubs are overwritten. *)
Early == {"absent", "attach", "snapshot", "next", "push", "box", "map", "numbers", "repo"}
Late  == {"resume", "done"}

(* The types, without the bound on handles, which follows from HandlesKnown. *)
Typed ==
  /\ inject \in {"called", "returned"}
  /\ frozen \in BOOLEAN
  /\ process \in {"up", "aborted"}
  /\ place \in [Thread -> {"unborn", "loading", "out", "stub", "hook", "astray", "ended"}]
  /\ callee \in [Thread -> Stub \cup {None}]
  /\ owner \in [Lock -> Thread \cup {None}]
  /\ count \in [Id -> 0 .. 2]
  /\ own \subseteq Thread
  /\ stopped \subseteq Id
  /\ code \in [Stub -> {"orig", "torn", "hook"}]
  /\ numbers \subseteq Stub
  /\ init \in Early \cup Late \cup {"protect", "blank", "jump", "revert"}
  /\ ids \subseteq Id
  /\ opened \in Id \cup {None}
  /\ handles \in Seq(Id)
  /\ index \in 1 .. 2
  /\ caught \subseteq Thread

(* Some byte has been overwritten. *)
Patched == init \in Late \cup {"jump", "revert"} \/ index > 1

(* init_hooks does not run before the agent's thread has loaded the DLL; a thread
   inside a stub is inside a certain one, and none goes astray while all are
   whole. *)
PlacesKnown ==
  /\ inject = "called" => place[Loader] = "unborn"
  /\ place[Loader] \in {"unborn", "loading"} => init = "absent"
  /\ \A t \in Thread : /\ place[t] = "stub" => callee[t] \in Stub
                       /\ ~ Patched => place[t] # "astray"

(* A thread whose handle init_hooks has and has not given back. *)
Held(t) == opened = t \/ \E i \in 1 .. Len(handles) : handles[i] = t

(* The ids still to be opened, the handle just opened and the handles kept are of
   threads that have been started, each of them one place. *)
HandlesKnown ==
  /\ ids \subseteq Thread /\ opened \in Thread \cup {None}
  /\ \A i \in 1 .. Len(handles) : handles[i] \in Thread /\ handles[i] # opened
  /\ \A i, j \in 1 .. Len(handles) : handles[i] = handles[j] => i = j
  /\ \A t \in Thread : t \in ids => ~ Held(t)
  /\ \A t \in Thread : place[t] = "unborn" => t \notin ids \cup own \cup caught /\ ~ Held(t)
  /\ init \in {"absent", "attach", "snapshot"} =>
       ids = {} /\ opened = None /\ handles = << >> /\ caught = {}
  /\ opened # None <=> init = "push"
  /\ init \notin {"next", "push", "box"} => ids = {}

(* A thread is suspended once for the process and once for a handle. *)
Counted ==
  /\ count[Self] = 0
  /\ \A t \in Thread :
       count[t] = IF ~ Alive(t) THEN 0
                  ELSE (IF t \in own THEN 1 ELSE 0) + (IF Held(t) THEN 1 ELSE 0)

(* The stubs are overwritten one after the other. *)
CodeKnown ==
  /\ init \in Early => index = 1
  /\ init \in Late => index = 2
  /\ \A j \in 1 .. 2 :
       code[Order[j]] =
         IF j < index \/ (j = index /\ init \in Late \cup {"revert"}) THEN "hook"
         ELSE IF j = index /\ init = "jump" THEN "torn" ELSE "orig"

(* A thread that was caught is on its way to be suspended, or ended; while stubs
   are overwritten it stands still, and after that it finds whole hooks. *)
CaughtKnown ==
  \A t \in caught :
    /\ ~ Patched => place[t] # "astray" /\ (place[t] = "ended" \/ t \in ids \/ Held(t))
    /\ Patched /\ init \notin Late => place[t] = "out" /\ t \in stopped /\ Held(t)
    /\ init \in Late => place[t] \in {"out", "hook", "ended"}

(* The inductive invariant. *)
Inv == Typed /\ PlacesKnown /\ HandlesKnown /\ Counted /\ CodeKnown /\ CaughtKnown

-----------------------------------------------------------------------------
(* resume_all_threads takes the first handle off the list. *)
LEMMA GivenBack ==
  ASSUME Inv, Resume, handles # << >>
  PROVE  /\ Len(handles) \in Nat \ {0}
         /\ Len(handles') = Len(handles) - 1 /\ handles' \in Seq(Id)
         /\ \A i \in 1 .. Len(handles') : handles'[i] = handles[i + 1]
<1>1. handles \in Seq(Id) /\ handles' = Tail(handles)
  BY DEF Typed, Inv, Resume
<1> QED
  BY <1>1, HeadTailProperties, EmptySeq

(* The agent's inject_dll keeps the invariant: its thread has not been started before. *)
LEMMA InjectKept ==
  ASSUME Inv, Inject
  PROVE  Inv'
<1> USE DEF Inv, Inject
<1>1. Typed'
  BY DEF Typed, dll, stops, stubs
<1>2. PlacesKnown'
  BY DEF Typed, Patched, PlacesKnown, dll, stubs
<1>3. HandlesKnown'
  BY DEF Typed, HandlesKnown, Held, dll, stops
<1>4. Counted'
  BY DEF Typed, Alive, Counted, HandlesKnown, Held, PlacesKnown, dll, stops
<1>5. CodeKnown'
  BY DEF CodeKnown, dll, stubs
<1>6. CaughtKnown'
  BY DEF Typed, CaughtKnown, Held, Patched, PlacesKnown, dll, stops, stubs
<1> QED
  BY <1>1, <1>2, <1>3, <1>4, <1>5, <1>6

(* Releasing the first thread keeps the invariant. *)
LEMMA UnfreezeKept ==
  ASSUME Inv, Unfreeze
  PROVE  Inv'
<1> USE DEF Inv, Unfreeze
<1>1. Typed'
  BY DEF Typed, app, dll, stops, stubs
<1>2. PlacesKnown'
  BY DEF Patched, PlacesKnown, app, dll, stubs
<1>3. HandlesKnown'
  BY DEF HandlesKnown, Held, app, dll, stops
<1>4. Counted'
  BY DEF Alive, Counted, Held, app, dll, stops
<1>5. CodeKnown'
  BY DEF CodeKnown, dll, stubs
<1>6. CaughtKnown'
  BY DEF CaughtKnown, Held, Patched, app, dll, stops, stubs
<1> QED
  BY <1>1, <1>2, <1>3, <1>4, <1>5, <1>6

(* Starting init_hooks keeps the invariant: nothing of it has been done yet. *)
LEMMA DllMainKept ==
  ASSUME Inv, DllMain
  PROVE  Inv'
<1> USE DEF Inv, DllMain
<1>1. Typed'
  BY ThreadsAssumption DEF Typed, Early, Lock, Move, stops, stubs
<1>2. PlacesKnown'
  BY ThreadsAssumption DEF Typed, Late, Move, Patched, PlacesKnown, stubs
<1>3. HandlesKnown'
  BY DEF HandlesKnown, Held, Move, PlacesKnown, stops
<1>4. Counted'
  BY DEF Alive, Counted, Held, Move, stops
<1>5. CodeKnown'
  BY DEF Typed, CodeKnown, Late, PlacesKnown, stubs
<1>6. CaughtKnown'
  BY DEF CaughtKnown, Held, Late, Move, Patched, PlacesKnown, stops, stubs
<1> QED
  BY <1>1, <1>2, <1>3, <1>4, <1>5, <1>6

(* The answer to a message box keeps the invariant. *)
LEMMA DismissKept ==
  ASSUME Inv, Dismiss
  PROVE  Inv'
<1> USE DEF Inv, Dismiss
<1>1. Typed'
  BY DEF Typed, Early, app, stops, stubs
<1>2. PlacesKnown'
  BY DEF InitAt, Late, Patched, PlacesKnown, app, stubs
<1>3. HandlesKnown'
  BY DEF HandlesKnown, Held, InitAt, app, stops
<1>4. Counted'
  BY DEF Alive, Counted, Held, app, stops
<1>5. CodeKnown'
  BY DEF Typed, CodeKnown, InitAt, Late, stubs
<1>6. CaughtKnown'
  BY DEF CaughtKnown, Held, InitAt, Late, Patched, app, stops, stubs
<1> QED
  BY <1>1, <1>2, <1>3, <1>4, <1>5, <1>6

(* The new thread's way through the loader keeps the invariant: no thread has been listed. *)
LEMMA AttachKept ==
  ASSUME Inv, Attach
  PROVE  Inv'
<1> USE DEF Inv, Attach
<1>1. Typed'
  BY DEF Typed, Early, app, dll, stops, stubs
<1>2. PlacesKnown'
  BY DEF InitAt, Late, Patched, PlacesKnown, app, stubs
<1>3. HandlesKnown'
  BY DEF HandlesKnown, Held, InitAt, app, dll, stops
<1>4. Counted'
  BY DEF Alive, Counted, Held, app, dll, stops
<1>5. CodeKnown'
  BY DEF Typed, CodeKnown, InitAt, Late, dll, stubs
<1>6. CaughtKnown'
  BY DEF CaughtKnown, Held, InitAt, Late, Patched, app, dll, stops, stubs
<1> QED
  BY <1>1, <1>2, <1>3, <1>4, <1>5, <1>6

(* The snapshot keeps the invariant: who is caught is listed, and nobody is astray. *)
LEMMA SnapshotKept ==
  ASSUME Inv, Snapshot
  PROVE  Inv'
<1> USE DEF Inv, Snapshot
<1>1. Typed'
  BY DEF Typed, Abort, Early, Id, Listed, app, dll, stops, stubs
<1>2. PlacesKnown'
  BY DEF Abort, InitAt, Late, Patched, PlacesKnown, app, stubs
<1>3. HandlesKnown'
  BY ThreadsAssumption
  DEF Abort, Alive, HandlesKnown, Held, InitAt, Listed, app, dll, stops
<1>4. Counted'
  BY DEF Abort, Alive, Counted, Held, Late, app, dll, stops
<1>5. CodeKnown'
  BY DEF Typed, Abort, CodeKnown, InitAt, Late, dll, stubs
<1>6. CaughtKnown'
  BY DEF Typed, Abort, CaughtKnown, CodeKnown, Held, InitAt, Late, Listed, Patched,
         PlacesKnown, app, dll, stubs
<1> QED
  BY <1>1, <1>2, <1>3, <1>4, <1>5, <1>6

(* Resolving the addresses keeps the invariant: every id has been opened or has failed. *)
LEMMA ResolveKept ==
  ASSUME Inv, Resolve
  PROVE  Inv'
<1> USE DEF Inv, Resolve
<1>1. Typed'
  BY DEF Typed, Abort, Early, app, dll, stops, stubs
<1>2. PlacesKnown'
  BY DEF Abort, InitAt, Late, Patched, PlacesKnown, app, stubs
<1>3. HandlesKnown'
  BY DEF Abort, HandlesKnown, Held, InitAt, app, dll, stops
<1>4. Counted'
  BY DEF Abort, Alive, Counted, Held, app, dll, stops
<1>5. CodeKnown'
  BY DEF Typed, Abort, CodeKnown, InitAt, Late, dll, stubs
<1>6. CaughtKnown'
  BY DEF Abort, CaughtKnown, Held, InitAt, Late, Patched, app, dll, stops, stubs
<1> QED
  BY <1>1, <1>2, <1>3, <1>4, <1>5, <1>6

(* Filling the map of addresses keeps the invariant. *)
LEMMA FillMapKept ==
  ASSUME Inv, FillMap
  PROVE  Inv'
<1> USE DEF Inv, FillMap
<1>1. Typed'
  BY DEF Typed, Early, app, dll, stops, stubs
<1>2. PlacesKnown'
  BY DEF InitAt, Late, Patched, PlacesKnown, app, stubs
<1>3. HandlesKnown'
  BY DEF HandlesKnown, Held, InitAt, app, dll, stops
<1>4. Counted'
  BY DEF Alive, Counted, Held, app, dll, stops
<1>5. CodeKnown'
  BY DEF Typed, CodeKnown, InitAt, Late, dll, stubs
<1>6. CaughtKnown'
  BY DEF CaughtKnown, Held, InitAt, Late, Patched, app, dll, stops, stubs
<1> QED
  BY <1>1, <1>2, <1>3, <1>4, <1>5, <1>6

(* Reading the numbers of the system calls keeps the invariant. *)
LEMMA ReadNumbersKept ==
  ASSUME Inv, ReadNumbers
  PROVE  Inv'
<1> USE DEF Inv, ReadNumbers
<1>1. Typed'
  BY DEF Typed, Early, Readable, app, stops
<1>2. PlacesKnown'
  BY DEF InitAt, Late, Patched, PlacesKnown, app, stubs
<1>3. HandlesKnown'
  BY DEF HandlesKnown, Held, InitAt, app, dll, stops
<1>4. Counted'
  BY DEF Alive, Counted, Held, app, dll, stops
<1>5. CodeKnown'
  BY DEF Typed, CodeKnown, InitAt, Late, dll, stubs
<1>6. CaughtKnown'
  BY DEF CaughtKnown, Held, InitAt, Late, Patched, app, dll, stops, stubs
<1> QED
  BY <1>1, <1>2, <1>3, <1>4, <1>5, <1>6

(* Keeping the numbers keeps the invariant. *)
LEMMA KeepNumbersKept ==
  ASSUME Inv, KeepNumbers
  PROVE  Inv'
<1> USE DEF Inv, KeepNumbers
<1>1. Typed'
  BY DEF Typed, Abort, Early, app, dll, stops, stubs
<1>2. PlacesKnown'
  BY DEF Abort, InitAt, Late, Patched, PlacesKnown, app, stubs
<1>3. HandlesKnown'
  BY DEF Abort, HandlesKnown, Held, InitAt, app, dll, stops
<1>4. Counted'
  BY DEF Abort, Alive, Counted, Held, Self, app, dll, stops
<1>5. CodeKnown'
  BY DEF Typed, Abort, CodeKnown, InitAt, Late, dll, stubs
<1>6. CaughtKnown'
  BY DEF Abort, CaughtKnown, Held, InitAt, Late, Patched, app, dll, stops, stubs
<1> QED
  BY <1>1, <1>2, <1>3, <1>4, <1>5, <1>6

(* The first VirtualProtect keeps the invariant. *)
LEMMA ProtectKept ==
  ASSUME Inv, Protect
  PROVE  Inv'
<1> USE DEF Inv, Protect
<1>1. Typed'
  BY DEF Typed, Abort, app, dll, stops, stubs
<1>2. PlacesKnown'
  BY DEF Abort, InitAt, Late, Patched, PlacesKnown, app, stubs
<1>3. HandlesKnown'
  BY DEF Abort, HandlesKnown, Held, InitAt, app, dll, stops
<1>4. Counted'
  BY DEF Abort, Alive, Counted, Held, Self, app, dll, stops
<1>5. CodeKnown'
  BY DEF Abort, CodeKnown, Early, InitAt, Late, dll, stubs
<1>6. CaughtKnown'
  BY DEF Abort, CaughtKnown, Held, InitAt, Late, Patched, app, dll, stops, stubs
<1> QED
  BY <1>1, <1>2, <1>3, <1>4, <1>5, <1>6

(* The second VirtualProtect keeps the invariant: on to the next stub or to resuming. *)
LEMMA RevertKept ==
  ASSUME Inv, Revert
  PROVE  Inv'
<1> USE DEF Inv, Revert
<1>1. Typed'
  <2>1. /\ index' \in 1 .. 2
        /\ init' \in Early \cup Late \cup {"protect", "revert"}
        /\ process' \in {"up", "aborted"}
    BY DEF Typed, Abort, AtLast, InitAt, Late, Order, dll, stubs
  <2> QED
    BY <2>1 DEF Typed, Abort, app, dll, stops, stubs
<1>2. PlacesKnown'
  BY DEF Typed, Abort, InitAt, Late, Patched, PlacesKnown, app, dll
<1>3. HandlesKnown'
  BY DEF Abort, HandlesKnown, Held, InitAt, app, dll, stops
<1>4. Counted'
  BY DEF Abort, Alive, Counted, Held, app, dll, stops
<1>5. CodeKnown'
  BY DEF Typed, Abort, AtLast, CodeKnown, Early, InitAt, Late, Order, dll, stubs
<1>6. CaughtKnown'
  BY DEF Abort, CaughtKnown, Held, InitAt, Late, Patched, app, dll, stops
<1> QED
  BY <1>1, <1>2, <1>3, <1>4, <1>5, <1>6

(* The first byte of a stub keeps the invariant: who is still caught stands still. *)
LEMMA BlankKept ==
  ASSUME Inv, Blank
  PROVE  Inv'
<1> USE DEF Inv, Blank
<1>1. Typed'
  BY DEF Typed, Code, app, stops
<1>2. PlacesKnown'
  BY DEF InitAt, Patched, PlacesKnown, app
<1>3. HandlesKnown'
  BY DEF HandlesKnown, Held, InitAt, app, stops
<1>4. Counted'
  BY DEF Alive, Counted, Held, app, stops
<1>5. CodeKnown'
  BY DEF Typed, Code, CodeKnown, Early, Late, Order, Stub
<1>6. CaughtKnown'
  BY DEF Typed, Alive, CaughtKnown, Counted, HandlesKnown, Held, InitAt, Late, Patched,
         app, stops
<1> QED
  BY <1>1, <1>2, <1>3, <1>4, <1>5, <1>6

(* The jump keeps the invariant: the stub is a whole hook. *)
LEMMA JumpKept ==
  ASSUME Inv, Jump
  PROVE  Inv'
<1> USE DEF Inv, Jump
<1>1. Typed'
  BY DEF Typed, Code, app, stops
<1>2. PlacesKnown'
  BY DEF InitAt, Patched, PlacesKnown, app
<1>3. HandlesKnown'
  BY DEF HandlesKnown, Held, InitAt, app, stops
<1>4. Counted'
  BY DEF Alive, Counted, Held, app, stops
<1>5. CodeKnown'
  BY DEF Typed, Code, CodeKnown, Early, Late, Order, Stub
<1>6. CaughtKnown'
  BY DEF CaughtKnown, Held, InitAt, Late, Patched, app, stops
<1> QED
  BY <1>1, <1>2, <1>3, <1>4, <1>5, <1>6

(* Keeping a handle keeps the invariant: the handle moves to the end of the list. *)
LEMMA PushKept ==
  ASSUME Inv, Push
  PROVE  Inv'
<1> USE DEF Inv, Push
<1>1. Typed'
  <2>1. opened \in Thread
    BY DEF HandlesKnown, InitAt
  <2>2. handles' \in Seq(Id)
    BY <2>1, AppendProperties DEF Typed, Id
  <2> QED
    BY <2>2 DEF Typed, Early, app, stops, stubs
<1>2. PlacesKnown'
  BY DEF InitAt, Late, Patched, PlacesKnown, app, stubs
<1>3. HandlesKnown'
  <2>1. opened \in Thread /\ init = "push"
    BY DEF HandlesKnown, InitAt
  <2>2. /\ handles \in Seq(Id) /\ handles' \in Seq(Id) /\ Len(handles) \in Nat
        /\ Len(handles') = Len(handles) + 1
        /\ \A i \in 1 .. Len(handles) : handles'[i] = handles[i]
        /\ handles'[Len(handles) + 1] = opened
    BY <2>1, AppendProperties, LenProperties DEF Typed, Id
  <2>3. \A i \in 1 .. Len(handles') :
          i \in 1 .. Len(handles) \/ i = Len(handles) + 1
    BY <2>2
  <2>4. /\ \A i \in 1 .. Len(handles') : handles'[i] \in Thread
        /\ \A i, j \in 1 .. Len(handles') : handles'[i] = handles'[j] => i = j
    BY <2>1, <2>2, <2>3 DEF HandlesKnown
  <2>5. \A t \in Thread : Held(t)' => Held(t)
    BY ThreadsAssumption, <2>1, <2>2, <2>3 DEF Held
  <2> QED
    BY ThreadsAssumption, <2>1, <2>4, <2>5 DEF HandlesKnown, app, stops
<1>4. Counted'
  BY ThreadsAssumption DEF Alive, Counted, Held, app, stops
<1>5. CodeKnown'
  BY DEF Typed, CodeKnown, InitAt, Late, stubs
<1>6. CaughtKnown'
  BY DEF CaughtKnown, Held, InitAt, Late, Patched, app, stops, stubs
<1> QED
  BY <1>1, <1>2, <1>3, <1>4, <1>5, <1>6

(* Giving a handle back keeps the invariant: its thread, and no other, is let go. *)
LEMMA ResumeKept ==
  ASSUME Inv, Resume
  PROVE  Inv'
<1> USE DEF Inv, Resume
<1>1. Typed'
  <2>1. CASE handles = << >>
    BY <2>1 DEF Typed, Late, app, stubs
  <2>2. CASE handles # << >>
    <3>1. /\ Len(handles) \in Nat \ {0}
          /\ Len(handles') = Len(handles) - 1 /\ handles' \in Seq(Id)
          /\ \A i \in 1 .. Len(handles') : handles'[i] = handles[i + 1]
      BY <2>2, GivenBack
    <3>2. Head(handles) = handles[1] /\ handles[1] \in Thread /\ opened = None
      BY <3>1 DEF HandlesKnown, InitAt
    <3>3. count' \in [Id -> 0 .. 2]
      BY <2>2, <3>2 DEF Typed, Resumed
    <3>4. stopped' \subseteq Id
      BY <2>2, <3>2 DEF Typed, Resumed
    <3> QED
      BY <2>2, <3>1, <3>3, <3>4 DEF Typed, app, stubs
  <2> QED
    BY <2>1, <2>2
<1>2. PlacesKnown'
  BY DEF InitAt, Late, Patched, PlacesKnown, app
<1>3. HandlesKnown'
  <2>1. CASE handles = << >>
    BY <2>1 DEF HandlesKnown, Held, InitAt, app
  <2>2. CASE handles # << >>
    <3>1. /\ Len(handles) \in Nat \ {0}
          /\ Len(handles') = Len(handles) - 1 /\ handles' \in Seq(Id)
          /\ \A i \in 1 .. Len(handles') : handles'[i] = handles[i + 1]
      BY <2>2, GivenBack
    <3>2. Head(handles) = handles[1] /\ handles[1] \in Thread /\ opened = None
      BY <3>1 DEF HandlesKnown, InitAt
    <3>3. /\ \A i \in 1 .. Len(handles') : handles'[i] \in Thread
          /\ \A i, j \in 1 .. Len(handles') : handles'[i] = handles'[j] => i = j
      BY <3>1 DEF HandlesKnown
    <3>4. \A t \in Thread : Held(t)' => Held(t)
      BY <3>1 DEF Held
    <3> QED
      BY <2>2, <3>1, <3>2, <3>3, <3>4 DEF HandlesKnown, app
  <2> QED
    BY <2>1, <2>2
<1>4. Counted'
  <2>1. CASE handles = << >>
    BY <2>1 DEF Alive, Counted, Held, app
  <2>2. CASE handles # << >>
    <3>1. /\ Len(handles) \in Nat \ {0}
          /\ Len(handles') = Len(handles) - 1 /\ handles' \in Seq(Id)
          /\ \A i \in 1 .. Len(handles') : handles'[i] = handles[i + 1]
      BY <2>2, GivenBack
    <3>2. Head(handles) = handles[1] /\ handles[1] \in Thread /\ opened = None
      BY <3>1 DEF HandlesKnown, InitAt
    <3>3. \A t \in Thread : Held(t)' <=> Held(t) /\ t # handles[1]
      <4>1. \A t \in Thread : Held(t)' => Held(t) /\ t # handles[1]
        BY <3>1, <3>2 DEF HandlesKnown, Held
      <4>2. ASSUME NEW t \in Thread, Held(t), t # handles[1]
            PROVE  Held(t)'
        <5>1. PICK i \in 1 .. Len(handles) : handles[i] = t
          BY ThreadsAssumption, <3>1, <3>2, <4>2 DEF Held
        <5>2. i - 1 \in 1 .. Len(handles') /\ (i - 1) + 1 = i
          BY <3>1, <4>2, <5>1
        <5> QED
          BY <3>1, <5>1, <5>2 DEF Held
      <4> QED
        BY <4>1, <4>2
    <3>4. Held(handles[1]) /\ handles[1] # Self
      BY ThreadsAssumption, <3>1, <3>2 DEF Held, Self
    <3> QED
      BY <2>2, <3>2, <3>3, <3>4 DEF Typed, Alive, Counted, Id, Resumed, app
  <2> QED
    BY <2>1, <2>2
<1>5. CodeKnown'
  BY DEF CodeKnown, Early, InitAt, Late, stubs
<1>6. CaughtKnown'
  BY DEF CaughtKnown, InitAt, Late, Patched, app
<1> QED
  BY <1>1, <1>2, <1>3, <1>4, <1>5, <1>6

(* A call of a stub keeps the invariant: who is caught finds it whole. *)
LEMMA CallKept ==
  ASSUME Inv, NEW t \in Thread, NEW s \in Stub, Call(t, s)
  PROVE  Inv'
<1> USE DEF Inv, Call
<1>1. Typed'
  BY DEF Typed, Move, Rest, dll, stops, stubs
<1>2. PlacesKnown'
  BY DEF Typed, CodeKnown, Move, Order, Patched, PlacesKnown, Rest, Stub, dll, stubs
<1>3. HandlesKnown'
  BY DEF HandlesKnown, Held, Move, Rest, dll, stops
<1>4. Counted'
  BY DEF Alive, Counted, Held, Move, Rest, dll, stops
<1>5. CodeKnown'
  BY DEF CodeKnown, Rest, dll, stubs
<1>6. CaughtKnown'
  BY DEF CaughtKnown, CodeKnown, Held, Move, Order, Patched, Rest, Running, Stub, dll,
         stops, stubs
<1> QED
  BY <1>1, <1>2, <1>3, <1>4, <1>5, <1>6

(* A return from a stub keeps the invariant: the stub is whole as long as a caught
   thread can be inside. *)
LEMMA ReturnKept ==
  ASSUME Inv, NEW t \in Thread, Return(t)
  PROVE  Inv'
<1> USE DEF Inv, Return
<1>1. Typed'
  BY DEF Typed, LeaveHeap, Move, Rest, dll, stops, stubs
<1>2. PlacesKnown'
  BY ThreadsAssumption
  DEF Typed, CodeKnown, Move, Order, Patched, PlacesKnown, Rest, Stub, dll, stubs
<1>3. HandlesKnown'
  BY DEF Typed, HandlesKnown, Held, Move, Rest, dll, stops
<1>4. Counted'
  BY DEF Typed, Alive, Counted, Held, Move, Rest, dll, stops
<1>5. CodeKnown'
  BY DEF CodeKnown, Rest, dll, stubs
<1>6. CaughtKnown'
  BY DEF Typed, CaughtKnown, CodeKnown, Held, Move, Order, Patched, PlacesKnown, Rest,
         Stub, dll, stops, stubs
<1> QED
  BY <1>1, <1>2, <1>3, <1>4, <1>5, <1>6

(* A return from a hook keeps the invariant. *)
LEMMA HookReturnKept ==
  ASSUME Inv, NEW t \in Thread, HookReturn(t)
  PROVE  Inv'
<1> USE DEF Inv, HookReturn
<1>1. Typed'
  BY DEF Typed, LeaveHeap, Move, Rest, dll, stops, stubs
<1>2. PlacesKnown'
  BY ThreadsAssumption DEF Typed, Move, Patched, PlacesKnown, Rest, dll, stubs
<1>3. HandlesKnown'
  BY DEF Typed, HandlesKnown, Held, Move, Rest, dll, stops
<1>4. Counted'
  BY DEF Typed, Alive, Counted, Held, Move, Rest, dll, stops
<1>5. CodeKnown'
  BY DEF CodeKnown, Rest, dll, stubs
<1>6. CaughtKnown'
  BY DEF Typed, CaughtKnown, Held, Move, Patched, Rest, dll, stops, stubs
<1> QED
  BY <1>1, <1>2, <1>3, <1>4, <1>5, <1>6

(* Taking a lock keeps the invariant. *)
LEMMA TakeKept ==
  ASSUME Inv, NEW t \in Thread, NEW l \in Lock, Take(t, l)
  PROVE  Inv'
<1> USE DEF Inv, Take
<1>1. Typed'
  BY DEF Typed, Rest, dll, stops, stubs
<1>2. PlacesKnown'
  BY DEF Patched, PlacesKnown, Rest, dll, stubs
<1>3. HandlesKnown'
  BY DEF HandlesKnown, Held, Rest, dll, stops
<1>4. Counted'
  BY DEF Alive, Counted, Held, Rest, dll, stops
<1>5. CodeKnown'
  BY DEF CodeKnown, Rest, dll, stubs
<1>6. CaughtKnown'
  BY DEF CaughtKnown, Held, Patched, Rest, dll, stops, stubs
<1> QED
  BY <1>1, <1>2, <1>3, <1>4, <1>5, <1>6

(* Giving a lock back keeps the invariant. *)
LEMMA GiveKept ==
  ASSUME Inv, NEW t \in Thread, NEW l \in Lock, Give(t, l)
  PROVE  Inv'
<1> USE DEF Inv, Give
<1>1. Typed'
  BY DEF Typed, Rest, dll, stops, stubs
<1>2. PlacesKnown'
  BY DEF Patched, PlacesKnown, Rest, dll, stubs
<1>3. HandlesKnown'
  BY DEF HandlesKnown, Held, Rest, dll, stops
<1>4. Counted'
  BY DEF Alive, Counted, Held, Rest, dll, stops
<1>5. CodeKnown'
  BY DEF CodeKnown, Rest, dll, stubs
<1>6. CaughtKnown'
  BY DEF CaughtKnown, Held, Patched, Rest, dll, stops, stubs
<1> QED
  BY <1>1, <1>2, <1>3, <1>4, <1>5, <1>6

(* A new thread keeps the invariant: it was not in any list. *)
LEMMA SpawnKept ==
  ASSUME Inv, NEW t \in Thread, NEW u \in Thread, Spawn(t, u)
  PROVE  Inv'
<1> USE DEF Inv, Spawn
<1>1. Typed'
  BY DEF Typed, Id, Move, Rest, dll, stops, stubs
<1>2. PlacesKnown'
  BY DEF Move, Patched, PlacesKnown, Rest, dll, stubs
<1>3. HandlesKnown'
  BY DEF Typed, HandlesKnown, Held, Move, Rest, dll, stops
<1>4. Counted'
  BY ThreadsAssumption
  DEF Typed, Alive, Counted, HandlesKnown, Held, Id, Move, Rest, Self, dll, stops
<1>5. CodeKnown'
  BY DEF CodeKnown, Rest, dll, stubs
<1>6. CaughtKnown'
  BY DEF CaughtKnown, Held, Move, Patched, Rest, dll, stops, stubs
<1> QED
  BY <1>1, <1>2, <1>3, <1>4, <1>5, <1>6

(* A thread's end keeps the invariant, although its handle stays in the list. *)
LEMMA EndKept ==
  ASSUME Inv, NEW t \in Thread, End(t)
  PROVE  Inv'
<1> USE DEF Inv, End
<1>1. Typed'
  BY DEF Typed, Id, Move, Rest, dll, stubs
<1>2. PlacesKnown'
  BY DEF Move, Patched, PlacesKnown, Rest, dll, stubs
<1>3. HandlesKnown'
  BY DEF HandlesKnown, Held, Move, Rest, dll
<1>4. Counted'
  BY DEF Typed, Alive, Counted, Held, Id, Move, Rest, dll
<1>5. CodeKnown'
  BY DEF CodeKnown, Rest, dll, stubs
<1>6. CaughtKnown'
  BY DEF CaughtKnown, Held, Move, Patched, Rest, Running, dll, stubs
<1> QED
  BY <1>1, <1>2, <1>3, <1>4, <1>5, <1>6

(* A thread that comes to a stop keeps the invariant. *)
LEMMA StopKept ==
  ASSUME Inv, NEW t \in Thread, Stop(t)
  PROVE  Inv'
<1> USE DEF Inv, Stop
<1>1. Typed'
  BY DEF Typed, Id, Rest, app, dll, stubs
<1>2. PlacesKnown'
  BY DEF Patched, PlacesKnown, Rest, app, dll, stubs
<1>3. HandlesKnown'
  BY DEF HandlesKnown, Held, Rest, app, dll
<1>4. Counted'
  BY DEF Alive, Counted, Held, Rest, app, dll
<1>5. CodeKnown'
  BY DEF CodeKnown, Rest, dll, stubs
<1>6. CaughtKnown'
  BY DEF CaughtKnown, Held, Patched, Rest, app, dll, stubs
<1> QED
  BY <1>1, <1>2, <1>3, <1>4, <1>5, <1>6

(* ResumeThread by the process keeps the invariant: init_hooks' own count remains. *)
LEMMA OwnResumeKept ==
  ASSUME Inv, NEW t \in Thread, NEW u \in Thread, OwnResume(t, u)
  PROVE  Inv'
<1> USE DEF Inv, OwnResume
<1>1. Typed'
  BY DEF Typed, Id, Rest, Resumed, app, dll, stubs
<1>2. PlacesKnown'
  BY DEF Patched, PlacesKnown, Rest, app, dll, stubs
<1>3. HandlesKnown'
  BY DEF HandlesKnown, Held, Rest, app, dll
<1>4. Counted'
  BY DEF Typed, Alive, Counted, Held, Id, Rest, Resumed, app, dll
<1>5. CodeKnown'
  BY DEF CodeKnown, Rest, dll, stubs
<1>6. CaughtKnown'
  BY DEF Alive, CaughtKnown, Counted, Held, Patched, Rest, Resumed, app, dll, stubs
<1> QED
  BY <1>1, <1>2, <1>3, <1>4, <1>5, <1>6

(* Opening and suspending a thread keeps the invariant: the thread had no handle yet. *)
LEMMA SuspendKept ==
  ASSUME Inv, NEW t \in ids, Suspend(t)
  PROVE  Inv'
<1> USE DEF Inv, Suspend
<1>1. Typed'
  <2>1. t \in Thread /\ t # Self
    BY ThreadsAssumption DEF HandlesKnown, Self
  <2>2. count[t] \in 0 .. 1 \/ ~ Alive(t)
    BY <2>1 DEF Counted, HandlesKnown
  <2>3. count' \in [Id -> 0 .. 2]
    BY <2>1, <2>2 DEF Typed
  <2> QED
    BY <2>1, <2>3 DEF Typed, Early, app, stubs
<1>2. PlacesKnown'
  BY DEF InitAt, Late, Patched, PlacesKnown, app, stubs
<1>3. HandlesKnown'
  BY DEF HandlesKnown, Held, InitAt, app
<1>4. Counted'
  BY ThreadsAssumption DEF Typed, Alive, Counted, HandlesKnown, Held, InitAt, Self, app
<1>5. CodeKnown'
  BY DEF Typed, CodeKnown, InitAt, Late, stubs
<1>6. CaughtKnown'
  BY ThreadsAssumption
  DEF Typed, CaughtKnown, HandlesKnown, Held, InitAt, Late, Patched, app, stubs
<1> QED
  BY <1>1, <1>2, <1>3, <1>4, <1>5, <1>6

(* A thread that cannot be opened keeps the invariant: it is not caught any more. *)
LEMMA OpenFailsKept ==
  ASSUME Inv, NEW t \in ids, OpenFails(t)
  PROVE  Inv'
<1> USE DEF Inv, OpenFails
<1>1. Typed'
  BY DEF Typed, Early, app, stops, stubs
<1>2. PlacesKnown'
  BY DEF InitAt, Late, Patched, PlacesKnown, app, stubs
<1>3. HandlesKnown'
  BY DEF HandlesKnown, Held, InitAt, app, stops
<1>4. Counted'
  BY DEF Alive, Counted, Held, app, stops
<1>5. CodeKnown'
  BY DEF Typed, CodeKnown, InitAt, Late, stubs
<1>6. CaughtKnown'
  BY DEF CaughtKnown, Held, InitAt, Late, Patched, app, stops, stubs
<1> QED
  BY <1>1, <1>2, <1>3, <1>4, <1>5, <1>6

-----------------------------------------------------------------------------
(* The invariant holds initially. *)
LEMMA Initial == Init => Inv
<1> SUFFICES ASSUME Init PROVE Inv
  OBVIOUS
<1> USE ThreadsAssumption DEF ThreadsAssumption, Init
<1>1. Typed
  BY EmptySeq DEF Typed, Id, Self, Stub, Early, Late
<1>2. PlacesKnown
  BY DEF PlacesKnown, Patched, Late
<1>3. Len(handles) = 0
  BY EmptySeq
<1>4. HandlesKnown
  BY <1>3 DEF HandlesKnown, Held
<1>5. Counted
  BY <1>3 DEF Counted, Held, Alive, Id, Self
<1>6. CodeKnown
  BY DEF CodeKnown, Order, Stub, Early, Late
<1>7. CaughtKnown
  BY DEF CaughtKnown
<1> QED
  BY <1>1, <1>2, <1>4, <1>5, <1>6, <1>7 DEF Inv

(* Every step keeps the invariant. *)
LEMMA Kept == Inv /\ [Next]_vars => Inv'
<1> SUFFICES ASSUME Inv, [Next]_vars PROVE Inv'
  OBVIOUS
<1>1. CASE UNCHANGED vars
  BY <1>1 DEF vars, app, stops, stubs, dll, Inv, Typed, PlacesKnown, HandlesKnown, Held,
         Counted, Alive, CodeKnown, CaughtKnown, Patched
<1>2. CASE Inject \/ Unfreeze \/ DllMain \/ Dismiss
  BY <1>2, InjectKept, UnfreezeKept, DllMainKept, DismissKept
<1>3. CASE InitStep
  BY <1>3, AttachKept, SnapshotKept, PushKept, ResolveKept, FillMapKept, ReadNumbersKept,
     KeepNumbersKept, ProtectKept, BlankKept, JumpKept, RevertKept, ResumeKept,
     SuspendKept, OpenFailsKept DEF InitStep
<1>4. ASSUME NEW t \in Thread, AppStep(t)
      PROVE  Inv'
  BY <1>4, CallKept, ReturnKept, HookReturnKept, TakeKept, GiveKept, EndKept, StopKept,
     SpawnKept, OwnResumeKept DEF AppStep
<1> QED
  BY <1>1, <1>2, <1>3, <1>4 DEF Next

(* There is at most one handle for every thread. *)
LEMMA HandlesBounded ==
  ASSUME Inv
  PROVE  Len(handles) <= Cardinality(Id)
<1>1. IsFiniteSet(Id)
  BY ThreadsAssumption, FS_AddElement DEF ThreadsAssumption, Id
<1>2. Len(handles) \in Nat /\ handles \in [1 .. Len(handles) -> Id]
  BY LenProperties DEF Typed, Inv
<1>3. handles \in Injection(1 .. Len(handles), Id)
  BY <1>2 DEF Inv, HandlesKnown, Injection, IsInjective
<1>4. Cardinality(1 .. Len(handles)) = Len(handles)
  BY <1>2, FS_Interval
<1> QED
  BY <1>1, <1>3, <1>4, FS_Injection

(* The invariant gives the properties. *)
LEMMA InvImplies == Inv => TypeOK /\ CaughtStaySafe
<1> SUFFICES ASSUME Inv PROVE TypeOK /\ CaughtStaySafe
  OBVIOUS
<1>1. Len(Order) = 2
  BY DEF Order
<1>2. TypeOK
  BY <1>1, HandlesBounded DEF Typed, Inv, TypeOK, Early, Late
<1>3. CaughtStaySafe
  BY DEF Inv, CaughtKnown, CaughtStaySafe
<1> QED
  BY <1>2, <1>3

(* The invariant holds in every state. *)
LEMMA InvAlways == Spec => []Inv
BY Initial, Kept, PTL DEF Spec

(* The process, its threads, their suspend counts and the state of init_hooks have
   their types: no count is taken below zero or raised above the process's and
   init_hooks' own, and init_hooks keeps at most one handle a thread. *)
THEOREM TypeCorrect == Spec => []TypeOK
BY InvAlways, InvImplies, PTL

(* A thread the snapshot saw and OpenThread opened, and that had stopped outside the
   stubs before the first byte of patch_stub, never runs a stub that is half
   overwritten: however the other threads start, resume and end, and whichever of them
   cannot be opened and run on. *)
THEOREM CaughtAreSafe == Spec => []CaughtStaySafe
BY InvAlways, InvImplies, PTL
=============================================================================
