---------------------------- MODULE InvertedCall ----------------------------
(***************************************************************************)
(* How process creation events reach the agent.  The agent keeps one       *)
(* IOCTL_GET_EVENT outstanding (an inverted call); the driver holds its    *)
(* IRP and completes it with the next event, or queues the event when no   *)
(* call is held.                                                           *)
(*                                                                         *)
(* A client is a process that opens the device: an instance of the agent,  *)
(* which opens two handles and registers.  It issues one call at a time,   *)
(* so the IRP of a client's call is named after the client.  Several       *)
(* clients model a second instance, and a restart after a crash.           *)
(*                                                                         *)
(* Events are numbered in the order of their creation.                     *)
(* The names the specification has in common with ScanGate, the other part *)
(* of the sensor, begin with Call here.                                    *)
(***************************************************************************)
EXTENDS Integers, Sequences, FiniteSets

CONSTANTS
  Client,     \* processes that open the device
  MaxEvents,  \* bound: events created
  MaxQueue,   \* capacity of EVENT_QUEUE: 1000 in callback.rs
  None        \* the null pointer

ASSUME CallAssumption ==
  /\ MaxEvents \in Nat
  /\ MaxQueue \in Nat \ {0}
  /\ None \notin Client

Event == 1 .. MaxEvents

VARIABLES
  device,      \* whether the driver is loaded, was, or never was
  registered,  \* AGENT_PROCESS
  client,      \* how far each client has come
  handles,     \* handles to the device each client has open
  pendingIrp,  \* PENDING_IRP
  call,        \* the outstanding GET_EVENT call of each client
  queue,       \* EVENT_QUEUE
  created,     \* number of events created
  notifying,   \* events between the two critical sections of notify_agent
  delivered,   \* completions with an event: which, and to whom
  discarded    \* events dropped with the queue full, or lost with the driver

clients  == <<registered, client, handles>>
events   == <<queue, created, notifying, delivered, discarded>>
callVars == <<device, clients, pendingIrp, call, events>>

(* A held call has its cancel routine set; a cancelling one has had it taken by
   the I/O manager, and its cancel routine has yet to get PENDING_IRP_LOCK. *)
Outstanding == {"held", "cancelling"}
Completed   == {"event", "cancelled", "failed"}

CallTypeOK ==
  /\ device \in {"absent", "loaded", "unloaded"}
  /\ registered \in Client \cup {None}
  /\ client \in [Client -> {"new", "opened", "online", "closing", "exited"}]
  /\ handles \in [Client -> 0 .. 2]
  /\ pendingIrp \in Client \cup {None}
  /\ call \in [Client -> Outstanding \cup Completed \cup {"none"}]
  /\ queue \in Seq(Event) /\ Len(queue) <= MaxQueue
  /\ created \in 0 .. MaxEvents
  /\ notifying \subseteq Event
  /\ delivered \in Seq([event : Event, to : Client])
  /\ discarded \subseteq Event

CallInit ==
  /\ device = "absent"
  /\ registered = None
  /\ client = [c \in Client |-> "new"]
  /\ handles = [c \in Client |-> 0]
  /\ pendingIrp = None
  /\ call = [c \in Client |-> "none"]
  /\ queue = << >>
  /\ created = 0
  /\ notifying = {}
  /\ delivered = << >>
  /\ discarded = {}

-----------------------------------------------------------------------------
(* IofCompleteRequest on a call. *)
Complete(c, status) == call' = [call EXCEPT ![c] = status]

(* ... with an event in its buffer.  The agent's buffer always has the size of
   a GalateaEvent, so STATUS_BUFFER_TOO_SMALL does not occur. *)
Deliver(c, e) ==
  /\ Complete(c, "event")
  /\ delivered' = Append(delivered, [event |-> e, to |-> c])

(* Taking the held call: io_set_cancel_routine(irp, None) finds the cancel
   routine still set, so the I/O manager has not begun to cancel the call. *)
Held == {c \in Client : pendingIrp = c /\ call[c] = "held"}

-----------------------------------------------------------------------------
(* The driver's side of a process creation: notify_agent. *)

(* Under PENDING_IRP_LOCK: a held call is completed with the event; without one
   the lock is released, and the event is queued later. *)
Notify ==
  LET e == created + 1 IN
  /\ device = "loaded"
  /\ created < MaxEvents
  /\ created' = e
  /\ \/ \E c \in Held :
          /\ pendingIrp' = None
          /\ Deliver(c, e)
          /\ UNCHANGED notifying
     \/ /\ Held = {}
        /\ notifying' = notifying \cup {e}
        /\ UNCHANGED <<pendingIrp, call, delivered>>
  /\ UNCHANGED <<device, clients, queue, discarded>>

\* Mutant of HasRoom: one event too many.
HasRoomForOne == Len(queue) <= MaxQueue

HasRoom == Len(queue) < MaxQueue

(* Under QUEUE_LOCK. *)
Enqueue(e) ==
  /\ e \in notifying
  /\ notifying' = notifying \ {e}
  /\ IF HasRoom
     THEN queue' = Append(queue, e) /\ UNCHANGED discarded
     ELSE discarded' = discarded \cup {e} /\ UNCHANGED queue
  /\ UNCHANGED <<device, clients, pendingIrp, call, created, delivered>>

-----------------------------------------------------------------------------
(* The client's side. *)

(* The agent starts: init_driver starts the driver when it is not running
   (DriverEntry, with empty lists), then the two handles are opened. *)
Start(c) ==
  /\ client[c] = "new"
  /\ device # "unloaded"
  /\ device' = "loaded"
  /\ client' = [client EXCEPT ![c] = "opened"]
  /\ handles' = [handles EXCEPT ![c] = 2]
  /\ UNCHANGED <<registered, pendingIrp, call, events>>

(* After an unload, DriverEntry fails: driver_unload gives IoDeleteSymbolicLink a
   name of 36 bytes where the name created is of 38, so the link is still there
   and IoCreateSymbolicLink refuses it.  The agent exits. *)
StartFails(c) ==
  /\ client[c] = "new"
  /\ device = "unloaded"
  /\ client' = [client EXCEPT ![c] = "exited"]
  /\ UNCHANGED <<device, registered, handles, pendingIrp, call, events>>

(* IOCTL_REGISTER_AGENT: compare_exchange on AGENT_PROCESS.  An agent that is
   refused closes its handles and exits. *)
Register(c) ==
  /\ client[c] = "opened"
  /\ \/ /\ registered = None
        /\ registered' = c
        /\ client' = [client EXCEPT ![c] = "online"]
     \/ /\ registered # None
        /\ client' = [client EXCEPT ![c] = "closing"]
        /\ UNCHANGED registered
  /\ UNCHANGED <<device, handles, pendingIrp, call, events>>

\* Mutant of Dequeued: the event handed out stays in the queue.
Peeked == queue

(* The event queue once its first event has been handed out. *)
Dequeued == Tail(queue)

(* IOCTL_GET_EVENT.  Only the registered process is served; a process that is
   not the agent may call before it registers, or without ever doing so. *)
GetEvent(c) ==
  /\ client[c] \in {"opened", "online"}
  /\ call[c] = "none"
  /\ IF registered # c \/ pendingIrp # None
     THEN /\ Complete(c, "failed")
          /\ UNCHANGED <<pendingIrp, queue, delivered>>
     ELSE IF queue # << >>
     THEN /\ Deliver(c, Head(queue))
          /\ queue' = Dequeued
          /\ UNCHANGED pendingIrp
     ELSE /\ pendingIrp' = c
          /\ call' = [call EXCEPT ![c] = "held"]
          /\ UNCHANGED <<queue, delivered>>
  /\ UNCHANGED <<device, clients, created, notifying, discarded>>

(* The call returns: an event goes to the worker pool and the loop continues,
   any error ends the loop and the agent. *)
Return(c) ==
  /\ client[c] \in {"opened", "online"}
  /\ call[c] \in Completed
  /\ call' = [call EXCEPT ![c] = "none"]
  /\ client' = [client EXCEPT ![c] = IF call[c] = "event" THEN @ ELSE "closing"]
  /\ UNCHANGED <<device, registered, handles, pendingIrp, events>>

(* The process is killed or crashes. *)
Crash(c) ==
  /\ client[c] \in {"opened", "online"}
  /\ client' = [client EXCEPT ![c] = "closing"]
  /\ UNCHANGED <<device, registered, handles, pendingIrp, call, events>>

(* The I/O manager cancels the outstanding call of a process that ends: it takes
   the cancel routine from the IRP. *)
Cancel(c) ==
  /\ client[c] = "closing"
  /\ call[c] = "held"
  /\ call' = [call EXCEPT ![c] = "cancelling"]
  /\ UNCHANGED <<device, clients, pendingIrp, events>>

(* cancel_routine, under PENDING_IRP_LOCK. *)
CancelRoutine(c) ==
  /\ call[c] = "cancelling"
  /\ pendingIrp = c
  /\ pendingIrp' = None
  /\ Complete(c, "cancelled")
  /\ UNCHANGED <<device, clients, events>>

\* Mutant of Cleanup: PENDING_IRP is reset before the cancel routine is claimed.
CleanupForgets ==
  /\ pendingIrp' = None
  /\ call' = [c \in Client |-> IF c \in Held THEN "cancelled" ELSE call[c]]

(* dispatch_cleanup, for the last reference to a handle of any client: it
   completes the held call, whoever issued it. *)
Cleanup ==
  \/ \E b \in Held : pendingIrp' = None /\ Complete(b, "cancelled")
  \/ Held = {} /\ UNCHANGED <<pendingIrp, call>>

(* A handle is closed, the listener handle first.  The handles of a process
   that ends are closed once its calls are complete. *)
CloseHandle(c) ==
  /\ client[c] = "closing"
  /\ call[c] \notin Outstanding
  /\ handles' = [handles EXCEPT ![c] = @ - 1]
  /\ client' = [client EXCEPT ![c] = IF handles[c] = 1 THEN "exited" ELSE @]
  /\ Cleanup
  /\ UNCHANGED <<device, registered, events>>

(* driver_unload: it needs every handle closed and the notify routines at rest,
   and releases AGENT_PROCESS.  What is queued is lost. *)
Unload ==
  /\ device = "loaded"
  /\ \A c \in Client : handles[c] = 0
  /\ notifying = {}
  /\ device' = "unloaded"
  /\ registered' = None
  /\ queue' = << >>
  /\ discarded' = discarded \cup {queue[i] : i \in DOMAIN queue}
  /\ UNCHANGED <<client, handles, pendingIrp, call, created, notifying, delivered>>

-----------------------------------------------------------------------------
ExitStep(c) == Cancel(c) \/ CancelRoutine(c) \/ CloseHandle(c)

CallNext ==
  \/ Notify
  \/ \E e \in Event : Enqueue(e)
  \/ \E c \in Client :
       \/ Start(c) \/ StartFails(c) \/ Register(c) \/ GetEvent(c) \/ Return(c)
       \/ Crash(c) \/ ExitStep(c)
  \/ Unload

CallSpec == CallInit /\ [][CallNext]_callVars

(* The I/O manager and the notify routines run on; nothing is assumed of the
   clients or of process creations. *)
CallFairness ==
  /\ \A c \in Client : WF_callVars(ExitStep(c))
  /\ \A e \in Event : WF_callVars(Enqueue(e))

CallFairSpec == CallSpec /\ CallFairness

-----------------------------------------------------------------------------
Queued == {queue[i] : i \in DOMAIN queue}

(* PENDING_IRP is the one call the driver holds: it never points to a call that
   has been completed, and no held call is forgotten, whichever of notify_agent,
   dispatch_cleanup and cancel_routine gets to the IRP first. *)
PendingIrpHeld ==
  \A c \in Client : pendingIrp = c <=> call[c] \in Outstanding

Channel == INSTANCE EventChannel
             WITH waiting <- notifying \cup Queued, lost <- discarded

(* The event path implements EventChannel: an event is handed out by one step,
   to one call, and never comes back once it is handed out or lost. *)
ImplementsChannel == Channel!Spec

(* A client that ends, by itself or killed, is gone in the end: its outstanding
   call is cancelled, and no race leaves it without anyone to complete it. *)
ExitCompletes == \A c \in Client : client[c] = "closing" ~> client[c] = "exited"
=============================================================================
