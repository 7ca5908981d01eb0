----------------------------- MODULE ClientView -----------------------------
(***************************************************************************)
(* Detections on their way to the client: the channel of the agent's IPC   *)
(* server, a named pipe for each client, the client's reader, and the list *)
(* its window shows, which the user can pause.                             *)
(*                                                                         *)
(* One action is one call on a pipe or a channel, or one message the       *)
(* window handles.  Detections are numbered in the order the scanner sent  *)
(* them, so the server's channel holds last + 1 .. sent.  The server       *)
(* creates its pipes in message mode, but a client opens one in byte-read  *)
(* mode: a read takes all that is there, and two detections are no JSON.   *)
(* Left out are the command pipe and the snapshots it serves, which        *)
(* entries are expanded, filters, and themes.                              *)
(***************************************************************************)
EXTENDS Naturals, SequencesExt

CONSTANTS
  Client,     \* clients
  Pipes,      \* pipe instances; Windows sets no limit
  Size,       \* detections that fit into a pipe
  MaxShown,   \* MAX_DETECTIONS
  MaxEvents,  \* bound: detections sent
  MaxStarts,  \* bound: starts of clients, and of the agent after it stopped
  None

ASSUME ConstantsAssumption ==
  /\ Size \in Nat \ {0}
  /\ {Pipes, MaxShown, MaxEvents, MaxStarts} \subseteq Nat
  /\ Pipes > MaxStarts                 \* there is always an instance to create
  /\ None \notin Client \cup 1 .. Pipes

Pipe  == 1 .. Pipes
Event == 1 .. MaxEvents

(* IpcClientMessage. *)
Item == [of : {"Connected", "Disconnected"}] \cup [of : {"Message"}, event : Event]

VARIABLES
  agent,      \* whether the agent runs
  sent,       \* detections sent to the server
  last,       \* the last one it has received
  listening,  \* the instance of the accept thread
  opened,     \* a client has opened it
  accepted,   \* handles on their way to the server
  clients,    \* the server's handles
  server,     \* where the server is
  buf,        \* what is in each pipe
  seen,       \* the last one read from each pipe served, or sent before it was
  failed,     \* those it could not be sent, though its client was not found gone
  gui,        \* the clients
  starts      \* starts so far

accept == <<listening, opened, accepted>>
serve  == <<last, clients, server>>
vars   == <<agent, sent, serve, accept, buf, seen, failed, gui, starts>>

Stopped == [running |-> FALSE, pipe |-> None, chan |-> <<>>, connected |-> FALSE,
            detections |-> <<>>, pending |-> <<>>, paused |-> FALSE, got |-> {}]

Top == [at |-> "register", idx |-> 0, dead |-> <<>>]

TypeOK ==
  /\ agent \in {"up", "down"}
  /\ sent \in 0 .. MaxEvents /\ last \in 0 .. sent
  /\ listening \in Pipe \cup {None}
  /\ opened \in BOOLEAN
  /\ accepted \in Seq(Pipe) /\ clients \in Seq(Pipe)
  /\ server \in [at : {"register", "recv", "write"}, idx : 0 .. Pipes + 1, dead : Seq(Pipe)]
  /\ \A p \in Pipe : buf[p] \in Seq(Event) /\ Len(buf[p]) <= Size
  /\ seen \in [Pipe -> 0 .. MaxEvents]
  /\ failed \in [Pipe -> SUBSET Event]
  /\ \A c \in Client :
       /\ gui[c].pipe \in Pipe \cup {None}
       /\ gui[c].chan \in Seq(Item)
       /\ Len(gui[c].detections) <= MaxShown /\ Len(gui[c].pending) <= MaxShown
  /\ starts \in 0 .. MaxStarts

Init ==
  /\ agent = "up"
  /\ sent = 0 /\ last = 0
  /\ listening = None
  /\ opened = FALSE
  /\ accepted = <<>> /\ clients = <<>>
  /\ server = Top
  /\ buf = [p \in Pipe |-> <<>>]
  /\ seen = [p \in Pipe |-> 0]
  /\ failed = [p \in Pipe |-> {}]
  /\ gui = [c \in Client |-> Stopped]
  /\ starts = 0

-----------------------------------------------------------------------------
(* Pipes. *)

ServerEnd(p) == p = listening \/ p \in ToSet(accepted \o clients)
ClientEnd(p) == \E c \in Client : gui[c].pipe = p

Free == {p \in Pipe : ~ServerEnd(p) /\ ~ClientEnd(p)}

(* The accept thread creates an instance. *)
Listen ==
  /\ agent = "up"
  /\ listening = None
  /\ Free # {}
  /\ listening' = CHOOSE p \in Free : \A q \in Free : p <= q
  /\ UNCHANGED <<agent, sent, serve, opened, accepted, buf, seen, failed, gui, starts>>

\* Mutant of Accept: an instance that has been left is listened on for ever.
WaitsForEver ==
  /\ opened
  /\ ClientEnd(listening)
  /\ listening' = None
  /\ opened' = FALSE
  /\ accepted' = Append(accepted, listening)
  /\ UNCHANGED <<agent, sent, serve, buf, seen, failed, gui, starts>>

(* ConnectNamedPipe returns; it fails only if the client has left again. *)
Accept ==
  /\ opened
  /\ listening' = None
  /\ opened' = FALSE
  /\ \/ accepted' = Append(accepted, listening)
     \/ ~ClientEnd(listening) /\ UNCHANGED accepted
  /\ UNCHANGED <<agent, sent, serve, buf, seen, failed, gui, starts>>

-----------------------------------------------------------------------------
(* The server. *)

(* The scanner has found something. *)
Detect ==
  /\ agent = "up"
  /\ sent < MaxEvents
  /\ sent' = sent + 1
  /\ UNCHANGED <<agent, serve, accept, buf, seen, failed, gui, starts>>

(* The handles that have come. *)
Register ==
  /\ agent = "up"
  /\ server.at = "register"
  /\ clients' = clients \o accepted
  /\ accepted' = <<>>
  /\ seen' = [p \in Pipe |-> IF p \in ToSet(accepted) THEN last ELSE seen[p]]
  /\ failed' = [p \in Pipe |-> IF p \in ToSet(accepted) THEN {} ELSE failed[p]]
  /\ server' = [server EXCEPT !.at = "recv"]
  /\ UNCHANGED <<agent, sent, last, listening, opened, buf, gui, starts>>

(* recv_timeout returns a detection or, where there is none, an error. *)
Recv ==
  /\ server.at = "recv"
  /\ IF last < sent
     THEN last' = last + 1 /\ server' = [at |-> "write", idx |-> 1, dead |-> <<>>]
     ELSE UNCHANGED last /\ server' = Top
  /\ UNCHANGED <<agent, sent, clients, accept, buf, seen, failed, gui, starts>>

Writing == server.at = "write" /\ server.idx <= Len(clients)

\* Mutant of Write: after an error the others are not written to.
StopsAtDead ==
  /\ Writing
  /\ LET p == clients[server.idx] IN
     IF ClientEnd(p)
     THEN /\ Len(buf[p]) < Size
          /\ buf' = [buf EXCEPT ![p] = Append(@, last)]
          /\ server' = [server EXCEPT !.idx = @ + 1]
     ELSE /\ server' = [server EXCEPT !.idx = Len(clients) + 1, !.dead = Append(@, server.idx)]
          /\ UNCHANGED buf
  /\ UNCHANGED <<agent, sent, last, clients, accept, seen, failed, gui, starts>>

\* Mutant of Write: a pipe without its client is waited for.
WaitsForDead ==
  /\ Writing
  /\ LET p == clients[server.idx] IN
     /\ ClientEnd(p)
     /\ Len(buf[p]) < Size
     /\ buf' = [buf EXCEPT ![p] = Append(@, last)]
     /\ server' = [server EXCEPT !.idx = @ + 1]
  /\ UNCHANGED <<agent, sent, last, clients, accept, seen, failed, gui, starts>>

\* Mutant of Write: it does not wait for space.
WritesAnyway ==
  /\ Writing
  /\ LET p == clients[server.idx] IN
     IF ClientEnd(p)
     THEN /\ buf' = [buf EXCEPT ![p] = Append(@, last)]
          /\ server' = [server EXCEPT !.idx = @ + 1]
     ELSE /\ server' = [server EXCEPT !.idx = @ + 1, !.dead = Append(@, server.idx)]
          /\ UNCHANGED buf
  /\ UNCHANGED <<agent, sent, last, clients, accept, seen, failed, gui, starts>>

(* WriteFile to one client waits while its pipe is full, and fails once the
   client has gone. *)
Write ==
  /\ Writing
  /\ LET p == clients[server.idx] IN
     IF ClientEnd(p)
     THEN /\ Len(buf[p]) < Size
          /\ buf' = [buf EXCEPT ![p] = Append(@, last)]
          /\ server' = [server EXCEPT !.idx = @ + 1]
     ELSE /\ server' = [server EXCEPT !.idx = @ + 1, !.dead = Append(@, server.idx)]
          /\ UNCHANGED buf
  /\ UNCHANGED <<agent, sent, last, clients, accept, seen, failed, gui, starts>>

(* WriteFile fails for another reason: it is logged, the client is kept, and this
   detection is not sent to it again. *)
WriteFails ==
  /\ Writing
  /\ server' = [server EXCEPT !.idx = @ + 1]
  /\ failed' = [failed EXCEPT ![clients[server.idx]] = @ \cup {last}]
  /\ UNCHANGED <<agent, sent, last, clients, accept, buf, seen, gui, starts>>

\* Mutant of Without: the first index first, although the handles behind it move up.
FirstToLast(handles, dead) == FoldLeft(RemoveAt, handles, dead)

(* Vec::remove for each index, the last one first. *)
Without(handles, dead) == FoldLeft(RemoveAt, handles, Reverse(dead))

(* The pipes of the clients that have gone are disconnected, and closed. *)
RemoveDead ==
  /\ server.at = "write"
  /\ ~Writing
  /\ clients' = Without(clients, server.dead)
  /\ LET gone == ToSet(clients) \ ToSet(clients') IN
     /\ buf' = [p \in Pipe |-> IF p \in gone THEN <<>> ELSE buf[p]]
     /\ seen' = [p \in Pipe |-> IF p \in gone THEN 0 ELSE seen[p]]
     /\ failed' = [p \in Pipe |-> IF p \in gone THEN {} ELSE failed[p]]
  /\ server' = Top
  /\ UNCHANGED <<agent, sent, last, accept, gui, starts>>

Server == Register \/ Recv \/ Write \/ RemoveDead

(* The process ends: handles are closed, and what is in a pipe stays there. *)
AgentStops ==
  /\ agent = "up"
  /\ agent' = "down"
  /\ listening' = None /\ opened' = FALSE /\ accepted' = <<>>
  /\ clients' = <<>> /\ server' = Top /\ last' = sent
  /\ seen' = [p \in Pipe |-> 0]
  /\ failed' = [p \in Pipe |-> {}]
  /\ UNCHANGED <<sent, buf, gui, starts>>

AgentStarts ==
  /\ agent = "down"
  /\ agent' = "up"
  /\ starts < MaxStarts
  /\ starts' = starts + 1
  /\ UNCHANGED <<sent, serve, accept, buf, seen, failed, gui>>

-----------------------------------------------------------------------------
(* The client. *)

Set(c, g) == gui' = [gui EXCEPT ![c] = g]

Start(c) ==
  /\ ~gui[c].running
  /\ starts < MaxStarts
  /\ starts' = starts + 1
  /\ Set(c, [Stopped EXCEPT !.running = TRUE])
  /\ UNCHANGED <<agent, sent, serve, accept, buf, seen, failed>>

Quit(c) ==
  /\ gui[c].running
  /\ Set(c, Stopped)
  /\ buf' = [p \in Pipe |-> IF p = gui[c].pipe THEN <<>> ELSE buf[p]]
  /\ UNCHANGED <<agent, sent, serve, accept, seen, failed, starts>>

(* connect_to_pipe succeeds; its failures change nothing. *)
Connect(c) ==
  /\ gui[c].running
  /\ gui[c].pipe = None
  /\ listening # None
  /\ ~opened
  /\ opened' = TRUE
  /\ Set(c, [gui[c] EXCEPT !.pipe = listening, !.chan = Append(@, [of |-> "Connected"])])
  /\ UNCHANGED <<agent, sent, serve, listening, accepted, buf, seen, failed, starts>>

(* A message that cannot be parsed is dropped. *)
Parsed(data) ==
  IF Len(data) = 1 THEN <<[of |-> "Message", event |-> data[1]]>> ELSE <<>>

Read(c) ==
  LET p == gui[c].pipe IN
  /\ p # None
  /\ buf[p] # <<>>
  /\ Set(c, [gui[c] EXCEPT !.chan = @ \o Parsed(buf[p])])
  /\ buf' = [buf EXCEPT ![p] = <<>>]
  /\ seen' = [seen EXCEPT ![p] = IF ServerEnd(p) THEN Last(buf[p]) ELSE 0]
  /\ UNCHANGED <<agent, sent, serve, accept, failed, starts>>

(* ReadFile fails once the server has gone and nothing is left to read. *)
Broken(c) ==
  LET p == gui[c].pipe IN
  /\ p # None
  /\ buf[p] = <<>>
  /\ ~ServerEnd(p)
  /\ Set(c, [gui[c] EXCEPT !.pipe = None, !.chan = Append(@, [of |-> "Disconnected"])])
  /\ UNCHANGED <<agent, sent, serve, accept, buf, seen, failed, starts>>

Trim(list) == SubSeq(list, 1, IF Len(list) < MaxShown THEN Len(list) ELSE MaxShown)

\* Mutant of Merged: pop_front.
Reversed(pending, detections) == Trim(Reverse(pending) \o detections)

(* The visible list after what was held back, oldest first, has been put in
   front of it, and it has been cut. *)
Merged(pending, detections) == Trim(pending \o detections)

Received(g, n) ==
  IF g.paused
  THEN [g EXCEPT !.pending = Trim(<<n>> \o @), !.got = @ \cup {n}]
  ELSE [g EXCEPT !.detections = Trim(<<n>> \o @), !.got = @ \cup {n}]

(* IpcEvent. *)
Handled(g, item) ==
  IF item.of = "Message"
  THEN Received(g, item.event)
  ELSE [g EXCEPT !.connected = item.of = "Connected"]

(* A tick handles one item of the channel. *)
Tick(c) ==
  /\ gui[c].chan # <<>>
  /\ Set(c, Handled([gui[c] EXCEPT !.chan = Tail(@)], Head(gui[c].chan)))
  /\ UNCHANGED <<agent, sent, serve, accept, buf, seen, failed, starts>>

TogglePause(c) ==
  /\ gui[c].running
  /\ Set(c, IF gui[c].paused
            THEN [gui[c] EXCEPT !.paused = FALSE, !.pending = <<>>,
                                !.detections = Merged(gui[c].pending, @)]
            ELSE [gui[c] EXCEPT !.paused = TRUE])
  /\ UNCHANGED <<agent, sent, serve, accept, buf, seen, failed, starts>>

(* ToggleExpanded, for an entry that was not expanded. *)
Expand(c) ==
  /\ gui[c].detections # <<>>
  /\ Set(c, [gui[c] EXCEPT !.paused = TRUE])
  /\ UNCHANGED <<agent, sent, serve, accept, buf, seen, failed, starts>>

-----------------------------------------------------------------------------
Next ==
  \/ Listen \/ Accept
  \/ Detect \/ Register \/ Recv \/ Write \/ WriteFails \/ RemoveDead
  \/ AgentStops \/ AgentStarts
  \/ \E c \in Client :
       \/ Start(c) \/ Quit(c)
       \/ Connect(c) \/ Read(c) \/ Broken(c)
       \/ Tick(c) \/ TogglePause(c) \/ Expand(c)

(* The threads of the agent and of the clients keep running, and a tick comes
   every 100 ms; nobody has to start, quit, pause, or stop anything, and no write
   has to fail. *)
Fairness ==
  /\ WF_vars(Listen) /\ WF_vars(Accept)
  /\ WF_vars(Server)
  /\ \A c \in Client :
       /\ WF_vars(Connect(c))
       /\ WF_vars(Read(c) \/ Broken(c))
       /\ WF_vars(Tick(c))

Spec == Init /\ [][Next]_vars /\ Fairness

-----------------------------------------------------------------------------
(* Properties. *)

(* Whether the last detection received has been written to the i-th client. *)
WrittenTo(i) == server.at # "write" \/ i < server.idx

(* What is in the pipe of a client are the detections since the last one it read,
   or since the server took its handle, up to the last one the server came to, in
   order: none is left out but those whose own write to this very pipe failed, and
   none is written twice.  So an error at one client, or its removal, costs no other
   client a detection (broadcast_message). *)
NothingSkipped ==
  \A i \in DOMAIN clients :
    LET p == clients[i]
        n == IF WrittenTo(i) THEN last ELSE last - 1 IN
    ClientEnd(p) =>
      /\ ToSet(buf[p]) = (seen[p] + 1 .. n) \ failed[p]
      /\ \A k, l \in DOMAIN buf[p] : k < l => buf[p][k] < buf[p][l]

(* The server gives up no client that is there: whichever others fail in a round,
   and in whatever places of the list, they alone are removed (broadcast_message). *)
LiveStay ==
  [][\A p \in ToSet(clients) :
       ClientEnd(p) => p \in ToSet(clients') \/ agent' = "down"]_vars

(* The one of a set of detections that k others are newer than. *)
Behind(got, k) == {e \in got : Cardinality({d \in got : d > e}) = k}

Newest(got) ==
  Trim([k \in 1 .. Cardinality(got) |-> CHOOSE e \in Behind(got, k - 1) : TRUE])

(* The newest MAX_DETECTIONS of those the client has received are kept, newest
   first, whatever came while it was paused and however often it was paused;
   and nothing is held back once it is not (GalateaGui::update). *)
NewestShown ==
  \A c \in Client :
    /\ Trim(gui[c].pending \o gui[c].detections) = Newest(gui[c].got)
    /\ ~gui[c].paused => gui[c].pending = <<>>

(* A client that keeps running while the agent does is connected in the end and
   stays so, whoever left the pipe it might have opened, and wherever in its
   handing over the agent stopped before (accept_clients_loop, run_ipc_client). *)
Reconnected ==
  \A c \in Client :
    <>[](agent = "up" /\ gui[c].running) => <>[]gui[c].connected

(* The server takes every detection out of its channel: no client that has gone,
   or that has not read for a while, holds it for ever (run_ipc_server). *)
QueueDrains == \A n \in Event : sent >= n ~> last >= n
=============================================================================
