------------------------------- MODULE Snapshot -------------------------------
(***************************************************************************)
(* Snapshots of the agent's file contexts: the command pipe, the one       *)
(* thread of the agent that serves it, and the requests of the clients'    *)
(* windows.                                                                *)
(*                                                                         *)
(* There is one instance of the pipe at a time, and none between two       *)
(* requests.  An answer is its length and then chunks, here one for each   *)
(* entry, and the server disconnects as soon as it has written the last,   *)
(* which discards what has not been read.  Nothing on either side has a    *)
(* time limit but the wait for a busy pipe.                                *)
(*                                                                         *)
(* The changes of a file's context are counted; the agent keeps contexts   *)
(* in a bounded cache and loses them with its process.  Answers of type    *)
(* Error, to requests no client of this repository sends, are left out.    *)
(***************************************************************************)
EXTENDS Naturals, SequencesExt

CONSTANTS
  Client,       \* clients; one that is started again is another
  File,         \* files
  Limit,        \* FILE_CONTEXT_SNAPSHOT_LIMIT
  Size,         \* parts of an answer that fit into the pipe
  MaxRequests,  \* bound: requests
  MaxChanges,   \* bound: changes of contexts
  MaxStarts,    \* bound: starts of the agent after it stopped
  None

ASSUME SnapshotAssumption ==
  /\ {Limit, Size} \subseteq Nat \ {0}
  /\ {MaxRequests, MaxChanges, MaxStarts} \subseteq Nat
  /\ None \notin Nat

VARIABLES
  agent,    \* whether the agent runs
  starts,   \* starts so far
  changes,  \* auxiliary: changes of each file's context so far
  made,     \* auxiliary: changes of all of them
  cached,   \* files that have a context
  server,   \* the thread that serves the command pipe
  serving,  \* the request whose client has opened the instance
  request,  \* the requests, in the order they were made
  loading,  \* clients whose loading_file_contexts is set
  shown,    \* file_contexts of each client
  state     \* whether a client runs, is suspended, or has ended

cache == <<changes, made, cached>>
vars  == <<agent, starts, cache, server, serving, request, loading, shown, state>>

Request == 1 .. MaxRequests
Entry   == [file : File, change : 0 .. MaxChanges]

(* The length and a chunk, as they go through the pipe. *)
Part == [length : 1 .. Limit, entries : {<<>>}] \cup [length : {0}, entries : SeqOf(Entry, 1)]

Idle == [at |-> "create", todo |-> {}, entries |-> <<>>, parts |-> <<>>]

TypeOK ==
  /\ agent \in {"up", "down"}
  /\ starts \in 0 .. MaxStarts
  /\ changes \in [File -> 0 .. MaxChanges]
  /\ made \in 0 .. MaxChanges
  /\ cached \subseteq File
  /\ server.at \in {"create", "connect", "read", "snapshot", "write", "disconnect", "close"}
  /\ server.todo \subseteq File
  /\ server.entries \in Seq(Entry) /\ Len(server.entries) <= Limit
  /\ server.parts \in Seq(Part)
  /\ serving \in Request \cup {None}
  /\ Len(request) <= MaxRequests
  /\ \A r \in DOMAIN request :
       /\ request[r].at \in {"open", "wait", "ask", "length", "body", "ok", "closed",
                             "loaded"}
       /\ request[r].pipe \in {"none", "open", "lost"}
       /\ request[r].data \in Seq(Part) /\ Len(request[r].data) <= Size
       /\ Len(request[r].got) <= Limit
  /\ loading \subseteq Client
  /\ \A c \in Client : shown[c] \in Seq(Entry) /\ Len(shown[c]) <= Limit
  /\ state \in [Client -> {"runs", "suspended", "ended"}]

Init ==
  /\ agent = "up" /\ starts = 0
  /\ changes = [f \in File |-> 0] /\ made = 0 /\ cached = {}
  /\ server = Idle /\ serving = None
  /\ request = <<>>
  /\ loading = {}
  /\ shown = [c \in Client |-> <<>>]
  /\ state = [c \in Client |-> "runs"]

-----------------------------------------------------------------------------
(* The window. *)

\* Mutant of MayLoad: refresh_file_contexts does not look at the flag.
LoadsAgain(c) == TRUE

MayLoad(c) == c \notin loading

New(c) == [by |-> c, at |-> "open", pipe |-> "none", asked |-> FALSE, data |-> <<>>,
           length |-> 0, got |-> <<>>, ok |-> FALSE, answer |-> <<>>]

(* refresh_file_contexts, for the button or the first look at the contexts. *)
Refresh(c) ==
  /\ state[c] = "runs"
  /\ MayLoad(c)
  /\ Len(request) < MaxRequests
  /\ loading' = loading \cup {c}
  /\ request' = Append(request, New(c))
  /\ UNCHANGED <<agent, starts, cache, server, serving, shown, state>>

(* A request that has its result, nothing, and no handle. *)
Failed(x) == [New(x.by) EXCEPT !.at = "closed", !.pipe = "lost"]

(* FileContextsLoaded. *)
Loaded(r) ==
  LET c == request[r].by IN
  /\ state[c] = "runs"
  /\ request[r].at = "closed"
  /\ request' = [request EXCEPT ![r] = [Failed(@) EXCEPT !.at = "loaded"]]
  /\ loading' = loading \ {c}
  /\ shown' = [shown EXCEPT ![c] = IF request[r].ok THEN FlattenSeq(request[r].got) ELSE @]
  /\ UNCHANGED <<agent, starts, cache, server, serving, state>>

-----------------------------------------------------------------------------
(* A request: request_file_context_snapshot. *)

At(r, step) == request[r].at = step /\ state[request[r].by] = "runs"

(* The request as x, and nothing else. *)
Becomes(r, x) ==
  /\ request' = [request EXCEPT ![r] = x]
  /\ UNCHANGED <<agent, starts, cache, server, loading, shown, state>>

Instance  == agent = "up" /\ server.at # "create"
Listening == agent = "up" /\ server.at = "connect" /\ serving = None

(* CreateFileW: without an instance the pipe does not exist; an instance that has
   been opened, or disconnected, is busy. *)
Open(r) ==
  /\ At(r, "open")
  /\ serving' = IF Listening THEN r ELSE serving
  /\ Becomes(r, IF Listening
                THEN [request[r] EXCEPT !.at = "ask", !.pipe = "open"]
                ELSE IF Instance THEN [request[r] EXCEPT !.at = "wait"] ELSE Failed(request[r]))

\* Mutant of WaitEnds: NMPWAIT_WAIT_FOREVER.
WaitLasts(r) ==
  /\ At(r, "wait")
  /\ Listening
  /\ Becomes(r, [request[r] EXCEPT !.at = "open"])
  /\ UNCHANGED serving

(* WaitNamedPipeW, for five seconds: then the pipe is tried again, or given up. *)
WaitEnds(r) ==
  /\ At(r, "wait")
  /\ \/ Listening /\ Becomes(r, [request[r] EXCEPT !.at = "open"])
     \/ Becomes(r, Failed(request[r]))
  /\ UNCHANGED serving

(* WriteFile. *)
Ask(r) ==
  /\ At(r, "ask")
  /\ Becomes(r, IF request[r].pipe = "open"
                THEN [request[r] EXCEPT !.at = "length", !.asked = TRUE]
                ELSE Failed(request[r]))
  /\ UNCHANGED serving

(* read_command_response reads the length and then until it has that many. *)
Take(x, part) ==
  IF x.at = "length"
  THEN [x EXCEPT !.at = "body", !.length = part.length]
  ELSE [x EXCEPT !.got = Append(@, part.entries),
                 !.at = IF Len(x.got) + 1 = x.length THEN "ok" ELSE "body"]

Read(r) ==
  /\ At(r, "length") \/ At(r, "body")
  /\ request[r].data # <<>>
  /\ Becomes(r, Take([request[r] EXCEPT !.data = Tail(@)], Head(request[r].data)))
  /\ UNCHANGED serving

\* Mutant of Broken: an answer that ends early is taken as it is.
EndsEarly(x) == IF x.at = "body" THEN [x EXCEPT !.at = "ok"] ELSE Failed(x)

(* What becomes of a request whose ReadFile fails. *)
Broken(x) == Failed(x)

ReadFails(r) ==
  /\ At(r, "length") \/ At(r, "body")
  /\ request[r].data = <<>> /\ request[r].pipe = "lost"
  /\ Becomes(r, Broken(request[r]))
  /\ UNCHANGED serving

(* CloseHandle, after the last chunk. *)
Close(r) ==
  /\ At(r, "ok")
  /\ Becomes(r, [Failed(request[r]) EXCEPT !.ok = TRUE, !.got = request[r].got])
  /\ UNCHANGED serving

RequestStep(r) ==
  \/ Open(r) \/ WaitEnds(r) \/ Ask(r) \/ Read(r) \/ ReadFails(r) \/ Close(r) \/ Loaded(r)

-----------------------------------------------------------------------------
(* The server: run_command_server. *)

Serve(x) ==
  /\ agent = "up"
  /\ server' = x
  /\ UNCHANGED <<agent, starts, cache, loading, shown, state>>

(* Whether the client still has its end. *)
HasClient == request[serving].pipe = "open"

(* create_command_pipe_instance; when it fails, it is tried again. *)
Create ==
  /\ server.at = "create"
  /\ Serve([server EXCEPT !.at = "connect"])
  /\ UNCHANGED <<serving, request>>

(* ConnectNamedPipe may fail if the client has gone again. *)
Connected ==
  /\ server.at = "connect" /\ serving # None
  /\ \/ Serve([server EXCEPT !.at = "read"])
     \/ ~HasClient /\ Serve([server EXCEPT !.at = "disconnect"])
  /\ UNCHANGED <<serving, request>>

ReadRequest ==
  /\ server.at = "read"
  /\ \/ request[serving].asked /\ Serve([server EXCEPT !.at = "snapshot", !.todo = cached])
     \/ ~HasClient /\ ~request[serving].asked /\ Serve([server EXCEPT !.at = "disconnect"])
  /\ UNCHANGED <<serving, request>>

(* The entries as chunks; no entries are still a text to send. *)
Chunks(entries) == IF entries = <<>> THEN << <<>> >> ELSE [i \in DOMAIN entries |-> <<entries[i]>>]

Response(entries) ==
  <<[length |-> Len(Chunks(entries)), entries |-> <<>>]>> \o
  [i \in DOMAIN Chunks(entries) |-> [length |-> 0, entries |-> Chunks(entries)[i]]]

Full == server.todo = {} \/ Len(server.entries) = Limit

(* FileContextCache::snapshot takes one entry after the other while the contexts go
   on changing; one that is evicted before its turn, and back perhaps after it, is
   left out. *)
NextEntry ==
  /\ server.at = "snapshot"
  /\ ~Full
  /\ LET f == CHOOSE f \in server.todo : TRUE IN
     \/ Serve([server EXCEPT !.todo = @ \ {f},
                             !.entries = Append(@, [file |-> f, change |-> changes[f]])])
     \/ Serve([server EXCEPT !.todo = @ \ {f}])
  /\ UNCHANGED <<serving, request>>

Answer ==
  /\ server.at = "snapshot"
  /\ Full
  /\ Serve([Idle EXCEPT !.at = "write", !.parts = Response(server.entries)])
  /\ request' = [request EXCEPT ![serving].answer = server.entries]
  /\ UNCHANGED serving

\* Mutant of Write: it does not wait for space.
WriteAnyway ==
  /\ server.at = "write" /\ server.parts # <<>>
  /\ IF HasClient
     THEN /\ Serve([server EXCEPT !.parts = Tail(@)])
          /\ request' = [request EXCEPT ![serving].data = Append(@, Head(server.parts))]
     ELSE Serve([Idle EXCEPT !.at = "disconnect"]) /\ UNCHANGED request
  /\ UNCHANGED serving

(* write_command_response: WriteFile waits for space, and fails once the client has
   gone. *)
Write ==
  /\ server.at = "write" /\ server.parts # <<>>
  /\ IF HasClient
     THEN /\ Len(request[serving].data) < Size
          /\ Serve([server EXCEPT !.parts = Tail(@)])
          /\ request' = [request EXCEPT ![serving].data = Append(@, Head(server.parts))]
     ELSE Serve([Idle EXCEPT !.at = "disconnect"]) /\ UNCHANGED request
  /\ UNCHANGED serving

(* DisconnectNamedPipe, and CloseHandle. *)
Disconnect ==
  /\ server.at = "disconnect" \/ (server.at = "write" /\ server.parts = <<>>)
  /\ Serve([Idle EXCEPT !.at = "close"])
  /\ request' = [request EXCEPT ![serving].data = <<>>, ![serving].pipe = "lost"]
  /\ UNCHANGED serving

CloseServer ==
  /\ server.at = "close"
  /\ Serve(Idle)
  /\ serving' = None
  /\ UNCHANGED request

Server ==
  \/ Create \/ Connected \/ ReadRequest \/ NextEntry \/ Answer \/ Write
  \/ Disconnect \/ CloseServer

-----------------------------------------------------------------------------
(* Around them. *)

(* Telemetry or a scan changes the context of a file, or makes it one. *)
Change(f) ==
  /\ agent = "up"
  /\ made < MaxChanges
  /\ made' = made + 1
  /\ changes' = [changes EXCEPT ![f] = @ + 1]
  /\ cached' = cached \cup {f}
  /\ UNCHANGED <<agent, starts, server, serving, request, loading, shown, state>>

(* The end of the agent closes its handle; what is in the pipe stays there. *)
AgentStops ==
  /\ agent = "up"
  /\ agent' = "down"
  /\ cached' = {}
  /\ server' = Idle
  /\ request' = IF serving = None THEN request ELSE [request EXCEPT ![serving].pipe = "lost"]
  /\ serving' = None
  /\ UNCHANGED <<starts, changes, made, loading, shown, state>>

AgentStarts ==
  /\ agent = "down"
  /\ starts < MaxStarts
  /\ agent' = "up" /\ starts' = starts + 1
  /\ UNCHANGED <<cache, server, serving, request, loading, shown, state>>

(* The process of a client ends, or is suspended and keeps its handles.  The server
   can still read what the one that ended has asked. *)
Quit(c) ==
  /\ state[c] = "runs"
  /\ state' = [state EXCEPT ![c] = "ended"]
  /\ loading' = loading \ {c}
  /\ shown' = [shown EXCEPT ![c] = <<>>]
  /\ request' = [r \in DOMAIN request |->
                   IF request[r].by = c
                   THEN [Failed(request[r]) EXCEPT !.asked = request[r].asked]
                   ELSE request[r]]
  /\ UNCHANGED <<agent, starts, cache, server, serving>>

Stall(c) ==
  /\ state[c] = "runs"
  /\ state' = [state EXCEPT ![c] = "suspended"]
  /\ UNCHANGED <<agent, starts, cache, server, serving, request, loading, shown>>

Next ==
  \/ \E c \in Client : Refresh(c) \/ Quit(c) \/ Stall(c)
  \/ \E r \in DOMAIN request : RequestStep(r)
  \/ Server
  \/ \E f \in File : Change(f)
  \/ AgentStops \/ AgentStarts

(* The thread of the server and those of the requests keep running; the system wakes
   who waits for a pipe after five seconds. *)
Fairness ==
  /\ WF_vars(Server)
  /\ \A r \in Request : WF_vars(r \in DOMAIN request /\ RequestStep(r))

Spec == Init /\ [][Next]_vars /\ Fairness

-----------------------------------------------------------------------------
(* Properties. *)

(* A snapshot that is taken for complete is the answer the agent gave to this very
   request, whoever was served before, wherever the agent stopped, and although the
   pipe is disconnected under the reader (read_command_response). *)
WholeOrError ==
  \A r \in DOMAIN request :
    request[r].at = "ok" => FlattenSeq(request[r].got) = request[r].answer

(* A client never shows a file's context as it was before what it has shown
   already: answers come in the order of the requests, for there is one at a time
   (refresh_file_contexts). *)
NeverOlder ==
  [][\A c \in Client : \A i \in DOMAIN shown[c], j \in DOMAIN shown'[c] :
       shown[c][i].file = shown'[c][j].file => shown[c][i].change <= shown'[c][j].change]_vars

(* A client that runs does not load for ever, although another one that has been
   suspended with the pipe open, or with an answer half read, keeps the server for
   itself (connect_to_command_pipe, handle_command_client). *)
LoadingEnds == \A c \in Client : c \in loading ~> c \notin loading \/ state[c] = "suspended"
=============================================================================
