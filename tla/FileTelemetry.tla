--------------------------- MODULE FileTelemetry ---------------------------
(***************************************************************************)
(* File telemetry: the callbacks of the minifilter send what processes do  *)
(* to files over a port with one connection, and one thread of the agent   *)
(* keeps a context for every file it hears of.                             *)
(*                                                                         *)
(* One action is one callback, one operation of the file system between    *)
(* two callbacks, or one step of the listening thread.  FltSendMessage has *)
(* a timeout of zero: it reaches a FilterGetMessage that is waiting, or    *)
(* nobody.                                                                 *)
(*                                                                         *)
(* A message has the name in the file object, which is that the file was   *)
(* opened by: a path, or, when it was opened relative to a directory or    *)
(* has more than 259 characters, a part of one.  The agent reads a part as *)
(* a name in its own directory.  What a message says of a new name may be  *)
(* a part as well.                                                         *)
(*                                                                         *)
(* Left out are processes of the system, which are never reported, what is *)
(* reported of directories themselves, and the fields of a context that    *)
(* are only shown: the times, the process, the name before a rename.       *)
(***************************************************************************)
EXTENDS Naturals, FiniteSets

CONSTANTS
  File,      \* files; an index is not given twice
  Indexed,   \* those on a volume that gives an index
  Path,      \* paths of one volume
  Part,      \* names that are parts of paths
  Meant,     \* the path the agent reads each of them as, or None
  Temp,      \* those in a location that has a flag
  Ext,       \* the extension of each path and part
  ExecExt,   \* EXECUTABLE_EXTENSIONS
  User,      \* processes, each with one file open
  Agent,     \* the process of the agent
  Capacity,  \* FILE_CONTEXT_CACHE_CAPACITY
  MaxOps,    \* bound: operations on files
  None

Text == Path \cup Part

ASSUME ConstantsAssumption ==
  /\ Indexed \subseteq File
  /\ Temp \subseteq Path
  /\ Meant \in [Part -> Path \cup {None}] /\ Path \cap Part = {}
  /\ \A t \in Part : Meant[t] # None => Ext[Meant[t]] = Ext[t]
  /\ Capacity \in Nat /\ MaxOps \in Nat
  /\ Agent \notin User
  /\ None \notin File \cup Text
  /\ [path : Text, full : BOOLEAN] \cap (File \cup {None}) = {}  \* no name is an index

Process == User \cup {Agent}

Flag == {"FileCreateSuccess", "FileWriteSuccess", "InTempLocation",
         "RenamedToExecutable"}

Name == [path : Text, full : BOOLEAN]  \* full: fsc_canonicalize_path succeeded
Key  == Indexed \cup Name              \* FileContextKey
Kind == {"FileCreate", "FileWrite", "Rename"}

VARIABLES
  at,        \* the file each path names
  io,        \* what each process has open, and the operation it is in
  filter,    \* the minifilter: loaded or unloaded
  client,    \* CLIENT_PORT; old, then closing once the agent closed its handle
  agentPid,  \* AGENT_PID; old once that process has ended
  agent,     \* the agent: down, up, dropping (its FilterPortListener)
  listener,  \* the listening thread
  msg,       \* the message it has taken, None otherwise
  ctx,       \* FILE_CONTEXT_CACHE
  did,       \* flags that what was done to a file may give it
  ops        \* operations so far

world == <<at, io, did, ops>>
port  == <<filter, client, agentPid>>
taken == <<listener, msg, ctx>>
vars  == <<world, port, agent, taken>>

Closed == [at |-> "idle", file |-> None, name |-> None, to |-> None]

TypeOK ==
  /\ at \in [Path -> File \cup {None}]
  /\ io \in [Process -> [at : {"idle", "open", "created", "renaming"},
                         file : File \cup {None}, name : Text \cup {None},
                         to : Path \cup {None}]]
  /\ filter \in {"loaded", "unloaded"}
  /\ client \in {"none", "live", "old", "closing"}
  /\ agentPid \in {"none", "live", "old"}
  /\ agent \in {"down", "up", "dropping"}
  /\ listener \in {"none", "connecting", "get", "resolve", "entry", "write"}
  /\ msg = None \/ msg \in [by : Process, kind : Kind, index : Indexed \cup {None},
                            path : Name, to : Name \cup {None}, key : Key \cup {None}]
  /\ ctx \in [Key -> [path : Name \cup {None}, flags : SUBSET Flag] \cup {None}]
  /\ did \in [File -> SUBSET Flag]
  /\ ops \in 0 .. MaxOps

Init ==
  /\ at = [q \in Path |-> None]
  /\ io = [p \in Process |-> Closed]
  /\ filter = "loaded"
  /\ client = "none"
  /\ agentPid = "none"
  /\ agent = "down"
  /\ listener = "none"
  /\ msg = None
  /\ ctx = [k \in Key |-> None]
  /\ did = [f \in File |-> {}]
  /\ ops = 0

-----------------------------------------------------------------------------
(* The callbacks. *)

(* One more operation that changes a file. *)
Counted == ops < MaxOps /\ ops' = ops + 1

\* Mutant of IsAgent: the check is missing.
NobodyIsAgent(p) == FALSE

(* is_agent_process. *)
IsAgent(p) == p = Agent /\ agentPid = "live"

(* The path that is read in a name. *)
Read(t) == IF t \in Part THEN Meant[t] ELSE t

LocationFlags(t) == IF Read(t) \in Temp THEN {"InTempLocation"} ELSE {}

(* get_rename_flags. *)
RenameFlags(old, new) ==
  IF Ext[old] # Ext[new] /\ Ext[new] \in ExecExt THEN {"RenamedToExecutable"} ELSE {}

(* query_file_index; it may fail. *)
FileIndex(f) == IF f \in Indexed THEN {f, None} ELSE {None}

(* send_fs_telemetry.  The message may get lost although somebody waits, and none is
   sent of a file object without a name. *)
Send(p, kind, to) ==
  LET raw(t) == IF t = None THEN None ELSE [path |-> t, full |-> FALSE] IN
  \/ /\ client = "live"
     /\ listener = "get"
     /\ listener' = "resolve"
     /\ \E i \in FileIndex(io[p].file) :
          msg' = [by |-> p, kind |-> kind, index |-> i, path |-> raw(io[p].name),
                  to |-> raw(to), key |-> None]
  \/ UNCHANGED <<listener, msg>>

(* The operations of the agent, which renames and deletes nothing, are not
   reported. *)
Report(p, kind, to) ==
  IF IsAgent(p) THEN UNCHANGED <<listener, msg>> ELSE Send(p, kind, to)

Does(f, flags) == did' = [did EXCEPT ![f] = @ \cup flags]

(* pre_create, and the file system opening q: with a new file, or one that is
   overwritten, or one that is opened as it is, which post_create passes over;
   what the agent only opens is left out.  A file object keeps the name it was
   opened by. *)
Create(p, f, q, t) ==
  /\ io[p].at = "idle"
  /\ p # Agent \/ agent # "down"
  /\ t = q \/ t \in Part
  /\ at[q] = f \/ (at[q] = None /\ did[f] = {})
  /\ at' = [at EXCEPT ![q] = f]
  /\ \/ /\ Counted
        /\ Does(f, {"FileCreateSuccess"} \cup LocationFlags(t))
        /\ io' = [io EXCEPT ![p] = [at |-> IF IsAgent(p) THEN "open" ELSE "created",
                                    file |-> f, name |-> t, to |-> None]]
     \/ /\ p # Agent /\ at[q] = f
        /\ io' = [io EXCEPT ![p] = [at |-> "open", file |-> f, name |-> t, to |-> None]]
        /\ UNCHANGED <<did, ops>>
  /\ UNCHANGED <<port, agent, taken>>

PostCreate(p) ==
  /\ io[p].at = "created"
  /\ io' = [io EXCEPT ![p].at = "open"]
  /\ Report(p, "FileCreate", None)
  /\ UNCHANGED <<at, did, ops, port, agent, ctx>>

(* pre_write; whether the write then succeeds is not looked at. *)
PreWrite(p) ==
  /\ io[p].at = "open"
  /\ Counted
  /\ Does(io[p].file, {"FileWriteSuccess"} \cup LocationFlags(io[p].name))
  /\ Report(p, "FileWrite", None)
  /\ UNCHANGED <<at, io, port, agent, ctx>>

(* pre_set_info, for the classes that rename: the target is copied as it stands in the
   buffer, which may name it relative to a directory.  Of a buffer that is too short
   for the name nothing is sent, and the file system refuses it. *)
PreRename(p, q, t) ==
  /\ io[p].at = "open"
  /\ t = q \/ t \in Part
  /\ Counted
  /\ \/ /\ io' = [io EXCEPT ![p].at = "renaming", ![p].to = q]
        /\ Does(io[p].file, RenameFlags(io[p].name, t))
        /\ Report(p, "Rename", t)
     \/ UNCHANGED <<io, did, listener, msg>>
  /\ UNCHANGED <<at, port, agent, ctx>>

Names(f) == {q \in Path : at[q] = f}

(* The file system renames, replacing what had that name, or refuses to.  Which of
   several links the file object stands for is not kept. *)
Rename(p) ==
  LET f == io[p].file IN
  /\ io[p].at = "renaming"
  /\ io' = [io EXCEPT ![p].at = "open", ![p].to = None]
  /\ \/ \E o \in Names(f) : at' = [at EXCEPT ![o] = None, ![io[p].to] = f]
     \/ UNCHANGED at
  /\ UNCHANGED <<did, ops, port, agent, taken>>

(* pre_set_info sends nothing for a deletion. *)
Delete(p) ==
  /\ io[p].at = "open"
  /\ Counted
  /\ \E o \in Names(io[p].file) : at' = [at EXCEPT ![o] = None]
  /\ UNCHANGED <<io, did, port, agent, taken>>

(* Nor does it for a hard link. *)
Link(q, r) ==
  /\ at[q] # None /\ at[r] = None
  /\ Counted
  /\ at' = [at EXCEPT ![r] = at[q]]
  /\ UNCHANGED <<io, did, port, agent, taken>>

(* A directory without open files is renamed, which tells nothing of the files in it. *)
MoveDirectory(q, r) ==
  /\ at[q] # None /\ at[r] = None
  /\ \A p \in Process : io[p].file # at[q]
  /\ Counted
  /\ at' = [at EXCEPT ![q] = None, ![r] = at[q]]
  /\ UNCHANGED <<io, did, port, agent, taken>>

Close(p) ==
  /\ io[p].at = "open"
  /\ io' = [io EXCEPT ![p] = Closed]
  /\ UNCHANGED <<at, did, ops, port, agent, taken>>

-----------------------------------------------------------------------------
(* The port, and both its ends. *)

(* kf_connect_and_listen, up to CLIENT_PORT being set by connect_notify; without
   a connection the agent goes on and does not try again. *)
Start ==
  /\ agent = "down"
  /\ agent' = "up"
  /\ \/ /\ filter = "loaded" /\ client = "none"
        /\ client' = "live"
        /\ listener' = "connecting"
     \/ UNCHANGED <<client, listener>>
  /\ UNCHANGED <<world, filter, agentPid, msg, ctx>>

Connected ==
  /\ listener = "connecting"
  /\ agentPid' = "live"
  /\ listener' = "get"
  /\ UNCHANGED <<world, filter, client, agent, msg, ctx>>

Aged(x) == IF x = "live" THEN "old" ELSE x

(* FilterPortListener::drop, before it joins the thread. *)
Drop ==
  /\ agent = "up"
  /\ listener # "connecting"
  /\ agent' = "dropping"
  /\ client' = Aged(client)
  /\ UNCHANGED <<world, filter, agentPid, taken>>

(* The agent ends; its cache and what it was doing end with it. *)
End ==
  /\ agent' = "down"
  /\ listener' = "none"
  /\ msg' = None
  /\ client' = Aged(client)
  /\ agentPid' = Aged(agentPid)
  /\ io' = [io EXCEPT ![Agent] = Closed]
  /\ ctx' = [k \in Key |-> None]
  /\ UNCHANGED <<at, did, ops, filter>>

Dropped == agent = "dropping" /\ listener = "none" /\ End

Crash == agent # "down" /\ listener # "connecting" /\ End

Cleared == agentPid' = "none"

(* disconnect_notify, called once the agent's handle is closed. *)
Disconnect ==
  /\ client = "old"
  /\ filter # "unloaded"
  /\ client' = "closing"
  /\ Cleared
  /\ UNCHANGED <<world, filter, agent, taken>>

(* FltCloseClientPort at its end. *)
ClientGone ==
  /\ client = "closing"
  /\ client' = "none"
  /\ UNCHANGED <<world, filter, agentPid, agent, taken>>

(* filter_unload: teardown_port, which leaves AGENT_PID alone, and
   FltUnregisterFilter, which waits for callbacks such as connect_notify. *)
Unload ==
  /\ filter = "loaded"
  /\ listener # "connecting"
  /\ filter' = "unloaded"
  /\ client' = "none"
  /\ UNCHANGED <<world, agentPid, agent, taken>>

(* DriverEntry, when all of it succeeds; otherwise nothing is left of it. *)
Load ==
  /\ filter = "unloaded"
  /\ filter' = "loaded"
  /\ agentPid' = "none"
  /\ UNCHANGED <<world, client, agent, taken>>

-----------------------------------------------------------------------------
(* The listening thread: kf_listen_for_messages, and write_telemetry. *)

(* FilterGetMessage fails: the thread ends, whether running is set or not. *)
GetFails ==
  /\ listener = "get"
  /\ listener' = "none"
  /\ UNCHANGED <<world, port, agent, msg, ctx>>

Exists(t) == Read(t) # None /\ at[Read(t)] # None

Full(t) == [path |-> Read(t), full |-> TRUE]

\* Mutant of Canonical: a name that is not found is dropped.
FoundOnly(n) == IF n = None \/ ~Exists(n.path) THEN None ELSE Full(n.path)

(* fsc_canonicalize_path: a name that is not found is left as it is. *)
Canonical(n) == IF n = None \/ ~Exists(n.path) THEN n ELSE Full(n.path)

Resolve ==
  /\ listener = "resolve"
  /\ listener' = "entry"
  /\ msg' = [msg EXCEPT !.path = Canonical(@), !.to = Canonical(@)]
  /\ UNCHANGED <<world, port, agent, ctx>>

\* Mutant of KeyOf: the index is asked for when the message is handled.
KeyNow(m) ==
  IF Exists(m.path.path) /\ at[Read(m.path.path)] \in Indexed
  THEN at[Read(m.path.path)] ELSE Canonical(m.path)

(* from_identity. *)
KeyOf(m) == IF m.index # None THEN m.index ELSE Canonical(m.path)

Fresh == [path |-> None, flags |-> {}]

Found(k) == IF ctx[k] = None THEN Fresh ELSE ctx[k]

(* get_with. *)
Entry ==
  LET k == KeyOf(msg) IN
  /\ listener = "entry"
  /\ listener' = "write"
  /\ ctx' = [ctx EXCEPT ![k] = Found(k)]
  /\ msg' = [msg EXCEPT !.key = k]
  /\ UNCHANGED <<world, port, agent>>

FlagsOf(m) ==
  LET location == IF m.path.full THEN LocationFlags(m.path.path) ELSE {} IN
  CASE m.kind = "FileCreate" -> {"FileCreateSuccess"} \cup location
    [] m.kind = "FileWrite"  -> {"FileWriteSuccess"} \cup location
    [] m.kind = "Rename"     -> RenameFlags(m.path.path, m.to.path)

(* apply_telemetry. *)
Applied(c, m) ==
  [path  |-> Canonical(IF m.kind = "Rename" THEN m.to ELSE m.path),
   flags |-> c.flags \cup FlagsOf(m)]

(* The thread after a message: the condition of the loop. *)
Looped == IF agent = "dropping" THEN "none" ELSE "get"

(* The entry is written, in the cache or evicted from it in the meantime. *)
Write ==
  LET k == msg.key IN
  /\ listener = "write"
  /\ listener' = Looped
  /\ msg' = None
  /\ ctx' = IF ctx[k] = None THEN ctx ELSE [ctx EXCEPT ![k] = Applied(@, msg)]
  /\ UNCHANGED <<world, port, agent>>

(* The cache drops an entry; which one, and when, is its own affair. *)
Evict(k) ==
  /\ ctx[k] # None
  /\ Cardinality({j \in Key : ctx[j] # None}) > Capacity
  /\ ctx' = [ctx EXCEPT ![k] = None]
  /\ UNCHANGED <<world, port, agent, listener, msg>>

-----------------------------------------------------------------------------
Operation ==
  \/ \E p \in Process :
       \/ \E f \in File, q \in Path, t \in Text : Create(p, f, q, t)
       \/ PostCreate(p) \/ PreWrite(p) \/ Close(p)
  \/ \E p \in User :
       \/ \E q \in Path, t \in Text : PreRename(p, q, t)
       \/ Rename(p) \/ Delete(p)
  \/ \E q, r \in Path : Link(q, r) \/ MoveDirectory(q, r)

Next ==
  \/ Operation
  \/ Start \/ Connected \/ Drop \/ Dropped \/ Crash
  \/ Disconnect \/ ClientGone \/ Unload \/ Load
  \/ GetFails \/ Resolve \/ Entry \/ Write
  \/ \E k \in Key : Evict(k)

Spec == Init /\ [][Next]_vars

-----------------------------------------------------------------------------
(* What the agent does itself is never telemetry it has to handle, although
   connect_notify and disconnect_notify change CLIENT_PORT and AGENT_PID one
   after the other. *)
OwnIoUnseen == msg # None => msg.by # Agent

(* A flag of a file that is known by its index is owed to what was done to that very
   file, under whatever names, and to nothing that was done to another.  Location and
   extension are those of the names the messages have, as the agent reads them. *)
FlagsEarned ==
  \A f \in Indexed : ctx[f] # None => ctx[f].flags \subseteq did[f]
=============================================================================
