------------------------- MODULE FileTelemetryProofs -------------------------
(***************************************************************************)
(* The agent's own operations are no telemetry it handles, a flag of an    *)
(* indexed file is owed to that file, for any files, names, processes,     *)
(* operations and capacity.                                                *)
(***************************************************************************)
EXTENDS FileTelemetry, TLAPS

(* The messages of the minifilter, with the key the agent gives them. *)
Message == [by : Process, kind : Kind, index : Indexed \cup {None}, path : Name,
            to : Name \cup {None}, key : Key \cup {None}]

(* The thread has a message to handle. *)
Handling == listener \in {"resolve", "entry", "write"}

(* What the port and the thread that listens on it know of each other: without
   the agent nobody listens, without the minifilter nobody is connected, who can
   take a message has told the minifilter its PID, and a thread that handles a
   message has one. *)
PortKnown ==
  /\ agent = "down" => listener = "none"
  /\ filter = "unloaded" => client = "none"
  /\ client = "live" /\ listener \notin {"none", "connecting"} => agentPid = "live"
  /\ Handling => msg \in Message

(* The flags a message can give, wherever its name is resolved. *)
Owed(kind, path, to) ==
  IF kind = "FileCreate" THEN {"FileCreateSuccess"} \cup LocationFlags(path)
  ELSE IF kind = "FileWrite" THEN {"FileWriteSuccess"} \cup LocationFlags(path)
  ELSE RenameFlags(path, to)

(* Who is in an operation has a file open, by a name; what post_create is about
   to report was done to it. *)
OpenEarned ==
  \A p \in Process : io[p].at # "idle" =>
    /\ io[p].file \in File /\ io[p].name \in Text
    /\ io[p].at = "created" =>
         Owed("FileCreate", io[p].name, None) \subseteq did[io[p].file]

(* A message is not of the agent; what it can give, if it has an index, was done
   to the file of that index, and it is written to the entry of that file. *)
MsgEarned ==
  Handling =>
    /\ msg.by # Agent
    /\ msg.kind = "Rename" => msg.to # None
    /\ msg.index # None =>
         Owed(msg.kind, msg.path.path, msg.to.path) \subseteq did[msg.index]
    /\ listener = "write" =>
         /\ msg.index # None => msg.key = msg.index
         /\ msg.index = None => msg.key \in Name

Inv ==
  /\ TypeOK /\ PortKnown /\ OpenEarned /\ MsgEarned
  /\ OwnIoUnseen /\ FlagsEarned

-----------------------------------------------------------------------------
(* Facts about the values. *)

IoState  == [at : {"idle", "open", "created", "renaming"}, file : File \cup {None},
             name : Text \cup {None}, to : Path \cup {None}]
Contexts == [Key -> [path : Name \cup {None}, flags : SUBSET Flag] \cup {None}]

(* The type invariant in parts. *)
LEMMA Types ==
  TypeOK <=>
    /\ at \in [Path -> File \cup {None}]
    /\ io \in [Process -> IoState]
    /\ filter \in {"loaded", "unloaded"}
    /\ client \in {"none", "live", "old", "closing"}
    /\ agentPid \in {"none", "live", "old"}
    /\ agent \in {"down", "up", "dropping"}
    /\ listener \in {"none", "connecting", "get", "resolve", "entry", "write"}
    /\ msg = None \/ msg \in Message
    /\ ctx \in Contexts
    /\ did \in [File -> SUBSET Flag]
    /\ ops \in 0 .. MaxOps
  BY DEF TypeOK, IoState, Message, Contexts

(* The flags that names give are flags. *)
LEMMA FlagsTyped ==
  /\ \A q : LocationFlags(q) \subseteq {"InTempLocation"}
  /\ \A q, r : RenameFlags(q, r) \subseteq {"RenamedToExecutable"}
  /\ {"FileCreateSuccess", "FileWriteSuccess", "InTempLocation", "RenamedToExecutable"}
       \subseteq Flag
  BY DEF LocationFlags, RenameFlags, Flag

(* What apply_telemetry sets is among what a message owes. *)
LEMMA FlagsOwed ==
  ASSUME NEW m, m.kind \in Kind
  PROVE  FlagsOf(m) \subseteq Owed(m.kind, m.path.path, m.to.path)
<1>1. CASE m.kind = "FileCreate"
  <2>1. FlagsOf(m) = {"FileCreateSuccess"}
                       \cup (IF m.path.full THEN LocationFlags(m.path.path) ELSE {})
    BY <1>1 DEF FlagsOf
  <2>2. QED
    BY <1>1, <2>1 DEF Owed
<1>2. CASE m.kind = "FileWrite"
  <2>1. FlagsOf(m) = {"FileWriteSuccess"}
                       \cup (IF m.path.full THEN LocationFlags(m.path.path) ELSE {})
    BY <1>2 DEF FlagsOf
  <2>2. QED
    BY <1>2, <2>1 DEF Owed
<1>3. CASE m.kind = "Rename"
  <2>1. FlagsOf(m) = RenameFlags(m.path.path, m.to.path)
    BY <1>3 DEF FlagsOf
  <2>2. QED
    BY <1>3, <2>1 DEF Owed
<1>4. QED
  BY <1>1, <1>2, <1>3 DEF Kind

(* What a message owes are flags. *)
LEMMA OwedTyped ==
  ASSUME NEW kind, NEW q, NEW r
  PROVE  Owed(kind, q, r) \subseteq Flag
  BY FlagsTyped DEF Owed

(* A name is a text with a mark. *)
LEMMA NameParts ==
  \A n \in Name : n # None /\ n.path \in Text /\ n = [path |-> n.path, full |-> n.full]
  BY ConstantsAssumption DEF Name, ConstantsAssumption

(* What is read in a name that is found is a path with the same extension, and a
   path is read as it stands. *)
LEMMA ReadKeeps ==
  ASSUME NEW t \in Text, Read(t) # None
  PROVE  /\ Read(t) \in Path
         /\ Read(Read(t)) = Read(t)
         /\ Ext[Read(t)] = Ext[t]
<1>1. CASE t \in Part
  <2>1. Read(t) = Meant[t] /\ Meant[t] \in Path /\ Ext[Meant[t]] = Ext[t]
    BY <1>1, ConstantsAssumption DEF Read, ConstantsAssumption
  <2>2. Meant[t] \notin Part
    BY <2>1, ConstantsAssumption DEF ConstantsAssumption
  <2>3. Read(Meant[t]) = Meant[t]
    BY <2>2 DEF Read
  <2>4. QED
    BY <2>1, <2>3
<1>2. CASE t \notin Part
  BY <1>2 DEF Read, Text
<1>3. QED
  BY <1>1, <1>2

(* Resolving a name keeps the location and the extension it stands for. *)
LEMMA CanonicalKeeps ==
  ASSUME NEW n \in Name \cup {None}
  PROVE  /\ Canonical(n) \in Name \cup {None}
         /\ n = None => Canonical(n) = None
         /\ n # None => /\ Canonical(n) \in Name
                        /\ LocationFlags(Canonical(n).path) = LocationFlags(n.path)
                        /\ Ext[Canonical(n).path] = Ext[n.path]
<1>1. CASE n = None \/ ~ Exists(n.path)
  BY <1>1 DEF Canonical
<1>2. CASE n # None /\ Exists(n.path)
  <2>1. Canonical(n) = [path |-> Read(n.path), full |-> TRUE]
    BY <1>2 DEF Canonical, Full
  <2>2. n.path \in Text /\ Read(n.path) # None
    BY <1>2, NameParts DEF Exists
  <2>3. /\ Read(n.path) \in Path
        /\ Read(Read(n.path)) = Read(n.path)
        /\ Ext[Read(n.path)] = Ext[n.path]
    BY <2>2, ReadKeeps
  <2>4. Canonical(n) \in Name /\ Canonical(n).path = Read(n.path)
    BY <2>1, <2>3 DEF Name, Text
  <2>5. LocationFlags(Read(n.path)) = LocationFlags(n.path)
    BY <2>3 DEF LocationFlags
  <2>6. LocationFlags(Canonical(n).path) = LocationFlags(n.path)
    BY <2>4, <2>5
  <2>7. Ext[Canonical(n).path] = Ext[n.path]
    BY <2>3, <2>4
  <2>8. QED
    BY <1>2, <2>4, <2>6, <2>7
<1>3. QED
  BY <1>1, <1>2

(* What a message owes is the same when its names are resolved. *)
LEMMA OwedResolved ==
  ASSUME NEW kind \in Kind, NEW n \in Name, NEW o \in Name \cup {None},
         kind = "Rename" => o # None
  PROVE  Owed(kind, Canonical(n).path, Canonical(o).path) = Owed(kind, n.path, o.path)
<1>1. LocationFlags(Canonical(n).path) = LocationFlags(n.path)
      /\ Ext[Canonical(n).path] = Ext[n.path]
  BY CanonicalKeeps, NameParts
<1>2. CASE kind = "FileCreate"
  BY <1>1, <1>2 DEF Owed
<1>3. CASE kind = "FileWrite"
  BY <1>1, <1>3 DEF Owed
<1>4. CASE kind = "Rename"
  <2>1. Ext[Canonical(o).path] = Ext[o.path]
    BY <1>4, CanonicalKeeps
  <2>2. RenameFlags(Canonical(n).path, Canonical(o).path) = RenameFlags(n.path, o.path)
    BY <1>1, <2>1 DEF RenameFlags
  <2>3. QED
    BY <1>4, <2>2 DEF Owed
<1>5. QED
  BY <1>2, <1>3, <1>4 DEF Kind

(* The invariant holds initially. *)
LEMMA Initial == Init => Inv
<1> SUFFICES ASSUME Init PROVE Inv
  OBVIOUS
<1>1. TypeOK
  BY ConstantsAssumption DEF Init, TypeOK, Closed, ConstantsAssumption
<1>2. PortKnown /\ OpenEarned /\ MsgEarned
  BY DEF Init, PortKnown, OpenEarned, MsgEarned, Handling, Closed
<1>3. OwnIoUnseen /\ FlagsEarned
  BY DEF Init, OwnIoUnseen, FlagsEarned, Key
<1>4. QED
  BY <1>1, <1>2, <1>3 DEF Inv

-----------------------------------------------------------------------------
(* Operations on files. *)

(* What was done to files is only ever more. *)
DidMore == did' \in [File -> SUBSET Flag] /\ \A f \in File : did[f] \subseteq did'[f]

(* An operation adds its flags to its file. *)
LEMMA DoesMore ==
  ASSUME TypeOK, NEW f \in File, NEW flags \in SUBSET Flag, Does(f, flags)
  PROVE  DidMore /\ flags \subseteq did'[f]
  BY DEF Does, DidMore, TypeOK

(* A callback that reports, or not, an operation whose flags were added. *)
LEMMA ReportKeeps ==
  ASSUME Inv, DidMore, UNCHANGED <<port, agent, ctx>>,
         NEW p \in Process, io[p].file \in File, io[p].name \in Text,
         NEW kind \in Kind, NEW to \in Text \cup {None}, kind = "Rename" => to # None,
         Owed(kind, io[p].name, to) \subseteq did'[io[p].file],
         Report(p, kind, to)
  PROVE  /\ listener' \in {"none", "connecting", "get", "resolve", "entry", "write"}
         /\ msg' = None \/ msg' \in Message
         /\ PortKnown' /\ MsgEarned' /\ OwnIoUnseen' /\ FlagsEarned'
<1> DEFINE raw(q) == IF q = None THEN None ELSE [path |-> q, full |-> FALSE]
           f      == io[p].file
<1> USE DEF Inv
<1>1. UNCHANGED <<filter, client, agentPid, agent, ctx>>
  BY DEF port
<1>2. FlagsEarned'
  BY <1>1, ConstantsAssumption DEF FlagsEarned, DidMore, ConstantsAssumption
<1>4. ASSUME UNCHANGED <<listener, msg>>
      PROVE  /\ PortKnown' /\ MsgEarned' /\ OwnIoUnseen'
             /\ listener' \in {"none", "connecting", "get", "resolve", "entry", "write"}
             /\ msg' = None \/ msg' \in Message
  <2>1. PortKnown' /\ OwnIoUnseen'
    BY <1>1, <1>4 DEF PortKnown, OwnIoUnseen, Handling
  <2>2. Handling /\ msg.index # None => msg.index \in File
    BY ConstantsAssumption DEF PortKnown, Message, ConstantsAssumption
  <2>3. MsgEarned'
    BY <1>4, <2>2 DEF MsgEarned, DidMore, Handling
  <2>4. QED
    BY <1>4, <2>1, <2>3, Types
<1>5. ASSUME ~ IsAgent(p), client = "live", listener = "get", listener' = "resolve",
             NEW i \in FileIndex(f),
             msg' = [by |-> p, kind |-> kind, index |-> i, path |-> raw(io[p].name),
                     to |-> raw(to), key |-> None]
      PROVE  /\ PortKnown' /\ MsgEarned' /\ OwnIoUnseen'
             /\ listener' \in {"none", "connecting", "get", "resolve", "entry", "write"}
             /\ msg' = None \/ msg' \in Message
  <2>0. /\ \A q \in Text : raw(q) = [path |-> q, full |-> FALSE] /\ q # None
        /\ raw(None) = None
    BY ConstantsAssumption DEF ConstantsAssumption
  <2> HIDE DEF raw
  <2>1. \A q \in Text : raw(q) \in Name /\ raw(q) # None /\ raw(q).path = q
    <3> SUFFICES ASSUME NEW q \in Text
                 PROVE  raw(q) \in Name /\ raw(q) # None /\ raw(q).path = q
      OBVIOUS
    <3>1. raw(q) = [path |-> q, full |-> FALSE]
      BY <2>0
    <3>2. raw(q) \in Name /\ raw(q).path = q
      BY <3>1 DEF Name
    <3>3. QED
      BY <3>2, ConstantsAssumption DEF Name, ConstantsAssumption
  <2>2. i \in Indexed \cup {None} /\ (i # None => i = f)
    BY <1>5 DEF FileIndex
  <2>3. msg' \in Message
    BY <1>5, <2>0, <2>1, <2>2 DEF Message, Key
  <2>4. p # Agent
    BY <1>5 DEF IsAgent, PortKnown, Handling
  <2>5. OwnIoUnseen'
    BY <1>5, <2>4 DEF OwnIoUnseen
  <2>6. Owed(kind, io[p].name, raw(to).path) = Owed(kind, io[p].name, to)
    BY <2>0, <2>1 DEF Owed, Kind
  <2>7. MsgEarned'
    BY <1>5, <2>0, <2>1, <2>2, <2>4, <2>6 DEF MsgEarned, Handling
  <2>9. PortKnown'
    BY <1>1, <1>5, <2>3 DEF PortKnown, Handling
  <2>10. QED
    BY <1>5, <2>3, <2>5, <2>7, <2>9
<1>6. QED
  <2>1. CASE IsAgent(p)
    <3>1. UNCHANGED <<listener, msg>>
      BY <2>1 DEF Report
    <3>2. QED
      BY <1>2, <1>4, <3>1 DEF TypeOK
  <2>2. CASE ~ IsAgent(p)
    <3>1. Send(p, kind, to)
      BY <2>2 DEF Report
    <3>2. QED
      BY <1>2, <1>4, <1>5, <2>2, <3>1 DEF Send
  <2>3. QED
    BY <2>1, <2>2

(* What an operation does that reports nothing leaves to the rest. *)
LEMMA SilentKeeps ==
  ASSUME Inv, DidMore, UNCHANGED <<port, agent, taken>>
  PROVE  PortKnown' /\ MsgEarned' /\ OwnIoUnseen' /\ FlagsEarned'
<1> USE DEF Inv, port, taken
<1>1. PortKnown' /\ OwnIoUnseen'
  BY DEF PortKnown, OwnIoUnseen, Handling
<1>2. FlagsEarned'
  BY ConstantsAssumption DEF FlagsEarned, DidMore, ConstantsAssumption
<1>3. Handling /\ msg.index # None => msg.index \in File
  BY ConstantsAssumption DEF PortKnown, Message, ConstantsAssumption
<1>4. MsgEarned'
  BY <1>3 DEF MsgEarned, DidMore, Handling
<1>5. QED
  BY <1>1, <1>2, <1>4

(* What a process has open and is in changes; what was done stays. *)
LEMMA IoChanges ==
  ASSUME Inv, DidMore, NEW p \in Process, NEW s \in IoState,
         io' = [io EXCEPT ![p] = s],
         s.at # "idle" => s.file \in File /\ s.name \in Text,
         s.at = "created" => Owed("FileCreate", s.name, None) \subseteq did'[s.file]
  PROVE  OpenEarned' /\ io' \in [Process -> IoState]
<1> USE DEF Inv
<1>1. io \in [Process -> IoState]
  BY Types
<1>2. io' \in [Process -> IoState] /\ io'[p] = s /\ \A o \in Process \ {p} : io'[o] = io[o]
  BY <1>1
<1>3. QED
  BY <1>2 DEF OpenEarned, DidMore

(* Nothing is done. *)
LEMMA DidAll == TypeOK /\ UNCHANGED did => DidMore
  BY DEF DidMore, TypeOK

(* Opening a file keeps the invariant. *)
LEMMA CreateKept ==
  ASSUME Inv, NEW p \in Process, NEW f \in File, NEW q \in Path, NEW t \in Text,
         Create(p, f, q, t)
  PROVE  Inv'
<1> DEFINE state(s) == [at |-> s, file |-> f, name |-> t, to |-> None]
<1> USE DEF Inv
<1>1. UNCHANGED <<port, agent, taken>> /\ at' = [at EXCEPT ![q] = f]
  BY DEF Create
<1>2. \A s \in {"open", "created"} :
        /\ state(s) \in IoState /\ state(s).at = s
        /\ state(s).file = f /\ state(s).name = t
  BY DEF IoState
<1>3. PICK s \in {"open", "created"} :
        /\ io' = [io EXCEPT ![p] = state(s)]
        /\ \/ Counted /\ Does(f, {"FileCreateSuccess"} \cup LocationFlags(t))
           \/ s = "open" /\ UNCHANGED <<did, ops>>
  BY DEF Create
<1>4. {"FileCreateSuccess"} \cup LocationFlags(t) = Owed("FileCreate", t, None)
  BY DEF Owed
<1>5. /\ DidMore /\ ops' \in 0 .. MaxOps
      /\ s = "created" => Owed("FileCreate", t, None) \subseteq did'[f]
  <2>1. CASE Counted /\ Does(f, {"FileCreateSuccess"} \cup LocationFlags(t))
    <3>1. {"FileCreateSuccess"} \cup LocationFlags(t) \in SUBSET Flag
      BY FlagsTyped
    <3>2. DidMore /\ {"FileCreateSuccess"} \cup LocationFlags(t) \subseteq did'[f]
      BY <2>1, <3>1, DoesMore
    <3>3. ops' \in 0 .. MaxOps
      BY <2>1, ConstantsAssumption DEF Counted, TypeOK, ConstantsAssumption
    <3>4. QED
      BY <1>4, <3>2, <3>3
  <2>2. CASE s = "open" /\ UNCHANGED <<did, ops>>
    BY <2>2, DidAll DEF TypeOK
  <2>3. QED
    BY <1>3, <2>1, <2>2
<1> HIDE DEF state
<1>6. OpenEarned' /\ io' \in [Process -> IoState]
  BY <1>2, <1>3, <1>5, IoChanges
<1>7. PortKnown' /\ MsgEarned' /\ OwnIoUnseen' /\ FlagsEarned'
  BY <1>1, <1>5, SilentKeeps
<1>8. TypeOK'
  BY <1>1, <1>5, <1>6, Types DEF port, taken, TypeOK, DidMore, IoState
<1>9. QED
  BY <1>6, <1>7, <1>8

(* post_create keeps the invariant. *)
LEMMA PostCreateKept ==
  ASSUME Inv, NEW p \in Process, PostCreate(p)
  PROVE  Inv'
<1> USE DEF Inv
<1>1. /\ UNCHANGED <<at, did, ops, port, agent, ctx>>
      /\ io' = [io EXCEPT ![p] = [io[p] EXCEPT !.at = "open"]]
      /\ Report(p, "FileCreate", None)
      /\ io[p].at = "created"
  BY DEF PostCreate
<1>2. /\ [io[p] EXCEPT !.at = "open"] \in IoState
      /\ [io[p] EXCEPT !.at = "open"].at = "open"
      /\ [io[p] EXCEPT !.at = "open"].file = io[p].file
      /\ [io[p] EXCEPT !.at = "open"].name = io[p].name
  BY Types DEF IoState
<1>3. DidMore
  BY <1>1, DidAll
<1>4. io[p].file \in File /\ io[p].name \in Text
  BY <1>1 DEF OpenEarned
<1>5. Owed("FileCreate", io[p].name, None) \subseteq did'[io[p].file]
  BY <1>1 DEF OpenEarned
<1>6. OpenEarned' /\ io' \in [Process -> IoState]
  BY <1>1, <1>2, <1>3, <1>4, IoChanges
<1>7. /\ listener' \in {"none", "connecting", "get", "resolve", "entry", "write"}
      /\ msg' = None \/ msg' \in Message
      /\ PortKnown' /\ MsgEarned' /\ OwnIoUnseen' /\ FlagsEarned'
  BY <1>1, <1>3, <1>4, <1>5, ReportKeeps, "FileCreate" \in Kind DEF Kind
<1>8. TypeOK'
  BY <1>1, <1>6, <1>7 DEF port, TypeOK, IoState, Message
<1>9. QED
  BY <1>6, <1>7, <1>8

(* pre_write keeps the invariant. *)
LEMMA PreWriteKept ==
  ASSUME Inv, NEW p \in Process, PreWrite(p)
  PROVE  Inv'
<1> DEFINE flags == {"FileWriteSuccess"} \cup LocationFlags(io[p].name)
<1> USE DEF Inv
<1>1. /\ UNCHANGED <<at, io, port, agent, ctx>>
      /\ io[p].at = "open" /\ Counted
      /\ Does(io[p].file, flags)
      /\ Report(p, "FileWrite", None)
  BY DEF PreWrite
<1>2. io[p].file \in File /\ io[p].name \in Text
  BY <1>1 DEF OpenEarned
<1>3. flags \in SUBSET Flag /\ flags = Owed("FileWrite", io[p].name, None)
  BY FlagsTyped DEF Owed
<1>4. DidMore /\ Owed("FileWrite", io[p].name, None) \subseteq did'[io[p].file]
  BY <1>1, <1>2, <1>3, DoesMore
<1>5. ops' \in 0 .. MaxOps
  BY <1>1, ConstantsAssumption DEF Counted, TypeOK, ConstantsAssumption
<1>6. OpenEarned'
  BY <1>1, <1>4 DEF OpenEarned, DidMore
<1>7. /\ listener' \in {"none", "connecting", "get", "resolve", "entry", "write"}
      /\ msg' = None \/ msg' \in Message
      /\ PortKnown' /\ MsgEarned' /\ OwnIoUnseen' /\ FlagsEarned'
  BY <1>1, <1>2, <1>4, ReportKeeps, "FileWrite" \in Kind DEF Kind
<1>8. TypeOK'
  BY <1>1, <1>4, <1>5, <1>7 DEF port, TypeOK, Message, DidMore
<1>9. QED
  BY <1>6, <1>7, <1>8

(* pre_set_info keeps the invariant. *)
LEMMA PreRenameKept ==
  ASSUME Inv, NEW p \in User, NEW q \in Path, NEW t \in Text, PreRename(p, q, t)
  PROVE  Inv'
<1> DEFINE flags == RenameFlags(io[p].name, t)
<1> USE DEF Inv
<1>1. /\ UNCHANGED <<at, port, agent, ctx>>
      /\ io[p].at = "open"
      /\ ops' \in 0 .. MaxOps
      /\ p \in Process
  BY ConstantsAssumption DEF PreRename, Process, Counted, TypeOK, ConstantsAssumption
<1>2. CASE /\ io' = [io EXCEPT ![p] = [io[p] EXCEPT !.at = "renaming", !.to = q]]
           /\ Does(io[p].file, flags)
           /\ Report(p, "Rename", t)
  <2>1. /\ [io[p] EXCEPT !.at = "renaming", !.to = q] \in IoState
        /\ [io[p] EXCEPT !.at = "renaming", !.to = q].at = "renaming"
        /\ [io[p] EXCEPT !.at = "renaming", !.to = q].file = io[p].file
        /\ [io[p] EXCEPT !.at = "renaming", !.to = q].name = io[p].name
    BY <1>1, Types DEF IoState
  <2>2. io[p].file \in File /\ io[p].name \in Text
    BY <1>1 DEF OpenEarned
  <2>3. flags \in SUBSET Flag /\ flags = Owed("Rename", io[p].name, t)
    BY FlagsTyped DEF Owed
  <2>4. DidMore /\ Owed("Rename", io[p].name, t) \subseteq did'[io[p].file]
    BY <1>2, <2>2, <2>3, DoesMore
  <2>5. OpenEarned' /\ io' \in [Process -> IoState]
    BY <1>1, <1>2, <2>1, <2>2, <2>4, IoChanges
  <2>6. t # None /\ "Rename" \in Kind
    BY ConstantsAssumption DEF Kind, ConstantsAssumption
  <2>7. /\ listener' \in {"none", "connecting", "get", "resolve", "entry", "write"}
        /\ msg' = None \/ msg' \in Message
        /\ PortKnown' /\ MsgEarned' /\ OwnIoUnseen' /\ FlagsEarned'
    BY <1>1, <1>2, <2>2, <2>4, <2>6, ReportKeeps
  <2>8. TypeOK'
    BY <1>1, <2>4, <2>5, <2>7 DEF port, TypeOK, IoState, Message, DidMore
  <2>9. QED
    BY <2>5, <2>7, <2>8
<1>3. CASE UNCHANGED <<io, did, listener, msg>>
  <2>1. PortKnown' /\ MsgEarned' /\ OwnIoUnseen' /\ FlagsEarned'
    BY <1>1, <1>3, SilentKeeps, DidAll DEF taken
  <2>2. OpenEarned'
    BY <1>3 DEF OpenEarned
  <2>3. TypeOK'
    BY <1>1, <1>3 DEF port, TypeOK
  <2>4. QED
    BY <2>1, <2>2, <2>3
<1>4. QED
  BY <1>2, <1>3 DEF PreRename

(* The rename of the file system keeps the invariant. *)
LEMMA RenameKept ==
  ASSUME Inv, NEW p \in User, Rename(p)
  PROVE  Inv'
<1> USE DEF Inv
<1>1. /\ UNCHANGED <<did, ops, port, agent, taken>>
      /\ io[p].at = "renaming"
      /\ io' = [io EXCEPT ![p] = [io[p] EXCEPT !.at = "open", !.to = None]]
      /\ p \in Process
  BY DEF Rename, Process
<1>2. /\ [io[p] EXCEPT !.at = "open", !.to = None] \in IoState
      /\ [io[p] EXCEPT !.at = "open", !.to = None].at = "open"
      /\ [io[p] EXCEPT !.at = "open", !.to = None].file = io[p].file
      /\ [io[p] EXCEPT !.at = "open", !.to = None].name = io[p].name
  BY <1>1, Types DEF IoState
<1>3. io[p].file \in File /\ io[p].name \in Text
  BY <1>1 DEF OpenEarned
<1>4. at' \in [Path -> File \cup {None}]
  BY <1>3 DEF Rename, TypeOK
<1>5. DidMore
  BY <1>1, DidAll
<1>6. OpenEarned' /\ io' \in [Process -> IoState]
  BY <1>1, <1>2, <1>3, <1>5, IoChanges
<1>7. PortKnown' /\ MsgEarned' /\ OwnIoUnseen' /\ FlagsEarned'
  BY <1>1, <1>5, SilentKeeps
<1>8. TypeOK'
  BY <1>1, <1>4, <1>6 DEF port, taken, TypeOK, IoState
<1>9. QED
  BY <1>6, <1>7, <1>8

(* Deleting a file, a new link to one, and the new name of a directory keep the
   invariant. *)
LEMMA NamesKept ==
  ASSUME Inv,
         \/ \E p \in User : Delete(p)
         \/ \E q, r \in Path : Link(q, r) \/ MoveDirectory(q, r)
  PROVE  Inv'
<1> USE DEF Inv
<1>1. UNCHANGED <<io, did, port, agent, taken>> /\ Counted
  BY DEF Delete, Link, MoveDirectory
<1>2. at' \in [Path -> File \cup {None}]
  BY DEF Delete, Link, MoveDirectory, TypeOK
<1>3. ops' \in 0 .. MaxOps
  BY <1>1, ConstantsAssumption DEF Counted, TypeOK, ConstantsAssumption
<1>4. PortKnown' /\ MsgEarned' /\ OwnIoUnseen' /\ FlagsEarned'
  BY <1>1, SilentKeeps, DidAll
<1>5. OpenEarned'
  BY <1>1 DEF OpenEarned
<1>6. TypeOK'
  BY <1>1, <1>2, <1>3 DEF port, taken, TypeOK
<1>7. QED
  BY <1>4, <1>5, <1>6

(* Closing a file keeps the invariant. *)
LEMMA CloseKept ==
  ASSUME Inv, NEW p \in Process, Close(p)
  PROVE  Inv'
<1> USE DEF Inv
<1>1. /\ UNCHANGED <<at, did, ops, port, agent, taken>>
      /\ io' = [io EXCEPT ![p] = Closed]
  BY DEF Close
<1>2. Closed \in IoState /\ Closed.at = "idle"
  BY DEF Closed, IoState
<1>3. PortKnown' /\ MsgEarned' /\ OwnIoUnseen' /\ FlagsEarned'
  BY <1>1, SilentKeeps, DidAll
<1>4. OpenEarned' /\ io' \in [Process -> IoState]
  BY <1>1, <1>2, IoChanges, DidAll
<1>5. TypeOK'
  BY <1>1, <1>4 DEF port, taken, TypeOK, IoState
<1>6. QED
  BY <1>3, <1>4, <1>5

-----------------------------------------------------------------------------
(* The port and the agent. *)

(* Steps at the port that handle no message keep the invariant. *)
LEMMA PortKept ==
  ASSUME Inv, Start \/ Connected \/ Drop \/ Disconnect \/ ClientGone \/ Unload
                \/ Load \/ GetFails
  PROVE  Inv'
<1> USE DEF Inv
<1>1. UNCHANGED <<world, msg, ctx>>
  BY DEF Start, Connected, Drop, Disconnect, ClientGone, Unload, Load, GetFails, taken, port
<1>2. /\ filter' \in {"loaded", "unloaded"}
      /\ client' \in {"none", "live", "old", "closing"}
      /\ agentPid' \in {"none", "live", "old"}
      /\ agent' \in {"down", "up", "dropping"}
      /\ listener' \in {"none", "connecting", "get", "resolve", "entry", "write"}
  BY DEF TypeOK, Start, Connected, Drop, Disconnect, ClientGone, Unload, Load, GetFails,
         Aged, Cleared, taken, port
<1>3. TypeOK'
  BY <1>1, <1>2 DEF TypeOK, world
<1>4. OpenEarned' /\ OwnIoUnseen' /\ FlagsEarned'
  BY <1>1 DEF OpenEarned, OwnIoUnseen, FlagsEarned, world
<1>5. listener' = listener \/ ~ Handling'
  BY DEF Start, Connected, Drop, Disconnect, ClientGone, Unload, Load, GetFails,
         Handling, taken
<1>6. MsgEarned'
  BY <1>1, <1>5 DEF MsgEarned, Handling, world
<1>7. PortKnown'
  BY <1>1, <1>5
  DEF TypeOK, PortKnown, Handling, Start, Connected, Drop, Disconnect, ClientGone,
      Unload, Load, GetFails, Aged, Cleared, taken, port
<1>8. QED
  BY <1>3, <1>4, <1>6, <1>7

(* The end of the agent keeps the invariant. *)
LEMMA EndKept ==
  ASSUME Inv, End
  PROVE  Inv'
<1> USE DEF Inv
<1>1. /\ UNCHANGED <<at, did, ops, filter>>
      /\ agent' = "down" /\ listener' = "none" /\ msg' = None
      /\ client' = Aged(client) /\ agentPid' = Aged(agentPid)
      /\ io' = [io EXCEPT ![Agent] = Closed] /\ ctx' = [k \in Key |-> None]
  BY DEF End
<1>2. Closed \in IoState /\ Closed.at = "idle" /\ Agent \in Process
  BY DEF Closed, IoState, Process
<1>3. OpenEarned' /\ io' \in [Process -> IoState]
  BY <1>1, <1>2, IoChanges, DidAll
<1>4. client' \in {"none", "old", "closing"} /\ agentPid' \in {"none", "old"}
  BY <1>1 DEF TypeOK, Aged
<1>5. TypeOK'
  BY <1>1, <1>3, <1>4 DEF TypeOK, IoState
<1>6. PortKnown'
  BY <1>1, <1>4 DEF PortKnown, Handling, Aged
<1>7. MsgEarned' /\ OwnIoUnseen' /\ FlagsEarned'
  BY <1>1 DEF MsgEarned, Handling, OwnIoUnseen, FlagsEarned, Key
<1>8. QED
  BY <1>3, <1>5, <1>6, <1>7

-----------------------------------------------------------------------------
(* The listening thread. *)

(* Resolving the names keeps the invariant. *)
LEMMA ResolveKept ==
  ASSUME Inv, Resolve
  PROVE  Inv'
<1> USE DEF Inv
<1>1. /\ UNCHANGED <<world, port, agent, ctx>>
      /\ listener = "resolve" /\ listener' = "entry"
      /\ msg' = [msg EXCEPT !.path = Canonical(msg.path), !.to = Canonical(msg.to)]
  BY DEF Resolve
<1>2. msg \in Message
  BY <1>1 DEF PortKnown, Handling
<1>3. /\ Canonical(msg.path) \in Name
      /\ Canonical(msg.to) \in Name \cup {None}
      /\ msg.to # None => Canonical(msg.to) # None
  BY <1>2, CanonicalKeeps, NameParts DEF Message
<1>4. /\ msg' \in Message
      /\ msg'.by = msg.by /\ msg'.kind = msg.kind /\ msg'.index = msg.index
      /\ msg'.path = Canonical(msg.path) /\ msg'.to = Canonical(msg.to)
  BY <1>1, <1>2, <1>3 DEF Message
<1>5. TypeOK'
  BY <1>1, <1>4 DEF TypeOK, world, port, Message
<1>6. PortKnown'
  BY <1>1, <1>4 DEF PortKnown, port, Handling
<1>7. OpenEarned' /\ FlagsEarned'
  BY <1>1 DEF OpenEarned, FlagsEarned, world
<1>8. OwnIoUnseen'
  BY <1>1, <1>4 DEF OwnIoUnseen, MsgEarned, Handling
<1>9. MsgEarned'
  <2>1. /\ msg.kind \in Kind /\ msg.path \in Name /\ msg.to \in Name \cup {None}
        /\ msg.kind = "Rename" => msg.to # None
    BY <1>1, <1>2 DEF Message, MsgEarned, Handling
  <2>2. Owed(msg.kind, Canonical(msg.path).path, Canonical(msg.to).path)
          = Owed(msg.kind, msg.path.path, msg.to.path)
    BY <2>1, OwedResolved
  <2>3. Owed(msg'.kind, msg'.path.path, msg'.to.path)
          = Owed(msg.kind, msg.path.path, msg.to.path)
    BY <1>4, <2>2
  <2>4. msg'.index # None =>
          Owed(msg'.kind, msg'.path.path, msg'.to.path) \subseteq did'[msg'.index]
    BY <1>1, <1>4, <2>3 DEF MsgEarned, Handling, world
  <2>5. msg'.by # Agent /\ (msg'.kind = "Rename" => msg'.to # None)
    BY <1>1, <1>3, <1>4 DEF MsgEarned, Handling
  <2>6. QED
    BY <1>1, <2>4, <2>5 DEF MsgEarned, Handling
<1>10. QED
  BY <1>5, <1>6, <1>7, <1>8, <1>9

(* Finding or making the entry keeps the invariant. *)
LEMMA EntryKept ==
  ASSUME Inv, Entry
  PROVE  Inv'
<1> DEFINE k == KeyOf(msg)
<1> USE DEF Inv
<1>1. /\ UNCHANGED <<world, port, agent>>
      /\ listener = "entry" /\ listener' = "write"
      /\ ctx' = [ctx EXCEPT ![k] = Found(k)]
      /\ msg' = [msg EXCEPT !.key = k]
  BY DEF Entry
<1>2. msg \in Message
  BY <1>1 DEF PortKnown, Handling
<1>3. /\ msg.index # None => k = msg.index
      /\ msg.index = None => k \in Name
      /\ k \in Key
  BY <1>2, CanonicalKeeps, ConstantsAssumption
  DEF KeyOf, Key, Message, Name, ConstantsAssumption
<1> HIDE DEF k
<1>4. /\ msg' \in Message /\ msg'.key = k
      /\ msg'.by = msg.by /\ msg'.kind = msg.kind /\ msg'.index = msg.index
      /\ msg'.path = msg.path /\ msg'.to = msg.to
  BY <1>1, <1>2, <1>3 DEF Message
<1>5. /\ ctx' \in Contexts
      /\ \A j \in Key : ctx'[j] = ctx[j] \/ ctx'[j] = Fresh
  <2>1. Found(k) \in [path : Name \cup {None}, flags : SUBSET Flag]
    BY <1>3, Types DEF Found, Fresh, Contexts
  <2>2. Found(k) = ctx[k] \/ Found(k) = Fresh
    BY DEF Found
  <2>3. QED
    BY <1>1, <1>3, <2>1, <2>2, Types DEF Contexts
<1>6. TypeOK'
  BY <1>1, <1>4, <1>5 DEF TypeOK, world, port, Message, Contexts
<1>7. PortKnown'
  BY <1>1, <1>4 DEF PortKnown, port, Handling
<1>8. OpenEarned' /\ OwnIoUnseen'
  BY <1>1, <1>4 DEF OpenEarned, OwnIoUnseen, MsgEarned, Handling, world
<1>9. FlagsEarned'
  BY <1>1, <1>5 DEF FlagsEarned, world, Fresh, Key
<1>10. MsgEarned'
  BY <1>1, <1>3, <1>4 DEF MsgEarned, Handling, world
<1>11. QED
  BY <1>6, <1>7, <1>8, <1>9, <1>10

(* Writing the entry keeps the invariant: it is the one of the file the message
   was about, and what it gets is owed to that file. *)
LEMMA WriteKept ==
  ASSUME Inv, Write
  PROVE  Inv'
<1> DEFINE k == msg.key
<1> USE DEF Inv
<1>1. /\ UNCHANGED <<world, port, agent>>
      /\ listener = "write" /\ listener' = Looped /\ msg' = None
      /\ ctx' = IF ctx[k] = None THEN ctx ELSE [ctx EXCEPT ![k] = Applied(ctx[k], msg)]
  BY DEF Write
<1>2. msg \in Message
  BY <1>1 DEF PortKnown, Handling
<1>3. /\ FlagsOf(msg) \subseteq Owed(msg.kind, msg.path.path, msg.to.path)
      /\ FlagsOf(msg) \subseteq Flag
  BY <1>2, FlagsOwed, OwedTyped DEF Message
<1>4. ASSUME ctx[k] # None, k \in Key
      PROVE  /\ Applied(ctx[k], msg) \in [path : Name \cup {None}, flags : SUBSET Flag]
             /\ Applied(ctx[k], msg).flags = ctx[k].flags \cup FlagsOf(msg)
  <2>1. ctx[k].flags \subseteq Flag
    BY <1>4, Types DEF Contexts
  <2>2. Canonical(IF msg.kind = "Rename" THEN msg.to ELSE msg.path) \in Name \cup {None}
    BY <1>2, CanonicalKeeps DEF Message
  <2>3. QED
    BY <1>3, <2>1, <2>2 DEF Applied
<1>5. ctx' \in Contexts
  <2>1. CASE k \in Key /\ ctx[k] # None
    BY <1>1, <1>4, <2>1, Types DEF Contexts
  <2>2. CASE ctx[k] = None
    BY <1>1, <2>2, Types
  <2>3. CASE k \notin Key
    BY <1>1, <2>3, Types DEF Contexts
  <2>4. QED
    BY <2>1, <2>2, <2>3
<1>6. Looped \in {"none", "get"}
  BY DEF Looped
<1>7. TypeOK'
  BY <1>1, <1>5, <1>6 DEF TypeOK, world, port, Contexts
<1>8. PortKnown'
  BY <1>1, <1>6 DEF PortKnown, port, Handling
<1>9. OpenEarned' /\ OwnIoUnseen' /\ MsgEarned'
  BY <1>1, <1>6 DEF OpenEarned, OwnIoUnseen, MsgEarned, Handling, world
<1>10. FlagsEarned'
  <2> SUFFICES ASSUME NEW f \in Indexed, ctx'[f] # None PROVE ctx'[f].flags \subseteq did[f]
    BY <1>1 DEF FlagsEarned, world
  <2>1. f \in Key
    BY DEF Key
  <2>2. CASE f = k /\ ctx[k] # None
    <3>1. f \notin Name
      BY ConstantsAssumption DEF ConstantsAssumption, Name
    <3>2. msg.index = f
      BY <1>1, <2>2, <3>1 DEF MsgEarned, Handling
    <3>3. Owed(msg.kind, msg.path.path, msg.to.path) \subseteq did[f]
      BY <1>1, <3>2, ConstantsAssumption DEF MsgEarned, Handling, ConstantsAssumption
    <3>4. ctx'[f].flags = ctx[f].flags \cup FlagsOf(msg)
      BY <1>1, <1>4, <2>1, <2>2, Types DEF Contexts
    <3>5. ctx[f].flags \subseteq did[f]
      BY <2>2 DEF FlagsEarned
    <3>6. QED
      BY <1>3, <3>3, <3>4, <3>5
  <2>3. CASE f # k \/ ctx[k] = None
    <3>1. ctx'[f] = ctx[f]
      BY <1>1, <2>1, <2>3, Types DEF Contexts
    <3>2. QED
      BY <3>1 DEF FlagsEarned
  <2>4. QED
    BY <2>2, <2>3
<1>11. QED
  BY <1>7, <1>8, <1>9, <1>10

(* Eviction keeps the invariant. *)
LEMMA EvictKept ==
  ASSUME Inv, NEW k \in Key, Evict(k)
  PROVE  Inv'
<1> USE DEF Inv
<1>1. /\ UNCHANGED <<world, port, agent, listener, msg>>
      /\ ctx' = [ctx EXCEPT ![k] = None]
  BY DEF Evict
<1>2. ctx' \in Contexts /\ \A j \in Key : ctx'[j] = None \/ ctx'[j] = ctx[j]
  BY <1>1, Types DEF Contexts
<1>3. TypeOK'
  BY <1>1, <1>2 DEF TypeOK, world, port, Contexts
<1>4. PortKnown' /\ OpenEarned' /\ OwnIoUnseen' /\ MsgEarned'
  BY <1>1 DEF PortKnown, OpenEarned, OwnIoUnseen, MsgEarned, Handling, world, port
<1>5. FlagsEarned'
  BY <1>1, <1>2 DEF FlagsEarned, world, Key
<1>6. QED
  BY <1>3, <1>4, <1>5

-----------------------------------------------------------------------------
(* Every step keeps the invariant. *)
LEMMA InvStep == Inv /\ [Next]_vars => Inv'
<1> SUFFICES ASSUME Inv, [Next]_vars PROVE Inv'
  OBVIOUS
<1>1. CASE Operation
  BY <1>1, CreateKept, PostCreateKept, PreWriteKept, CloseKept, PreRenameKept,
     RenameKept, NamesKept DEF Operation
<1>2. CASE Start \/ Connected \/ Drop \/ Disconnect \/ ClientGone \/ Unload
             \/ Load \/ GetFails
  BY <1>2, PortKept
<1>3. CASE Dropped \/ Crash
  BY <1>3, EndKept DEF Dropped, Crash
<1>4. CASE Resolve \/ Entry \/ Write \/ \E k \in Key : Evict(k)
  BY <1>4, ResolveKept, EntryKept, WriteKept, EvictKept
<1>5. CASE UNCHANGED vars
  <2> USE DEF Inv, vars, world, port, taken
  <2>1. TypeOK'
    BY <1>5 DEF TypeOK
  <2>2. PortKnown' /\ OpenEarned' /\ MsgEarned' /\ OwnIoUnseen' /\ FlagsEarned'
    BY <1>5 DEF PortKnown, OpenEarned, MsgEarned, OwnIoUnseen, FlagsEarned, Handling
  <2>3. QED
    BY <2>1, <2>2
<1>6. QED
  BY <1>1, <1>2, <1>3, <1>4, <1>5 DEF Next

(* The invariant holds in every state. *)
LEMMA Invariance == Spec => []Inv
  BY Initial, InvStep, PTL DEF Spec

(* Type correctness of the file system, the port, and the agent's end of it. *)
THEOREM TypeCorrect == Spec => []TypeOK
<1>1. Inv => TypeOK
  BY DEF Inv
<1>2. QED
  BY <1>1, Invariance, PTL

(* The agent never handles a message about an operation of its own, wherever
   connect_notify, disconnect_notify, an unload or the end of the agent comes
   between CLIENT_PORT and AGENT_PID (is_agent_process). *)
THEOREM AgentUnseen == Spec => []OwnIoUnseen
<1>1. Inv => OwnIoUnseen
  BY DEF Inv
<1>2. QED
  BY <1>1, Invariance, PTL

(* What the context of an indexed file says was done to that file was done to it:
   renames, replaced names, evictions and lost messages attribute nothing to
   another file (from_identity, apply_telemetry). *)
THEOREM FlagsOfItsOwn == Spec => []FlagsEarned
<1>1. Inv => FlagsEarned
  BY DEF Inv
<1>2. QED
  BY <1>1, Invariance, PTL
=============================================================================
