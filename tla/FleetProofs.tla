---------------------------- MODULE FleetProofs ----------------------------
(***************************************************************************)
(* Commands are handed out once, are not lost unnoticed, and stay          *)
(* completed, for any agents, connections, events and number of commands.  *)
(***************************************************************************)
EXTENDS Fleet, TLAPS

(* A connection has commands to mark or to send only while it is at that, and an
   agent while it is not idle. *)
RequestsKnown ==
  \A h \in Conn :
    /\ request[h].todo \subseteq request[h].batch
    /\ request[h].at # "mark" => request[h].batch = {}
    /\ request[h].at # "idle" => request[h].agent \in Agent

(* A command belongs to an agent, and what a connection carries to its agent. *)
Owned ==
  /\ \A c \in Command : row[c] # "absent" => owner[c] \in Agent
  /\ \A h \in Conn : \A c \in request[h].batch :
       owner[c] = request[h].agent /\ row[c] # "absent"

(* An agent is given only commands that exist. *)
GivenExist == \A a \in Agent, c \in Command : got[a][c] > 0 => row[c] # "absent"

(* The way of a command: one connection carries it, it is pending until it is
   marked, and no longer pending when it was given. *)
CarriedOnce(c) ==
  /\ \A g, h \in Conn : c \in request[g].batch /\ c \in request[h].batch => g = h
  /\ \A h \in Conn : c \in request[h].batch =>
       (row[c] = "pending" <=> c \in request[h].todo)
  /\ \A a \in Agent : got[a][c] > 0 =>
       row[c] # "pending" /\ \A h \in Conn : c \notin request[h].batch

(* Every command that nothing excuses goes this way. *)
OneCarrier == \A c \in Command \ excused : CarriedOnce(c)

Inv ==
  /\ TypeOK /\ RequestsKnown /\ Owned /\ GivenExist
  /\ OneCarrier /\ HandedOutOnce /\ DeliveredIsSomewhere

-----------------------------------------------------------------------------
(* The invariant holds initially. *)
LEMMA Initial == Init => Inv
<1> SUFFICES ASSUME Init PROVE Inv
  OBVIOUS
<1>1. TypeOK
  BY ConstantsAssumption DEF Init, TypeOK, Idle, ConstantsAssumption
<1>2. RequestsKnown /\ Owned
  BY DEF Init, RequestsKnown, Owned, Idle
<1>3. GivenExist /\ OneCarrier /\ HandedOutOnce /\ DeliveredIsSomewhere
  BY DEF Init, GivenExist, OneCarrier, CarriedOnce, HandedOutOnce,
         DeliveredIsSomewhere, Idle
<1>4. QED
  BY <1>1, <1>2, <1>3 DEF Inv

(* All that commands go through. *)
carried == <<commands, request, got, lost, excused>>

(* Steps that concern the agents, the telemetry or nothing leave the commands
   alone. *)
LEMMA CommandsAlone ==
  ASSUME Inv, UNCHANGED carried
  PROVE  /\ RequestsKnown' /\ Owned' /\ GivenExist'
         /\ OneCarrier' /\ HandedOutOnce' /\ DeliveredIsSomewhere'
<1> USE DEF Inv, carried, commands
<1>1. RequestsKnown' /\ Owned' /\ GivenExist'
  BY DEF RequestsKnown, Owned, GivenExist
<1>2. OneCarrier'
  BY DEF OneCarrier, CarriedOnce
<1>3. HandedOutOnce' /\ DeliveredIsSomewhere'
  BY DEF HandedOutOnce, DeliveredIsSomewhere
<1>4. QED
  BY <1>1, <1>2, <1>3

(* Registration, time, the monitor and telemetry keep the invariant. *)
LEMMA AgentsKept ==
  ASSUME Inv,
         \/ Tick \/ Monitor \/ UNCHANGED vars
         \/ \E a \in Agent : Register(a) \/ \E batch \in SUBSET Event : Upload(a, batch)
  PROVE  Inv'
<1> USE DEF Inv
<1>1. UNCHANGED carried
  BY DEF Tick, Monitor, Register, Upload, vars, carried, commands
<1> SUFFICES TypeOK'
  BY <1>1, CommandsAlone
<1>2. \A n \in 0 .. Timeout + 1 : Aged(n) \in 0 .. Timeout + 1
  BY ConstantsAssumption DEF Aged, ConstantsAssumption
<1>3. /\ status \in [Agent -> {"absent", "online", "offline"}]
      /\ stored \in [Event -> Agent \cup {None}]
  BY DEF TypeOK
<1>4. ASSUME age' \in [Agent -> 0 .. Timeout + 1],
             status' \in [Agent -> {"absent", "online", "offline"}],
             stored' \in [Event -> Agent \cup {None}]
      PROVE  TypeOK'
  BY <1>1, <1>4 DEF TypeOK, carried, commands
<1>5. ASSUME NEW a \in Agent, Register(a)
      PROVE  TypeOK'
  <2>1. age' \in [Agent -> 0 .. Timeout + 1]
    BY <1>5, ConstantsAssumption DEF Register, TypeOK, ConstantsAssumption
  <2>2. QED
    BY <1>3, <1>4, <1>5, <2>1 DEF Register
<1>6. CASE Tick
  <2>1. age' \in [Agent -> 0 .. Timeout + 1]
    BY <1>2, <1>6 DEF Tick, TypeOK
  <2>2. QED
    BY <1>3, <1>4, <1>6, <2>1 DEF Tick
<1>7. CASE Monitor
  <2>1. status' \in [Agent -> {"absent", "online", "offline"}]
    BY <1>3, <1>7 DEF Monitor
  <2>2. age' \in [Agent -> 0 .. Timeout + 1]
    BY <1>7 DEF Monitor, TypeOK
  <2>3. QED
    BY <1>3, <1>4, <1>7, <2>1, <2>2 DEF Monitor
<1>8. ASSUME NEW a \in Agent, NEW batch \in SUBSET Event, Upload(a, batch)
      PROVE  TypeOK'
  <2>1. stored' \in [Event -> Agent \cup {None}]
    BY <1>3, <1>8 DEF Upload
  <2>2. age' \in [Agent -> 0 .. Timeout + 1] /\ UNCHANGED status
    BY <1>8 DEF Upload, TypeOK, agents
  <2>3. QED
    BY <1>3, <1>4, <2>1, <2>2
<1>9. CASE UNCHANGED vars
  <2>1. age' \in [Agent -> 0 .. Timeout + 1] /\ status' = status /\ stored' = stored
    BY <1>9 DEF vars, TypeOK, agents
  <2>2. QED
    BY <1>3, <1>4, <2>1
<1>10. QED
  BY <1>5, <1>6, <1>7, <1>8, <1>9

(* What the type invariant says of one connection. *)
LEMMA OneRequest ==
  ASSUME TypeOK, NEW h \in Conn
  PROVE  /\ request[h].at \in {"idle", "query", "mark"}
         /\ request[h].agent \in Agent \cup {None}
         /\ request[h].batch \subseteq Command /\ request[h].todo \subseteq Command
  BY DEF TypeOK

(* An operator's new command keeps the invariant. *)
LEMMA PutKept ==
  ASSUME Inv, NEW c \in Command, NEW a \in Agent, Put(c, a)
  PROVE  Inv'
<1> USE DEF Inv, Put, agents
<1>1. TypeOK'
  BY DEF TypeOK
<1>2. /\ \A d \in Command \ {c} : row'[d] = row[d] /\ owner'[d] = owner[d]
      /\ row'[c] = "pending" /\ owner'[c] = a
  BY DEF TypeOK
<1>3. /\ \A h \in Conn : c \notin request[h].batch
      /\ \A b \in Agent : ~ got[b][c] > 0
  BY DEF Owned, GivenExist
<1>4. UNCHANGED <<request, got, lost, excused>>
  OBVIOUS
<1>5. RequestsKnown' /\ GivenExist' /\ HandedOutOnce'
  BY <1>2, <1>4 DEF RequestsKnown, GivenExist, HandedOutOnce
<1>6. Owned'
  BY <1>2, <1>3, <1>4, OneRequest DEF Owned
<1>7. OneCarrier'
  <2> SUFFICES ASSUME NEW d \in Command, d \notin excused PROVE CarriedOnce(d)'
    BY <1>4 DEF OneCarrier
  <2>1. CASE d = c
    BY <1>3, <1>4, <2>1 DEF CarriedOnce
  <2>2. CASE d # c
    BY <1>2, <1>4, <2>2 DEF OneCarrier, CarriedOnce
  <2>3. QED
    BY <2>1, <2>2
<1>8. DeliveredIsSomewhere'
  BY <1>2, <1>4 DEF DeliveredIsSomewhere
<1>9. QED
  BY <1>1, <1>5, <1>6, <1>7, <1>8

(* An acknowledgement keeps the invariant. *)
LEMMA AckKept ==
  ASSUME Inv, NEW a \in Agent, NEW c \in Command, Ack(a, c)
  PROVE  Inv'
<1> USE DEF Inv, Ack, agents
<1>1. TypeOK'
  BY DEF TypeOK
<1>2. row'[c] = "completed" /\ \A d \in Command \ {c} : row'[d] = row[d]
  BY DEF TypeOK
<1>3. row[c] # "absent"
  BY DEF GivenExist
<1>4. UNCHANGED <<owner, request, got, lost, excused>>
  OBVIOUS
<1>5. RequestsKnown' /\ HandedOutOnce'
  BY <1>4 DEF RequestsKnown, HandedOutOnce
<1>6. Owned' /\ GivenExist'
  BY <1>2, <1>3, <1>4, OneRequest DEF Owned, GivenExist
<1>7. OneCarrier'
  BY <1>2, <1>4 DEF OneCarrier, CarriedOnce
<1>8. DeliveredIsSomewhere'
  BY <1>2, <1>4 DEF DeliveredIsSomewhere
<1>9. QED
  BY <1>1, <1>5, <1>6, <1>7, <1>8

(* A heartbeat keeps the invariant. *)
LEMMA BeatKept ==
  ASSUME Inv, NEW h \in Conn, NEW a \in Agent, Beat(h, a)
  PROVE  Inv'
<1> USE DEF Inv, Beat
<1> DEFINE asking == [at |-> "query", agent |-> a, batch |-> {}, todo |-> {}]
<1>1. request' = [request EXCEPT ![h] = asking]
  BY DEF Handle
<1>2. /\ \A g \in Conn \ {h} : request'[g] = request[g]
      /\ request[h] = Idle
      /\ request'[h] = asking
  BY <1>1 DEF TypeOK
<1>3. UNCHANGED <<row, owner, got, lost, excused>>
  BY DEF commands
<1>4. TypeOK'
  <2>1. request' \in [Conn -> [at : {"idle", "query", "mark"}, agent : Agent \cup {None},
                              batch : SUBSET Command, todo : SUBSET Command]]
    BY <1>1 DEF TypeOK
  <2>2. status' \in [Agent -> {"absent", "online", "offline"}]
    BY DEF TypeOK, Heard
  <2>3. age' \in [Agent -> 0 .. Timeout + 1]
    BY ConstantsAssumption DEF TypeOK, ConstantsAssumption
  <2>4. QED
    BY <1>3, <2>1, <2>2, <2>3 DEF TypeOK
<1>5. RequestsKnown' /\ Owned'
  BY <1>2, <1>3 DEF RequestsKnown, Owned, Idle
<1>6. GivenExist' /\ HandedOutOnce'
  BY <1>3 DEF GivenExist, HandedOutOnce
<1>7. OneCarrier'
  BY <1>2, <1>3 DEF OneCarrier, CarriedOnce, Idle
<1>8. DeliveredIsSomewhere'
  BY <1>2, <1>3 DEF Idle, DeliveredIsSomewhere
<1>9. QED
  BY <1>4, <1>5, <1>6, <1>7, <1>8

(* Reading the pending commands keeps the invariant. *)
LEMMA QueryKept ==
  ASSUME Inv, NEW h \in Conn, Query(h)
  PROVE  Inv'
<1> DEFINE a     == request[h].agent
           batch == Open(a)
<1> USE DEF Inv
<1>1. a \in Agent /\ request[h].batch = {} /\ request[h].todo = {}
  BY DEF Query, RequestsKnown
<1>2. \A c \in Command : c \in batch <=> owner[c] = a /\ row[c] = "pending"
  BY DEF Open
<1>3. batch \subseteq Command
  BY DEF Open
<1>4. UNCHANGED <<agents, row, owner, stored, got, lost>>
  BY DEF Query, commands
<1>5. ASSUME request' = [request EXCEPT ![h] =
               [at |-> "mark", agent |-> a, batch |-> batch, todo |-> batch]],
             excused' = excused \cup (batch \cap ReadBy(Conn \ {h}))
      PROVE  Inv'
  <2>1. /\ \A g \in Conn \ {h} : request'[g] = request[g]
        /\ request'[h].at = "mark" /\ request'[h].agent = a
        /\ request'[h].batch = batch /\ request'[h].todo = batch
    BY <1>5 DEF TypeOK
  <2>2. \A c \in batch : c \notin excused' => \A g \in Conn \ {h} : c \notin request[g].todo
    BY <1>5 DEF ReadBy
  <2>3. excused \subseteq excused' /\ excused' \subseteq Command
    BY <1>3, <1>5 DEF TypeOK
  <2> HIDE DEF a, batch
  <2>4. TypeOK'
    BY <1>1, <1>3, <1>4, <1>5, <2>3 DEF TypeOK, agents
  <2>5. RequestsKnown' /\ Owned'
    BY <1>1, <1>2, <1>3, <1>4, <2>1 DEF RequestsKnown, Owned
  <2>6. GivenExist' /\ HandedOutOnce'
    BY <1>4, <2>3 DEF GivenExist, HandedOutOnce
  <2>7. OneCarrier'
    <3> SUFFICES ASSUME NEW c \in Command, c \notin excused' PROVE CarriedOnce(c)'
      BY DEF OneCarrier
    <3>1. CarriedOnce(c)
      BY <2>3 DEF OneCarrier
    <3>2. ASSUME c \in batch
          PROVE  \A g \in Conn \ {h} : c \notin request[g].batch
      BY <1>2, <2>2, <3>1, <3>2 DEF CarriedOnce
    <3>3. ASSUME c \in batch
          PROVE  row[c] = "pending" /\ \A b \in Agent : ~ got[b][c] > 0
      BY <1>2, <3>1, <3>3 DEF CarriedOnce
    <3>4. QED
      BY <1>1, <1>4, <2>1, <3>1, <3>2, <3>3 DEF CarriedOnce
  <2>8. DeliveredIsSomewhere'
    BY <1>1, <1>4, <2>1 DEF DeliveredIsSomewhere
  <2>9. QED
    BY <2>4, <2>5, <2>6, <2>7, <2>8
<1>6. ASSUME request' = [request EXCEPT ![h] = Idle], UNCHANGED excused
      PROVE  Inv'
  <2>1. /\ \A g \in Conn \ {h} : request'[g] = request[g]
        /\ request'[h] = Idle
    BY <1>6 DEF TypeOK
  <2>2. TypeOK'
    BY <1>4, <1>6 DEF TypeOK, agents, Idle
  <2>3. RequestsKnown' /\ Owned'
    BY <1>4, <2>1 DEF RequestsKnown, Owned, Idle
  <2>4. GivenExist' /\ HandedOutOnce'
    BY <1>4, <1>6 DEF GivenExist, HandedOutOnce
  <2>5. OneCarrier'
    BY <1>1, <1>4, <1>6, <2>1 DEF OneCarrier, CarriedOnce, Idle
  <2>6. DeliveredIsSomewhere'
    BY <1>1, <1>4, <2>1 DEF DeliveredIsSomewhere, Idle
  <2>7. QED
    BY <2>2, <2>3, <2>4, <2>5, <2>6
<1>7. QED
  BY <1>5, <1>6 DEF Query, Handle

(* Marking a command keeps the invariant. *)
LEMMA MarkKept ==
  ASSUME Inv, NEW h \in Conn, Mark(h)
  PROVE  Inv'
<1> USE DEF Inv
<1>1. PICK c \in request[h].todo :
        /\ request' = [request EXCEPT ![h] = [request[h] EXCEPT !.todo = @ \ {c}]]
        /\ \/ row' = Delivered(c) /\ UNCHANGED excused
           \/ excused' = excused \cup {c} /\ UNCHANGED row
  BY DEF Mark, Handle
<1>2. UNCHANGED <<agents, owner, stored, got, lost>>
  BY DEF Mark
<1>3. c \in Command /\ c \in request[h].batch
  BY OneRequest DEF RequestsKnown
<1>4. /\ \A g \in Conn : /\ request'[g].at = request[g].at
                        /\ request'[g].agent = request[g].agent
                        /\ request'[g].batch = request[g].batch
      /\ \A g \in Conn \ {h} : request'[g].todo = request[g].todo
      /\ request'[h].todo = request[h].todo \ {c}
  BY <1>1 DEF TypeOK
<1>5. /\ \A d \in Command \ {c} : row'[d] = row[d] /\ (d \in excused' <=> d \in excused)
      /\ \/ row'[c] = "delivered" /\ (c \in excused' <=> c \in excused)
         \/ row'[c] = row[c] /\ c \in excused'
      /\ excused \subseteq excused'
  BY <1>1, <1>3 DEF TypeOK, Delivered
<1>6. row[c] # "absent"
  BY <1>3 DEF Owned
<1>7. TypeOK'
  <2>1. request' \in [Conn -> [at : {"idle", "query", "mark"}, agent : Agent \cup {None},
                              batch : SUBSET Command, todo : SUBSET Command]]
    <3> DEFINE R == [at : {"idle", "query", "mark"}, agent : Agent \cup {None},
                     batch : SUBSET Command, todo : SUBSET Command]
    <3>1. request \in [Conn -> R]
      BY DEF TypeOK
    <3>2. [request[h] EXCEPT !.todo = @ \ {c}] \in R
      <4>1. request[h] \in R
        BY <3>1
      <4>2. QED
        BY <4>1
    <3> HIDE DEF R
    <3>3. request' \in [Conn -> R]
      BY <1>1, <3>1, <3>2
    <3>4. QED
      BY <3>3 DEF R
  <2>2. row' \in [Command -> {"absent", "pending", "delivered", "completed"}]
    BY <1>1 DEF TypeOK, Delivered
  <2>3. excused' \subseteq Command
    BY <1>1, <1>3 DEF TypeOK
  <2>4. QED
    BY <1>2, <2>1, <2>2, <2>3 DEF TypeOK, agents
<1>8. RequestsKnown'
  BY <1>4 DEF RequestsKnown
<1>9. Owned' /\ GivenExist'
  BY <1>2, <1>4, <1>5, <1>6, OneRequest DEF Owned, GivenExist
<1>10. OneCarrier'
  <2> SUFFICES ASSUME NEW d \in Command, d \notin excused' PROVE CarriedOnce(d)'
    BY DEF OneCarrier
  <2>1. CarriedOnce(d)
    BY <1>5 DEF OneCarrier
  <2>2. CASE d # c
    BY <1>2, <1>4, <1>5, <2>1, <2>2 DEF CarriedOnce
  <2>3. CASE d = c
    <3>1. row'[d] = "delivered"
      BY <1>5, <2>3
    <3>2. \A g \in Conn : d \in request[g].batch => g = h
      BY <1>3, <2>1, <2>3 DEF CarriedOnce
    <3>3. QED
      BY <1>2, <1>4, <2>1, <2>3, <3>1, <3>2 DEF CarriedOnce
  <2>4. QED
    BY <2>2, <2>3
<1>11. HandedOutOnce'
  BY <1>2, <1>5 DEF HandedOutOnce
<1>12. DeliveredIsSomewhere'
  BY <1>2, <1>3, <1>4, <1>5 DEF DeliveredIsSomewhere
<1>13. QED
  BY <1>7, <1>8, <1>9, <1>10, <1>11, <1>12

(* A response keeps the invariant, whether it arrives or not. *)
LEMMA ReplyKept ==
  ASSUME Inv, NEW h \in Conn, Reply(h)
  PROVE  Inv'
<1> DEFINE a     == request[h].agent
           batch == request[h].batch
<1> USE DEF Inv
<1>1. a \in Agent /\ batch \subseteq Command /\ request[h].todo = {}
  BY OneRequest DEF Reply, RequestsKnown
<1>2. UNCHANGED <<agents, row, owner, stored, excused>>
  BY DEF Reply, commands
<1>3. request' = [request EXCEPT ![h] = Idle]
  BY DEF Reply, Handle
<1>4. /\ \A g \in Conn \ {h} : request'[g] = request[g]
      /\ request'[h].at = "idle" /\ request'[h].batch = {} /\ request'[h].todo = {}
  BY <1>3 DEF TypeOK, Idle
<1>5. RequestsKnown' /\ Owned'
  BY <1>2, <1>4 DEF RequestsKnown, Owned
<1>6. request' \in [Conn -> [at : {"idle", "query", "mark"}, agent : Agent \cup {None},
                            batch : SUBSET Command, todo : SUBSET Command]]
  BY <1>3 DEF TypeOK, Idle
<1>7. ASSUME got' = [got EXCEPT ![a] = [c \in Command |->
               IF c \in batch /\ @[c] < 2 THEN @[c] + 1 ELSE @[c]]],
             UNCHANGED lost
      PROVE  Inv'
  <2>1. \A b \in Agent, c \in Command : got[b][c] \in 0 .. 2
    BY DEF TypeOK
  <2>2. /\ \A b \in Agent \ {a} : got'[b] = got[b]
        /\ \A c \in Command : got'[a][c] =
             IF c \in batch /\ got[a][c] < 2 THEN got[a][c] + 1 ELSE got[a][c]
        /\ got' \in [Agent -> [Command -> 0 .. 2]]
    BY <1>1, <1>7, <2>1 DEF TypeOK
  <2>3. \A b \in Agent, c \in Command :
          /\ got'[b][c] > 0 <=> got[b][c] > 0 \/ (b = a /\ c \in batch)
          /\ got'[b][c] > 1 => got[b][c] > 1 \/ (b = a /\ c \in batch /\ got[b][c] > 0)
    BY <1>1, <2>1, <2>2
  <2>4. TypeOK'
    BY <1>2, <1>6, <1>7, <2>2 DEF TypeOK, agents
  <2>5. GivenExist'
    BY <1>2, <2>3 DEF GivenExist, Owned
  <2>6. OneCarrier'
    <3> SUFFICES ASSUME NEW c \in Command, c \notin excused PROVE CarriedOnce(c)'
      BY <1>2 DEF OneCarrier
    <3>1. CarriedOnce(c)
      BY DEF OneCarrier
    <3>2. CASE c \in batch
      <4>1. row[c] # "pending" /\ \A g \in Conn \ {h} : c \notin request[g].batch
        BY <1>1, <3>1, <3>2 DEF CarriedOnce
      <4>2. QED
        BY <1>2, <1>4, <4>1 DEF CarriedOnce
    <3>3. CASE c \notin batch
      BY <1>2, <1>4, <2>3, <3>1, <3>3 DEF CarriedOnce
    <3>4. QED
      BY <3>2, <3>3
  <2>7. HandedOutOnce'
    BY <1>1, <1>2, <2>3 DEF OneCarrier, CarriedOnce, HandedOutOnce
  <2>8. DeliveredIsSomewhere'
    <3> SUFFICES ASSUME NEW c \in Command, row[c] = "delivered"
                 PROVE  got'[owner[c]][c] > 0 \/ c \in lost
                          \/ \E g \in Conn : c \in request'[g].batch
      BY <1>2, <1>7 DEF DeliveredIsSomewhere
    <3>1. owner[c] \in Agent /\ (c \in batch => owner[c] = a)
      BY DEF Owned
    <3>2. got[owner[c]][c] > 0 \/ c \in lost \/ \E g \in Conn : c \in request[g].batch
      BY DEF DeliveredIsSomewhere
    <3>3. QED
      BY <1>4, <2>3, <3>1, <3>2
  <2>9. QED
    BY <1>5, <2>4, <2>5, <2>6, <2>7, <2>8
<1>8. ASSUME lost' = lost \cup batch, UNCHANGED got
      PROVE  Inv'
  <2>1. TypeOK'
    BY <1>1, <1>2, <1>6, <1>8 DEF TypeOK, agents
  <2>2. GivenExist' /\ HandedOutOnce'
    BY <1>2, <1>8 DEF GivenExist, HandedOutOnce
  <2>3. OneCarrier'
    BY <1>2, <1>4, <1>8 DEF OneCarrier, CarriedOnce
  <2>4. DeliveredIsSomewhere'
    BY <1>2, <1>4, <1>8 DEF DeliveredIsSomewhere
  <2>5. QED
    BY <1>5, <2>1, <2>2, <2>3, <2>4
<1>9. QED
  BY <1>7, <1>8 DEF Reply

(* A restart of the server keeps the invariant. *)
LEMMA RestartKept ==
  ASSUME Inv, Restart
  PROVE  Inv'
<1> USE DEF Inv
<1>1. UNCHANGED <<agents, row, owner, stored, got, excused>>
  BY DEF Restart, commands
<1>2. /\ request' = [h \in Conn |-> Idle]
      /\ \A c : c \in lost' <=> c \in lost \/ \E h \in Conn : c \in request[h].batch
  BY DEF Restart
<1>3. TypeOK'
  <2>1. lost' \subseteq Command
    BY <1>2, OneRequest DEF TypeOK
  <2>2. QED
    BY <1>1, <1>2, <2>1 DEF TypeOK, agents, Idle
<1>4. RequestsKnown' /\ Owned'
  BY <1>1, <1>2 DEF RequestsKnown, Owned, Idle
<1>5. GivenExist' /\ HandedOutOnce'
  BY <1>1 DEF GivenExist, HandedOutOnce
<1>6. OneCarrier'
  BY <1>1, <1>2 DEF OneCarrier, CarriedOnce, Idle
<1>7. DeliveredIsSomewhere'
  BY <1>1, <1>2 DEF DeliveredIsSomewhere
<1>8. QED
  BY <1>3, <1>4, <1>5, <1>6, <1>7

-----------------------------------------------------------------------------
(* Every step keeps the invariant. *)
LEMMA InvStep == Inv /\ [Next]_vars => Inv'
<1> SUFFICES ASSUME Inv, [Next]_vars PROVE Inv'
  OBVIOUS
<1>1. CASE Tick \/ Monitor \/ UNCHANGED vars
             \/ \E a \in Agent : Register(a) \/ \E batch \in SUBSET Event : Upload(a, batch)
  BY <1>1, AgentsKept
<1>2. ASSUME NEW a \in Agent, NEW c \in Command, Put(c, a) \/ Ack(a, c)
      PROVE  Inv'
  BY <1>2, PutKept, AckKept
<1>3. ASSUME NEW a \in Agent, NEW h \in Conn, Beat(h, a)
      PROVE  Inv'
  BY <1>3, BeatKept
<1>4. ASSUME NEW h \in Conn, Query(h) \/ Mark(h) \/ Reply(h)
      PROVE  Inv'
  BY <1>4, QueryKept, MarkKept, ReplyKept
<1>5. CASE Restart
  BY <1>5, RestartKept
<1>6. QED
  BY <1>1, <1>2, <1>3, <1>4, <1>5 DEF Next

(* The invariant holds in every state. *)
LEMMA Invariance == Spec => []Inv
  BY Initial, InvStep, PTL DEF Spec

(* Type correctness of the tables, the requests under way and the history. *)
THEOREM TypeCorrect == Spec => []TypeOK
<1>1. Inv => TypeOK
  BY DEF Inv
<1>2. QED
  BY <1>1, Invariance, PTL

(* No heartbeat of an agent is answered with a command that an earlier response
   brought it, unless marking it had failed or two heartbeats read it at once:
   get_pending_commands and mark_command_delivered, with acknowledgements, lost
   responses and restarts anywhere between them. *)
THEOREM GivenOnce == Spec => []HandedOutOnce
<1>1. Inv => HandedOutOnce
  BY DEF Inv
<1>2. QED
  BY <1>1, Invariance, PTL

(* A command that mark_command_delivered took from the pending ones was given to
   its agent, is about to be, or was in a response that did not arrive. *)
THEOREM NoneVanishes == Spec => []DeliveredIsSomewhere
<1>1. Inv => DeliveredIsSomewhere
  BY DEF Inv
<1>2. QED
  BY <1>1, Invariance, PTL

(* What handle_command_ack completed is not taken back by the unconditional
   UPDATE of mark_command_delivered, but for the commands that are excused. *)
THEOREM CompletedForGood == Spec => CompletedStays
<1>1. ASSUME Inv, [Next]_vars, NEW c \in Command, row[c] = "completed"
      PROVE  row'[c] = "completed" \/ c \in excused
  <2>1. ASSUME NEW h \in Conn, Mark(h), c \notin excused
        PROVE  row'[c] = row[c]
    <3>1. PICK d \in request[h].todo :
            row' = Delivered(d) \/ UNCHANGED row
      BY <2>1 DEF Mark
    <3>2. c \notin request[h].todo
      BY <1>1, <2>1 DEF Inv, OneCarrier, CarriedOnce, RequestsKnown
    <3>3. QED
      BY <1>1, <3>1, <3>2 DEF Delivered, Inv, TypeOK
  <2>2. CASE UNCHANGED row
    BY <1>1, <2>2
  <2>3. ASSUME NEW a \in Agent, NEW d \in Command, Put(d, a) \/ Ack(a, d)
        PROVE  row'[c] = "completed"
    BY <1>1, <2>3 DEF Put, Ack, Inv, TypeOK
  <2>4. QED
    BY <1>1, <2>1, <2>2, <2>3
    DEF Next, vars, commands, Tick, Monitor, Restart, Register, Beat, Upload, Query, Reply
<1>2. Inv /\ [Next]_vars =>
        [\A c \in Command : row[c] = "completed" =>
           row'[c] = "completed" \/ c \in excused]_vars
  BY <1>1
<1>3. QED
  BY <1>2, Invariance, PTL DEF Spec, CompletedStays
=============================================================================
