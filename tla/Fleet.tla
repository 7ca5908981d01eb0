------------------------------- MODULE Fleet -------------------------------
(***************************************************************************)
(* The server: agents that register and send heartbeats, commands that are *)
(* handed out with the responses to heartbeats and acknowledged later,     *)
(* telemetry, and the monitor that takes silent agents for offline.        *)
(*                                                                         *)
(* One action is one call of the database; a handler that makes several is *)
(* interleaved with others between them.  Each call may fail.  Requests    *)
(* that fail the checks of the key or of the ids change nothing and are    *)
(* left out, as is the monitor's tick that fails.                          *)
(*                                                                         *)
(* Time is the age of each agent's last heartbeat.  The time a statement   *)
(* is executed with is read just before it; between the two lies at most   *)
(* the busy timeout of SQLite, which is short against an age of Timeout.   *)
(***************************************************************************)
EXTENDS Integers

CONSTANTS
  Agent,        \* agents, by uuid
  Event,        \* telemetry events, by event id
  Conn,         \* connections that carry a heartbeat at the same time
  MaxCommands,  \* bound: commands created
  Timeout,      \* AGENT_OFFLINE_TIMEOUT, in ticks
  None

ASSUME ConstantsAssumption ==
  /\ MaxCommands \in Nat
  /\ Timeout \in Nat
  /\ None \notin Agent

Command == 1 .. MaxCommands  \* in the order of created_at

VARIABLES
  status,    \* agents: status, absent without a row
  age,       \* agents: how old last_heartbeat_at is, up to more than Timeout
  row,       \* commands: status, absent without a row
  owner,     \* commands: agent_id
  stored,    \* telemetry_events: the agent each event is stored for
  request,   \* the heartbeat each connection carries
  got,       \* how often each agent was given a command; 2 stands for more
  lost,      \* commands in a response that did not arrive
  excused    \* commands with a failed mark, or read by two heartbeats at once

agents   == <<status, age>>
commands == <<row, owner>>
vars     == <<agents, commands, stored, request, got, lost, excused>>

Idle == [at |-> "idle", agent |-> None, batch |-> {}, todo |-> {}]

TypeOK ==
  /\ status \in [Agent -> {"absent", "online", "offline"}]
  /\ age \in [Agent -> 0 .. Timeout + 1]
  /\ row \in [Command -> {"absent", "pending", "delivered", "completed"}]
  /\ owner \in [Command -> Agent \cup {None}]
  /\ stored \in [Event -> Agent \cup {None}]
  /\ request \in [Conn -> [at : {"idle", "query", "mark"}, agent : Agent \cup {None},
                           batch : SUBSET Command, todo : SUBSET Command]]
  /\ got \in [Agent -> [Command -> 0 .. 2]]
  /\ lost \subseteq Command
  /\ excused \subseteq Command

Init ==
  /\ status = [a \in Agent |-> "absent"]
  /\ age = [a \in Agent |-> 0]
  /\ row = [c \in Command |-> "absent"]
  /\ owner = [c \in Command |-> None]
  /\ stored = [e \in Event |-> None]
  /\ request = [h \in Conn |-> Idle]
  /\ got = [a \in Agent |-> [c \in Command |-> 0]]
  /\ lost = {}
  /\ excused = {}

-----------------------------------------------------------------------------
(* Agents. *)

(* handle_register; a second INSERT of the same agent_id is refused. *)
Register(a) ==
  /\ status[a] = "absent"
  /\ status' = [status EXCEPT ![a] = "online"]
  /\ age' = [age EXCEPT ![a] = 0]
  /\ UNCHANGED <<commands, stored, request, got, lost, excused>>

\* Mutant of Aged: an age without a limit.
AgedOn(n) == n + 1

(* All that is asked of an age is whether it exceeds Timeout. *)
Aged(n) == IF n > Timeout THEN n ELSE n + 1

(* Time passes. *)
Tick ==
  /\ age' = [a \in Agent |-> IF status[a] = "absent" THEN age[a] ELSE Aged(age[a])]
  /\ UNCHANGED <<status, commands, stored, request, got, lost, excused>>

Stale(a) == status[a] = "online" /\ age[a] > Timeout

(* mark_stale_agents_offline: one UPDATE. *)
Monitor ==
  /\ status' = [a \in Agent |-> IF Stale(a) THEN "offline" ELSE status[a]]
  /\ UNCHANGED <<age, commands, stored, request, got, lost, excused>>

-----------------------------------------------------------------------------
(* Commands.  Nothing in the server creates them; they are put in the table by
   an operator's tool, for agents that the foreign key knows. *)

Put(c, a) ==
  /\ row[c] = "absent"
  /\ \A d \in 1 .. c - 1 : row[d] # "absent"
  /\ status[a] # "absent"
  /\ row' = [row EXCEPT ![c] = "pending"]
  /\ owner' = [owner EXCEPT ![c] = a]
  /\ UNCHANGED <<agents, stored, request, got, lost, excused>>

Handle(h, r) == request' = [request EXCEPT ![h] = r]

(* The status of an agent that was heard. *)
Heard(a) ==
  status' = [status EXCEPT ![a] = IF @ = "absent" THEN @ ELSE "online"]

(* handle_heartbeat, up to the end of update_heartbeat.  An agent without a row
   is not told so. *)
Beat(h, a) ==
  /\ request[h] = Idle
  /\ Handle(h, [at |-> "query", agent |-> a, batch |-> {}, todo |-> {}])
  /\ Heard(a)
  /\ age' = [age EXCEPT ![a] = 0]
  /\ UNCHANGED <<commands, stored, got, lost, excused>>

\* Mutant of Open: everything that is not completed.
NotCompleted(a) ==
  {c \in Command : owner[c] = a /\ row[c] \in {"pending", "delivered"}}

Open(a) == {c \in Command : owner[c] = a /\ row[c] = "pending"}

(* What other heartbeats have read and not yet marked. *)
ReadBy(others) == UNION {request[h].todo : h \in others}

(* get_pending_commands. *)
Query(h) ==
  LET a     == request[h].agent
      batch == Open(a)
  IN
  /\ request[h].at = "query"
  /\ \/ /\ Handle(h, [at |-> "mark", agent |-> a, batch |-> batch, todo |-> batch])
        /\ excused' = excused \cup (batch \cap ReadBy(Conn \ {h}))
     \/ Handle(h, Idle) /\ UNCHANGED excused
  /\ UNCHANGED <<agents, commands, stored, got, lost>>

\* Mutant of Delivered: every pending command of the agent.
AllDelivered(c) ==
  [d \in Command |-> IF owner[d] = owner[c] /\ row[d] = "pending" THEN "delivered"
                                                                 ELSE row[d]]

\* Mutant of Delivered: no row matches.
NoneDelivered(c) == row

(* The UPDATE of mark_command_delivered: whatever the status was. *)
Delivered(c) == [row EXCEPT ![c] = "delivered"]

(* mark_command_delivered for the oldest command left; its failure is ignored. *)
Mark(h) ==
  /\ \E c \in request[h].todo :
       /\ \A d \in request[h].todo : c <= d
       /\ Handle(h, [request[h] EXCEPT !.todo = @ \ {c}])
       /\ \/ row' = Delivered(c) /\ UNCHANGED excused
          \/ excused' = excused \cup {c} /\ UNCHANGED row
  /\ UNCHANGED <<agents, owner, stored, got, lost>>

(* The response arrives, or does not. *)
Reply(h) ==
  LET a     == request[h].agent
      batch == request[h].batch
  IN
  /\ request[h].at = "mark"
  /\ request[h].todo = {}
  /\ Handle(h, Idle)
  /\ \/ /\ got' = [got EXCEPT ![a] = [c \in Command |->
                     IF c \in batch /\ @[c] < 2 THEN @[c] + 1 ELSE @[c]]]
        /\ UNCHANGED lost
     \/ lost' = lost \cup batch /\ UNCHANGED got
  /\ UNCHANGED <<agents, commands, stored, excused>>

(* handle_command_ack, for a command the agent was given; it may be repeated. *)
Ack(a, c) ==
  /\ got[a][c] > 0
  /\ row' = [row EXCEPT ![c] = "completed"]
  /\ UNCHANGED <<agents, owner, stored, request, got, lost, excused>>

-----------------------------------------------------------------------------
(* Telemetry, and the server as a whole. *)

(* The events for which INSERT OR IGNORE inserts a row. *)
Inserted(batch) == {e \in batch : stored[e] = None}

(* handle_telemetry: one transaction, which the foreign key aborts for an agent
   without a row.  An agent that did not get the response sends again. *)
Upload(a, batch) ==
  /\ status[a] # "absent"
  /\ stored' = [e \in Event |-> IF e \in Inserted(batch) THEN a ELSE stored[e]]
  /\ UNCHANGED <<agents, commands, request, got, lost, excused>>

(* The server ends and is started again: the tables are what is left. *)
Restart ==
  /\ request' = [h \in Conn |-> Idle]
  /\ lost' = lost \cup UNION {request[h].batch : h \in Conn}
  /\ UNCHANGED <<agents, commands, stored, got, excused>>

-----------------------------------------------------------------------------
Next ==
  \/ Tick \/ Monitor \/ Restart
  \/ \E a \in Agent :
       \/ Register(a)
       \/ \E c \in Command : Put(c, a) \/ Ack(a, c)
       \/ \E h \in Conn : Beat(h, a)
       \/ \E batch \in SUBSET Event : Upload(a, batch)
  \/ \E h \in Conn : Query(h) \/ Mark(h) \/ Reply(h)

Spec == Init /\ [][Next]_vars

-----------------------------------------------------------------------------
(* An agent is given a command twice only if a heartbeat failed to mark it, or
   two heartbeats read it before either marked it: lost responses, late acks,
   restarts and other agents do not hand a command out again. *)
HandedOutOnce ==
  \A a \in Agent, c \in Command : got[a][c] > 1 => c \in excused

(* No command leaves the pending ones unnoticed: once it is marked delivered, it
   was given to its agent, or stands in a response under way, or a response that
   held it is known to be lost. *)
DeliveredIsSomewhere ==
  \A c \in Command : row[c] = "delivered" =>
    \/ got[owner[c]][c] > 0
    \/ c \in lost
    \/ \E h \in Conn : c \in request[h].batch

(* A completed command stays completed, but for a heartbeat that read it while
   another had it too, or after a mark had failed: the update of
   mark_command_delivered has no condition on the status. *)
CompletedStays ==
  [][\A c \in Command : row[c] = "completed" =>
       row'[c] = "completed" \/ c \in excused]_vars
=============================================================================
