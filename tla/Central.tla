------------------------------ MODULE Central ------------------------------
(***************************************************************************)
(* The central server of nkosi-central (register_agent, heartbeat,          *)
(* report_events, get_events, get_agents, the offline sweep) and the agents *)
(* that call it (CentralClient and its loop in nkosi-agent/src/main.rs).    *)
(*                                                                         *)
(* An agent makes one call at a time: it registers once, and then sends a   *)
(* heartbeat and a report in turn.  A handler of the server is a sequence   *)
(* of updates of the maps in memory, each behind an asynchronous lock, and  *)
(* of statements on central.db, each an action.  The connection of a call   *)
(* may break at any time: the agent logs it and goes on, and the handler is *)
(* dropped if it waits for a lock, and runs on if it does not.  Agents and  *)
(* the server may be killed; central.db and the agents' own databases and   *)
(* agent-id files are all that survives.                                   *)
(***************************************************************************)
EXTENDS Naturals, Sequences, FiniteSets, SequencesExt

CONSTANTS
  Machines,      \* hosts that run an agent
  Ids,           \* the uuids an agent draws for itself
  Events,        \* events the agents record in their own databases
  Serious,       \* those of severity Medium and above
  Recent,        \* rows the agent looks at (200)
  Ring,          \* MAX_IN_MEMORY_EVENTS
  Stale,         \* silence after which an agent is offline (300 s)
  MaxFaults,     \* bound on broken calls, failed statements and failed writes
  MaxKills,      \* bound on killed agents and servers
  None,
  Torn           \* the content of an agent-id file that is no uuid

\* A row of central.db's agents: the status, and the time since last_seen.
Row == [online : BOOLEAN, age : 0..Stale + 1]

ASSUME CentralAssumption ==
  /\ Serious \subseteq Events
  /\ Recent \in Nat \ {0} /\ Ring \in Nat \ {0} /\ Stale \in Nat
  /\ MaxFaults \in Nat /\ MaxKills \in Nat
  /\ None \notin Ids \cup Machines \cup {Torn} \cup Row
  /\ Torn \notin Ids

VARIABLES
  idFile,    \* machine -> content of its agent-id file
  agent,     \* machine -> the run of its agent
  local,     \* machine -> events of its database, oldest first
  call,      \* machine -> the call it has at the server
  known,     \* server memory: agents
  beats,     \* server memory: heartbeats
  ring,      \* server memory: events
  holder,    \* the call that holds the write lock of ring
  row,       \* central.db, agents: id -> status and time since last_seen
  stored,    \* central.db, events: event -> agent_id
  faults, kills,
  names,     \* history: machine -> ids its agents drew or read
  unkept,    \* history: machines that could not write their agent-id file
  greeted,   \* history: ids the server answered a registration for
  unsaved,   \* history: ids whose registration was not written to central.db
  arrived    \* history: events this run of the server stored, in order

vars == <<idFile, agent, local, call, known, beats, ring, holder, row, stored,
          faults, kills, names, unkept, greeted, unsaved, arrived>>
hosts == <<idFile, local, names, unkept>>
memory == <<known, beats, ring, holder, arrived>>

Op == {"register", "heartbeat", "report"}
PC == {"down", "id", "connect", "alone"} \cup Op
Agent == [pc : PC, id : Ids \cup {None}, waiting : BOOLEAN]
Down == [pc |-> "down", id |-> None, waiting |-> FALSE]
Call == [op : Op, at : {"map", "row", "lock", "insert"}, id : Ids,
         todo : SUBSET Serious]
\* What the ring holds of an event.
Tagged == [event : Serious, agent : Ids]

TypeOK ==
  /\ idFile \in [Machines -> Ids \cup {None, Torn}]
  /\ agent \in [Machines -> Agent]
  /\ local \in [Machines -> Seq(Events)]
  /\ call \in [Machines -> Call \cup {None}]
  /\ known \in SUBSET Ids
  /\ beats \in SUBSET Ids
  /\ ring \in Seq(Tagged)
  /\ holder \in Machines \cup {None}
  /\ row \in [Ids -> Row \cup {None}]
  /\ stored \in [Events -> Ids \cup {None}]
  /\ faults \in 0..MaxFaults
  /\ kills \in 0..MaxKills

Init ==
  /\ idFile = [m \in Machines |-> None]
  /\ agent = [m \in Machines |-> Down]
  /\ local = [m \in Machines |-> <<>>]
  /\ call = [m \in Machines |-> None]
  /\ known = {} /\ beats = {} /\ ring = <<>> /\ holder = None
  /\ row = [id \in Ids |-> None]
  /\ stored = [e \in Events |-> None]
  /\ faults = 0 /\ kills = 0
  /\ names = [m \in Machines |-> {}]
  /\ unkept = {} /\ greeted = {} /\ unsaved = {}
  /\ arrived = <<>>

---------------------------------------------------------------------------
Fault == faults < MaxFaults /\ faults' = faults + 1
Newest(s, n) == IF Len(s) <= n THEN s ELSE SubSeq(s, Len(s) - n + 1, Len(s))
Goto(m, pc) == agent' = [agent EXCEPT ![m].pc = pc, ![m].waiting = FALSE]
\* The loop of the agent: a heartbeat and a report every 30 seconds.
Following(pc) == IF pc = "heartbeat" THEN "report" ELSE "heartbeat"
FreeIds == Ids \ UNION {names[m] : m \in Machines}
FreshId == CHOOSE id \in FreeIds : TRUE
\* get_recent(200), without what is below Medium.  The order of a batch is left
\* open: nothing here depends on it.
Batch(m) == Range(Newest(local[m], Recent)) \cap Serious

---------------------------------------------------------------------------
(* The agent                                                               *)

\* Something happens on the machine: a row of its events table.
Record(m, e) ==
  /\ \A n \in Machines : e \notin Range(local[n])
  /\ local' = [local EXCEPT ![m] = Append(@, e)]
  /\ UNCHANGED <<idFile, agent, call, memory, row, stored, faults, kills,
                 names, unkept, greeted, unsaved>>

\* get_or_create_agent_id: the file holds a uuid ...
ReadId(m) ==
  /\ idFile[m] \in Ids
  /\ agent' = [agent EXCEPT ![m] = [Down EXCEPT !.pc = "connect", !.id = idFile[m]]]
  /\ UNCHANGED <<idFile, names, unkept, faults>>

\* ... or a new one is drawn, and fs::write creates or empties the file, or
\* fails and leaves the run with an id that the next one will not know ...
DrawId(m) ==
  /\ idFile[m] \notin Ids
  /\ FreeIds # {}
  /\ names' = [names EXCEPT ![m] = @ \cup {FreshId}]
  /\ \/ /\ idFile' = [idFile EXCEPT ![m] = Torn]
        /\ agent' = [agent EXCEPT ![m] = [Down EXCEPT !.pc = "id", !.id = FreshId]]
        /\ UNCHANGED <<unkept, faults>>
     \/ /\ Fault
        /\ agent' = [agent EXCEPT ![m] = [Down EXCEPT !.pc = "connect", !.id = FreshId]]
        /\ unkept' = unkept \cup {m}
        /\ UNCHANGED idFile

\* Mutant of Start: the id in the file is not read.
StartAnew(m) ==
  /\ agent[m].pc = "down"
  /\ DrawId(m) \/ (idFile[m] \in Ids /\ FreeIds # {} /\ UNCHANGED <<unkept, faults>>
       /\ names' = [names EXCEPT ![m] = @ \cup {FreshId}]
       /\ idFile' = [idFile EXCEPT ![m] = Torn]
       /\ agent' = [agent EXCEPT ![m] = [Down EXCEPT !.pc = "id", !.id = FreshId]])
  /\ UNCHANGED <<local, call, memory, row, stored, kills, greeted, unsaved>>

Start(m) ==
  /\ agent[m].pc = "down"
  /\ ReadId(m) \/ DrawId(m)
  /\ UNCHANGED <<local, call, memory, row, stored, kills, greeted, unsaved>>

\* ... and then writes the uuid into it.
WriteId(m) ==
  /\ agent[m].pc = "id"
  /\ Goto(m, "connect")
  /\ \/ /\ idFile' = [idFile EXCEPT ![m] = agent[m].id]
        /\ UNCHANGED <<unkept, faults>>
     \/ /\ Fault
        /\ unkept' = unkept \cup {m}
        /\ UNCHANGED idFile
  /\ UNCHANGED <<local, call, memory, row, stored, kills, names, greeted, unsaved>>

\* CentralClient::connect is tried once: an agent that fails stays without a
\* client, and its loop does nothing.
Connect(m) ==
  /\ agent[m].pc = "connect"
  /\ \/ Goto(m, "register") /\ UNCHANGED faults
     \/ Goto(m, "alone") /\ Fault
  /\ UNCHANGED <<hosts, call, memory, row, stored, kills, greeted, unsaved>>

First(op) == [register |-> "map", heartbeat |-> "row", report |-> "lock"][op]

\* register, send_heartbeat, report_recent_events: the last sends nothing when
\* there is nothing to send.
Send(m) ==
  LET op == agent[m].pc
      todo == IF op = "report" THEN Batch(m) ELSE {}
  IN /\ op \in Op
     /\ ~agent[m].waiting
     /\ call[m] = None
     /\ IF op = "report" /\ todo = {}
        THEN Goto(m, "heartbeat") /\ UNCHANGED call
        ELSE /\ call' = [call EXCEPT ![m] = [op |-> op, at |-> First(op),
                                             id |-> agent[m].id, todo |-> todo]]
             /\ agent' = [agent EXCEPT ![m].waiting = TRUE]
     /\ UNCHANGED <<hosts, memory, row, stored, faults, kills, greeted, unsaved>>

\* A handler that waits for a lock, or that no request has reached, is dropped
\* with its connection; the others run to their end.
Unanswered(m) ==
  IF call[m] # None /\ (call[m].at \in {"map", "lock"} \/ call[m].op = "heartbeat")
  THEN call' \in {call, [call EXCEPT ![m] = None]}
  ELSE UNCHANGED call

\* The call ends in an error on the side of the agent, which goes on.
Lost(m) ==
  /\ agent[m].waiting
  /\ Fault
  /\ Goto(m, Following(agent[m].pc))
  /\ Unanswered(m)
  /\ UNCHANGED <<hosts, memory, row, stored, kills, greeted, unsaved>>

---------------------------------------------------------------------------
(* The handlers of the server                                              *)

In(m, op, at) == call[m] # None /\ call[m].op = op /\ call[m].at = at
\* The handler returns, and the agent, if it still waits, goes on.
Answer(m) ==
  /\ call' = [call EXCEPT ![m] = None]
  /\ agent' = IF agent[m].waiting
              THEN [agent EXCEPT ![m].pc = Following(@), ![m].waiting = FALSE]
              ELSE agent
Proceed(m, at) == call' = [call EXCEPT ![m].at = at] /\ UNCHANGED agent

\* Mutant of RegisterMap: the map is keyed by host.
RegisterMapByHost(m) ==
  /\ In(m, "register", "map")
  /\ known' = known \cup {m}
  /\ Proceed(m, "row")
  /\ UNCHANGED <<hosts, beats, ring, holder, arrived, row, stored, faults, kills,
                 greeted, unsaved>>

RegisterMap(m) ==
  /\ In(m, "register", "map")
  /\ known' = known \cup {call[m].id}
  /\ Proceed(m, "row")
  /\ UNCHANGED <<hosts, beats, ring, holder, arrived, row, stored, faults, kills,
                 greeted, unsaved>>

Seen == [online |-> TRUE, age |-> 0]

\* Mutant of RegisterRow: an agent in the map is taken to be in the table.
RegisterRowOnce(m) ==
  /\ In(m, "register", "row")
  /\ row' = IF call[m].id \in known THEN row ELSE [row EXCEPT ![call[m].id] = Seen]
  /\ greeted' = greeted \cup {call[m].id}
  /\ Answer(m)
  /\ UNCHANGED <<hosts, memory, stored, faults, kills, unsaved>>

\* upsert; a registration that is not written is a success all the same.
RegisterRow(m) ==
  /\ In(m, "register", "row")
  /\ \/ /\ row' = [row EXCEPT ![call[m].id] = Seen]
        /\ unsaved' = unsaved \ {call[m].id}
        /\ UNCHANGED faults
     \/ Fault /\ unsaved' = unsaved \cup {call[m].id} /\ UNCHANGED row
  /\ greeted' = greeted \cup {call[m].id}
  /\ Answer(m)
  /\ UNCHANGED <<hosts, memory, stored, kills>>

\* Mutant of BeatRow: the heartbeat is noted and the status left as it is.
BeatRowSilent(m) ==
  /\ In(m, "heartbeat", "row")
  /\ row' = IF row[call[m].id] = None THEN row
            ELSE [row EXCEPT ![call[m].id].age = 0]
  /\ Proceed(m, "map")
  /\ UNCHANGED <<hosts, memory, stored, faults, kills, greeted, unsaved>>

\* update_heartbeat changes the row, if there is one.
BeatRow(m) ==
  /\ In(m, "heartbeat", "row")
  /\ \/ /\ row' = IF row[call[m].id] = None THEN row
                  ELSE [row EXCEPT ![call[m].id] = Seen]
        /\ UNCHANGED faults
     \/ Fault /\ UNCHANGED row
  /\ Proceed(m, "map")
  /\ UNCHANGED <<hosts, memory, stored, kills, greeted, unsaved>>

BeatMap(m) ==
  /\ In(m, "heartbeat", "map")
  /\ beats' = beats \cup {call[m].id}
  /\ Answer(m)
  /\ UNCHANGED <<hosts, known, ring, holder, arrived, row, stored, faults, kills,
                 greeted, unsaved>>

ReportLock(m) ==
  /\ In(m, "report", "lock")
  /\ holder = None
  /\ holder' = m
  /\ Proceed(m, "insert")
  /\ UNCHANGED <<hosts, known, beats, ring, arrived, row, stored, faults, kills,
                 greeted, unsaved>>

\* The next event of the batch is stored and pushed on the ring.
Store(m, e) ==
  /\ stored' = [stored EXCEPT ![e] = call[m].id]
  /\ ring' = Append(ring, [event |-> e, agent |-> call[m].id])
  /\ arrived' = Append(arrived, e)

\* Mutant of ReportInsert: a refused event is pushed on the ring like another.
ReportInsertAnyway(m) ==
  /\ In(m, "report", "insert")
  /\ \E e \in call[m].todo :
       /\ IF stored[e] = None
          THEN Store(m, e)
          ELSE /\ ring' = Append(ring, [event |-> e, agent |-> call[m].id])
               /\ UNCHANGED <<stored, arrived>>
       /\ call' = [call EXCEPT ![m].todo = @ \ {e}]
  /\ UNCHANGED <<hosts, agent, known, beats, holder, row, faults, kills, greeted, unsaved>>

\* Mutant of ReportInsert: the first refused event ends the batch.
ReportInsertUpTo(m) ==
  /\ In(m, "report", "insert")
  /\ \E e \in call[m].todo :
       \/ /\ stored[e] = None
          /\ Store(m, e)
          /\ call' = [call EXCEPT ![m].todo = @ \ {e}]
          /\ UNCHANGED faults
       \/ /\ (stored[e] # None /\ UNCHANGED faults) \/ Fault
          /\ call' = [call EXCEPT ![m].todo = {}]
          /\ UNCHANGED <<stored, ring, arrived>>
  /\ UNCHANGED <<hosts, agent, known, beats, holder, row, kills, greeted, unsaved>>

\* An event that is there already, or that the table refuses, is passed over.
ReportInsert(m) ==
  /\ In(m, "report", "insert")
  /\ \E e \in call[m].todo :
       /\ \/ stored[e] = None /\ Store(m, e) /\ UNCHANGED faults
          \/ stored[e] # None /\ UNCHANGED <<stored, ring, arrived, faults>>
          \/ Fault /\ UNCHANGED <<stored, ring, arrived>>
       /\ call' = [call EXCEPT ![m].todo = @ \ {e}]
  /\ UNCHANGED <<hosts, agent, known, beats, holder, row, kills, greeted, unsaved>>

\* Mutant of ReportEnd: the newest events are drained.
ReportEndTruncates(m) ==
  /\ In(m, "report", "insert")
  /\ call[m].todo = {}
  /\ ring' = IF Len(ring) > Ring THEN SubSeq(ring, 1, Ring) ELSE ring
  /\ holder' = None
  /\ Answer(m)
  /\ UNCHANGED <<hosts, known, beats, arrived, row, stored, faults, kills, greeted, unsaved>>

\* events.drain(0 .. len - MAX_IN_MEMORY_EVENTS), and the lock is released.
ReportEnd(m) ==
  /\ In(m, "report", "insert")
  /\ call[m].todo = {}
  /\ ring' = Newest(ring, Ring)
  /\ holder' = None
  /\ Answer(m)
  /\ UNCHANGED <<hosts, known, beats, arrived, row, stored, faults, kills, greeted, unsaved>>

---------------------------------------------------------------------------
(* The clock of the server and its sweep                                   *)

\* One unit of time: every last_seen is that much older.
Tick ==
  /\ \E id \in Ids : row[id] # None /\ row[id].age <= Stale
  /\ row' = [id \in Ids |->
               IF row[id] = None \/ row[id].age > Stale THEN row[id]
               ELSE [row[id] EXCEPT !.age = @ + 1]]
  /\ UNCHANGED <<hosts, agent, call, memory, stored, faults, kills, greeted, unsaved>>

\* Mutant of Sweep: only agents whose heartbeats are in memory are swept.
SweepHeard ==
  /\ row' = [id \in Ids |->
               IF row[id] # None /\ row[id].age > Stale /\ id \in beats
               THEN [row[id] EXCEPT !.online = FALSE] ELSE row[id]]
  /\ UNCHANGED <<hosts, agent, call, memory, stored, faults, kills, greeted, unsaved>>

\* mark_offline_stale, every minute.
Sweep ==
  /\ row' = [id \in Ids |->
               IF row[id] # None /\ row[id].age > Stale
               THEN [row[id] EXCEPT !.online = FALSE] ELSE row[id]]
  /\ UNCHANGED <<hosts, agent, call, memory, stored, faults, kills, greeted, unsaved>>

---------------------------------------------------------------------------
(* Failures                                                                *)

KillAgent(m) ==
  /\ agent[m].pc # "down"
  /\ kills < MaxKills
  /\ kills' = kills + 1
  /\ agent' = [agent EXCEPT ![m] = Down]
  /\ Unanswered(m)
  /\ UNCHANGED <<hosts, memory, row, stored, faults, greeted, unsaved>>

\* The server is killed and started again: every call breaks.
KillServer ==
  /\ kills < MaxKills
  /\ kills' = kills + 1
  /\ call' = [m \in Machines |-> None]
  /\ agent' = [m \in Machines |->
                 IF agent[m].waiting
                 THEN [agent[m] EXCEPT !.pc = Following(@), !.waiting = FALSE]
                 ELSE agent[m]]
  /\ known' = {} /\ beats' = {} /\ ring' = <<>> /\ holder' = None /\ arrived' = <<>>
  /\ UNCHANGED <<hosts, row, stored, faults, greeted, unsaved>>

---------------------------------------------------------------------------
Handle(m) ==
  \/ RegisterMap(m) \/ RegisterRow(m)
  \/ BeatRow(m) \/ BeatMap(m)
  \/ ReportLock(m) \/ ReportInsert(m) \/ ReportEnd(m)

Next ==
  \/ \E m \in Machines :
       \/ \E e \in Events : Record(m, e)
       \/ Start(m) \/ WriteId(m) \/ Connect(m) \/ Send(m) \/ Lost(m)
       \/ Handle(m)
       \/ KillAgent(m)
  \/ Tick \/ Sweep
  \/ KillServer

Spec == Init /\ [][Next]_vars

\* A running agent goes through its loop, the server handles what it receives
\* (its asynchronous lock serves its waiters in turn), time passes and the sweep
\* comes round.  Nothing has to break, and nobody has to start an agent.
FairSpec ==
  /\ Spec
  /\ \A m \in Machines :
       /\ WF_vars(WriteId(m) \/ Connect(m) \/ Send(m))
       /\ WF_vars(Handle(m))
       /\ SF_vars(ReportLock(m))
  /\ WF_vars(Tick) /\ WF_vars(Sweep)

---------------------------------------------------------------------------
(* What the queries of the console return                                  *)

\* get_events without the bounds on time, severity and number: the ring is
\* searched by agent_id, the table by source_module, which is never an id.
GetEvents(id) ==
  {r.event : r \in {x \in Range(ring) : id = None \/ x.agent = id}}
    \cup {e \in Events : stored[e] # None /\ id = None}

\* get_agents
GetAgents == known \cup {id \in Ids : row[id] # None}

---------------------------------------------------------------------------
(* Properties                                                              *)

\* The ring is what this run of the server stored last, in the order of its
\* arrival, whatever the agents send again.  It overflows only while a report
\* holds it.
RingIsTail ==
  /\ [i \in DOMAIN ring |-> ring[i].event] = Newest(arrived, Len(ring))
  /\ holder = None => Len(ring) = Len(Newest(arrived, Ring))

\* No event is twice in the ring, and central.db has each of them, from the
\* same agent: memory never shows what the database does not have.
RingIsStored ==
  /\ IsInjective([i \in DOMAIN ring |-> ring[i].event])
  /\ \A i \in DOMAIN ring : stored[ring[i].event] = ring[i].agent

\* "Stable identity is required for central-side inventory and event
\* deduplication": whatever is killed and whenever, everything the server keeps
\* of one machine bears one id, unless the machine could not write the id down.
Of(m) == {stored[e] : e \in Range(local[m])} \ {None}
OneIdentity ==
  \A m \in Machines \ unkept :
    Cardinality(Of(m) \cup (names[m] \cap GetAgents)) <= 1

\* An agent is listed from its registration on, also by a server that was
\* restarted since, unless the registration could not be written.
Listed == greeted \subseteq GetAgents \cup unsaved

\* An agent is called offline only after a silence.
OfflineIsSilent ==
  \A id \in Ids : row[id] # None /\ ~row[id].online => row[id].age > Stale

Reporting(m) == agent[m].pc \in Op
\* An agent that stays up is found online again and again, whatever was lost.
AliveIsOnline ==
  \A m \in Machines, id \in Ids :
    <>[](Reporting(m) /\ agent[m].id = id /\ row[id] # None) => []<>(row[id] # None /\ row[id].online)

\* An agent that is gone for good ends up offline.
Gone(id) == \A m \in Machines : agent[m].id # id /\ (call[m] = None \/ call[m].id # id)
DeadGoesOffline ==
  \A id \in Ids : <>[](row[id] # None /\ Gone(id)) => <>[](row[id] # None /\ ~row[id].online)

\* A serious event of a reporting agent reaches central.db, unless newer events
\* push it out of the rows the agent looks at, or the agent stops.
Delivered ==
  \A m \in Machines, e \in Serious :
    (Reporting(m) /\ e \in Range(Newest(local[m], Recent)))
      ~> (stored[e] # None \/ ~Reporting(m) \/ e \notin Range(Newest(local[m], Recent)))

\* doc/grpc-openapi.yaml: "Query events across all agents with optional
\* filtering by agent ID".  A query for one agent finds the events the server
\* has of that agent.
AgentFilter ==
  \A id \in Ids : {e \in Events : stored[e] = id} \subseteq GetEvents(id)
=============================================================================
