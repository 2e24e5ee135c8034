----------------------------- MODULE Incidents -----------------------------
(***************************************************************************)
(* The incident correlation of nkosi-agent: the tail of the detection       *)
(* handler (process_events and Simulator::process_detections, which run in   *)
(* two tasks), IncidentManager behind its mutex, and the events, detections  *)
(* and incidents tables.                                                    *)
(*                                                                         *)
(* A batch is what one file event yields: its Detection event, whose id is  *)
(* the batch, and its detections, which share one fate here.  Every SQL     *)
(* statement is an action of its own, that readers of the database and a    *)
(* crash can come before, and that may fail (another process holds the      *)
(* database, the disk is full); the code logs or drops such errors.         *)
(***************************************************************************)
EXTENDS Naturals, FiniteSets

CONSTANTS
  Keys,          \* "file:pid" correlation keys
  Tasks,         \* process_events, the simulator
  Scores,        \* average scores of a batch
  Critical,      \* the score from which an incident is serious (70)
  Window,        \* INCIDENT_WINDOW_SECS
  MaxTime,       \* bound on the clock
  MaxBatches,    \* bound on the batches ever detected
  MaxFaults,     \* bound on failed statements
  MaxCrashes,    \* bound on restarts of the agent
  None

Batches == 1..MaxBatches
\* An incident is named after the batch that opens it: v4 uuids are distinct.
IncidentIds == Batches
OpenStatus == {"Open", "Investigating"}
FinalStatus == {"Resolved", "FalsePositive"}
Row == [status : OpenStatus \cup FinalStatus, score : Nat, created : Nat]
Pending == [id : IncidentIds, created : Nat, score : Nat]

ASSUME IncidentsAssumption ==
  /\ Scores \subseteq Nat
  /\ Critical \in Nat /\ Window \in Nat
  /\ MaxTime \in Nat /\ MaxBatches \in Nat /\ MaxFaults \in Nat /\ MaxCrashes \in Nat
  /\ None \notin Keys \cup Tasks \cup Scores \cup Nat \cup Row \cup Pending

\* The incident_id of an event that belongs to no incident (NULL).
NoIncident == 0

VARIABLES
  now,        \* the clock, in seconds
  task,       \* task -> the batch it handles and where it is
  holder,     \* the task that holds the mutex of the IncidentManager
  pending,    \* key -> what the manager remembers of its incident
  incident,   \* id -> row of incidents
  eventRow,   \* batch -> incident_id of its row in events; None: no row
  detRow,     \* batches whose detections are in the table
  batches,    \* batches detected so far
  faults, crashes,
  peak,       \* history: id -> highest score of a batch put in the incident
  keyOf,      \* history: id -> key, of the incidents this run of the agent opened
  dirty       \* history: incidents one of whose statements failed

vars == <<now, task, holder, pending, incident, eventRow, detRow, batches,
          faults, crashes, peak, keyOf, dirty>>
tables == <<incident, eventRow, detRow>>
history == <<peak, keyOf, dirty>>

PC == {"idle", "save_event", "save_dets", "lock", "file", "score", "status",
       "open", "insert", "insert_event", "unlock"}
\* Where the mutex is held.
InManager == PC \ {"idle", "save_event", "save_dets", "lock"}
Task == [pc : PC, key : Keys \cup {None}, score : Nat, batch : Batches \cup {None}]
Idle == [pc |-> "idle", key |-> None, score |-> 0, batch |-> None]

TypeOK ==
  /\ now \in 0..MaxTime
  /\ task \in [Tasks -> Task]
  /\ holder \in Tasks \cup {None}
  /\ pending \in [Keys -> Pending \cup {None}]
  /\ incident \in [IncidentIds -> Row \cup {None}]
  /\ eventRow \in [Batches -> {None, NoIncident} \cup IncidentIds]
  /\ detRow \in SUBSET Batches
  /\ batches \in 0..MaxBatches
  /\ faults \in 0..MaxFaults
  /\ crashes \in 0..MaxCrashes
  /\ peak \in [IncidentIds -> Nat]
  /\ keyOf \in [IncidentIds -> Keys \cup {None}]
  /\ dirty \in SUBSET IncidentIds

Init ==
  /\ now = 0
  /\ task = [t \in Tasks |-> Idle]
  /\ holder = None
  /\ pending = [k \in Keys |-> None]
  /\ incident = [i \in IncidentIds |-> None]
  /\ eventRow = [b \in Batches |-> None]
  /\ detRow = {}
  /\ batches = 0
  /\ faults = 0 /\ crashes = 0
  /\ peak = [i \in IncidentIds |-> 0]
  /\ keyOf = [i \in IncidentIds |-> None]
  /\ dirty = {}

---------------------------------------------------------------------------
At(t, s) == task[t].pc = s
Goto(t, s) == task' = [task EXCEPT ![t].pc = s]
Entry(t) == pending[task[t].key]
Higher(a, b) == IF a >= b THEN a ELSE b

\* A statement that changes one incident row, if it has one, or fails.
Update(t, i, r, next) ==
  /\ Goto(t, next)
  /\ \/ /\ incident' = IF incident[i] = None THEN incident
                       ELSE [incident EXCEPT ![i] = r]
        /\ UNCHANGED <<faults, dirty>>
     \/ /\ faults < MaxFaults
        /\ faults' = faults + 1
        /\ dirty' = dirty \cup {i}
        /\ UNCHANGED incident

\* INSERT INTO events: a second row with the same id is refused.
InsertEvent(t, link, next) ==
  LET b == task[t].batch
  IN /\ Goto(t, next)
     /\ \/ /\ eventRow' = IF eventRow[b] = None
                          THEN [eventRow EXCEPT ![b] = link] ELSE eventRow
           /\ UNCHANGED faults
        \/ /\ faults < MaxFaults
           /\ faults' = faults + 1
           /\ UNCHANGED eventRow

---------------------------------------------------------------------------
(* The tail of the detection handler                                       *)

Detect(t, k, s) ==
  /\ At(t, "idle")
  /\ batches < MaxBatches
  /\ batches' = batches + 1
  /\ task' = [task EXCEPT ![t] = [pc |-> "save_event", key |-> k, score |-> s,
                                  batch |-> batches + 1]]
  /\ UNCHANGED <<now, holder, pending, tables, faults, crashes, history>>

SaveEvent(t) ==
  /\ At(t, "save_event")
  /\ InsertEvent(t, NoIncident, "save_dets")
  /\ UNCHANGED <<now, holder, pending, incident, detRow, batches, crashes, history>>

\* The detections refer to the event: the foreign key wants it to be there.
SaveDetections(t) ==
  /\ At(t, "save_dets")
  /\ Goto(t, "lock")
  /\ \/ /\ detRow' = IF eventRow[task[t].batch] # None
                     THEN detRow \cup {task[t].batch} ELSE detRow
        /\ UNCHANGED faults
     \/ /\ faults < MaxFaults
        /\ faults' = faults + 1
        /\ UNCHANGED detRow
  /\ UNCHANGED <<now, holder, pending, incident, eventRow, batches, crashes, history>>

\* Mutant of Lock: the manager is entered without its mutex.
LockFree(t) ==
  /\ At(t, "lock")
  /\ holder' = t
  /\ Goto(t, "file")
  /\ UNCHANGED <<now, pending, tables, batches, faults, crashes, history>>

\* incident_manager.lock().await
Lock(t) ==
  /\ At(t, "lock")
  /\ holder = None
  /\ holder' = t
  /\ Goto(t, "file")
  /\ UNCHANGED <<now, pending, tables, batches, faults, crashes, history>>

Unlock(t) ==
  /\ At(t, "unlock")
  /\ holder' = None
  /\ task' = [task EXCEPT ![t] = Idle]
  /\ UNCHANGED <<now, pending, tables, batches, faults, crashes, history>>

---------------------------------------------------------------------------
(* IncidentManager::process_detections                                     *)

\* Mutant of InWindow: the last second of the window is left out.
InWindowStrict(e) == now - e.created < Window

InWindow(e) == now - e.created <= Window

\* Mutant of Join: the score of the latest batch replaces the highest one.
JoinLatest(t) ==
  LET e == Entry(t)
  IN /\ At(t, "file")
     /\ e # None
     /\ InWindow(e)
     /\ pending' = [pending EXCEPT ![task[t].key].score = task[t].score]
     /\ peak' = [peak EXCEPT ![e.id] = Higher(@, task[t].score)]
     /\ Goto(t, "score")
     /\ UNCHANGED <<now, holder, tables, batches, faults, crashes, keyOf, dirty>>

\* The incident of the key is still in its window: the batch joins it.
Join(t) ==
  LET e == Entry(t)
  IN /\ At(t, "file")
     /\ e # None
     /\ InWindow(e)
     /\ pending' = [pending EXCEPT ![task[t].key].score = Higher(@, task[t].score)]
     /\ peak' = [peak EXCEPT ![e.id] = Higher(@, task[t].score)]
     /\ Goto(t, "score")
     /\ UNCHANGED <<now, holder, tables, batches, faults, crashes, keyOf, dirty>>

\* Mutant of UpdateScore: the status does not follow the score.
UpdateScoreOnly(t) ==
  LET e == Entry(t)
  IN /\ At(t, "score")
     /\ Update(t, e.id, [incident[e.id] EXCEPT !.score = e.score], "unlock")
     /\ UNCHANGED <<now, holder, pending, eventRow, detRow, batches, crashes, peak, keyOf>>

\* update_incident_inner
UpdateScore(t) ==
  LET e == Entry(t)
  IN /\ At(t, "score")
     /\ Update(t, e.id, [incident[e.id] EXCEPT !.score = e.score],
               IF e.score >= Critical THEN "status" ELSE "unlock")
     /\ UNCHANGED <<now, holder, pending, eventRow, detRow, batches, crashes, peak, keyOf>>

UpdateStatus(t) ==
  LET e == Entry(t)
  IN /\ At(t, "status")
     /\ Update(t, e.id, [incident[e.id] EXCEPT !.status = "Investigating"], "unlock")
     /\ UNCHANGED <<now, holder, pending, eventRow, detRow, batches, crashes, peak, keyOf>>

\* The window of the incident is over: finalize_incident, whose verdict follows
\* from the score in memory.
Finalize(t) ==
  LET e == Entry(t)
      verdict == IF e.score >= Critical THEN "Resolved" ELSE "FalsePositive"
  IN /\ At(t, "file")
     /\ e # None
     /\ ~InWindow(e)
     /\ Update(t, e.id, [incident[e.id] EXCEPT !.status = verdict], "open")
     /\ UNCHANGED <<now, holder, pending, eventRow, detRow, batches, crashes, peak, keyOf>>

\* Mutant of Open: the entry of the key is filled only if there is none.
OpenIfAbsent(t) ==
  LET b == task[t].batch
      k == task[t].key
  IN /\ At(t, "open") \/ (At(t, "file") /\ Entry(t) = None)
     /\ pending' = IF pending[k] # None THEN pending
                   ELSE [pending EXCEPT ![k] =
                           [id |-> b, created |-> now, score |-> task[t].score]]
     /\ peak' = [peak EXCEPT ![b] = task[t].score]
     /\ keyOf' = [keyOf EXCEPT ![b] = k]
     /\ Goto(t, "insert")
     /\ UNCHANGED <<now, holder, tables, batches, faults, crashes, dirty>>

\* A new incident takes the place of the key's old one in memory.
Open(t) ==
  LET b == task[t].batch
  IN /\ At(t, "open") \/ (At(t, "file") /\ Entry(t) = None)
     /\ pending' = [pending EXCEPT ![task[t].key] =
                      [id |-> b, created |-> now, score |-> task[t].score]]
     /\ peak' = [peak EXCEPT ![b] = task[t].score]
     /\ keyOf' = [keyOf EXCEPT ![b] = task[t].key]
     /\ Goto(t, "insert")
     /\ UNCHANGED <<now, holder, tables, batches, faults, crashes, dirty>>

\* Mutant of InsertIncident: a failed insert does not end persist_incident.
InsertIncidentOrNot(t) ==
  LET e == Entry(t)
  IN /\ At(t, "insert")
     /\ Goto(t, "insert_event")
     /\ \/ /\ incident' = [incident EXCEPT ![e.id] =
                [status |-> IF e.score >= Critical THEN "Investigating" ELSE "Open",
                 score |-> e.score, created |-> e.created]]
           /\ UNCHANGED <<faults, dirty>>
        \/ /\ faults < MaxFaults
           /\ faults' = faults + 1
           /\ dirty' = dirty \cup {e.id}
           /\ UNCHANGED incident
     /\ UNCHANGED <<now, holder, pending, eventRow, detRow, batches, crashes, peak, keyOf>>

\* persist_incident: without the row of the incident, nothing else is written.
InsertIncident(t) ==
  LET e == Entry(t)
  IN /\ At(t, "insert")
     /\ \/ /\ incident' = [incident EXCEPT ![e.id] =
                [status |-> IF e.score >= Critical THEN "Investigating" ELSE "Open",
                 score |-> e.score, created |-> e.created]]
           /\ Goto(t, "insert_event")
           /\ UNCHANGED <<faults, dirty>>
        \/ /\ faults < MaxFaults
           /\ faults' = faults + 1
           /\ dirty' = dirty \cup {e.id}
           /\ Goto(t, "unlock")
           /\ UNCHANGED incident
     /\ UNCHANGED <<now, holder, pending, eventRow, detRow, batches, crashes, peak, keyOf>>

\* Mutant of InsertLinkedEvent: the key of the incident is written for its id.
InsertKeyedEvent(t) ==
  /\ At(t, "insert_event")
  /\ InsertEvent(t, task[t].key, "unlock")
  /\ UNCHANGED <<now, holder, pending, incident, detRow, batches, crashes, history>>

\* The detections, inserted again as the engines made them, change nothing:
\* they have the id of an event that does not exist, which the foreign key
\* refuses, or the primary key does.  Then the event is inserted again, this
\* time with its incident.
InsertLinkedEvent(t) ==
  /\ At(t, "insert_event")
  /\ InsertEvent(t, Entry(t).id, "unlock")
  /\ UNCHANGED <<now, holder, pending, incident, detRow, batches, crashes, history>>

---------------------------------------------------------------------------
(* The environment                                                         *)

Tick ==
  /\ now < MaxTime
  /\ now' = now + 1
  /\ UNCHANGED <<task, holder, pending, tables, batches, faults, crashes, history>>

\* The agent is killed and started again: the tables are all that is left.
Restart ==
  /\ crashes < MaxCrashes
  /\ crashes' = crashes + 1
  /\ task' = [t \in Tasks |-> Idle]
  /\ holder' = None
  /\ pending' = [k \in Keys |-> None]
  /\ keyOf' = [i \in IncidentIds |-> None]
  /\ UNCHANGED <<now, tables, batches, faults, peak, dirty>>

Manage(t) ==
  \/ Join(t) \/ UpdateScore(t) \/ UpdateStatus(t)
  \/ Finalize(t) \/ Open(t)
  \/ InsertIncident(t) \/ InsertLinkedEvent(t)
  \/ Unlock(t)

Next ==
  \/ \E t \in Tasks :
       \/ \E k \in Keys, s \in Scores : Detect(t, k, s)
       \/ SaveEvent(t) \/ SaveDetections(t) \/ Lock(t) \/ Manage(t)
  \/ Tick
  \/ Restart

Spec == Init /\ [][Next]_vars

\* A handler runs to its end.  The mutex is tokio's, which hands the lock to
\* its waiters in the order they came: no waiter is passed over for ever.
FairSpec ==
  /\ Spec
  /\ \A t \in Tasks :
       /\ WF_vars(SaveEvent(t) \/ SaveDetections(t) \/ Manage(t))
       /\ SF_vars(Lock(t))

---------------------------------------------------------------------------
(* Properties                                                              *)

IsOpen(i) == incident[i] # None /\ incident[i].status \in OpenStatus

\* What the table says of an incident never contradicts what was detected: an
\* incident one of whose batches was serious is never filed as a false
\* positive, and none is called serious without such a batch, whichever
\* statements failed and however batches of two tasks interleave.
Verdict ==
  \A i \in IncidentIds : incident[i] # None =>
    /\ incident[i].score <= peak[i]
    /\ incident[i].status \in {"Investigating", "Resolved"} => peak[i] >= Critical
    /\ incident[i].status = "FalsePositive" => peak[i] < Critical

\* While nobody is in the manager, the row of the incident it remembers for a
\* key is what it remembers, unless a statement failed.
InStep ==
  holder = None =>
    \A k \in Keys : pending[k] # None /\ pending[k].id \notin dirty =>
      LET r == incident[pending[k].id]
      IN /\ r # None
         /\ r.score = pending[k].score
         /\ r.created = pending[k].created
         /\ r.status = IF pending[k].score >= Critical THEN "Investigating" ELSE "Open"

\* A run of the agent has at most one open incident per key, except those a
\* failed statement left open.
OneOpen ==
  \A i, j \in IncidentIds :
    i # j /\ keyOf[i] # None /\ keyOf[i] = keyOf[j] /\ IsOpen(i) /\ IsOpen(j) =>
      i \in dirty \/ j \in dirty

\* Two incidents of one key are opened more than a window apart.
Spaced ==
  \A i, j \in IncidentIds :
    /\ incident[i] # None /\ incident[j] # None /\ i # j
    /\ keyOf[i] # None /\ keyOf[i] = keyOf[j]
    /\ incident[i].created <= incident[j].created
    => incident[j].created - incident[i].created > Window

\* No event belongs to an incident that the table does not have.
LinkTarget ==
  \A b \in Batches : eventRow[b] \in IncidentIds => incident[eventRow[b]] # None

\* A verdict is final: nothing changes the row any more.
Frozen ==
  [][\A i \in IncidentIds :
       incident[i] # None /\ incident[i].status \in FinalStatus =>
         incident'[i] = incident[i]]_vars

\* A serious batch that waits for the mutex gets through it, and its incident
\* is then under investigation in the table, unless a statement failed.
SeriousIsFiled ==
  \A t \in Tasks, k \in Keys :
    At(t, "lock") /\ task[t].key = k /\ task[t].score >= Critical
      ~> /\ pending[k] # None
         /\ pending[k].score >= Critical
         /\ \/ pending[k].id \in dirty
            \/ /\ incident[pending[k].id] # None
               /\ incident[pending[k].id].status = "Investigating"

\* README.md: "Automatic incident creation, correlation, and explainability".
\* Once the manager is done with the batch that opened an incident, and no
\* statement failed, the event of the batch belongs to the incident.
Linked ==
  holder = None /\ faults = 0 /\ crashes = 0 =>
    \A i \in IncidentIds : incident[i] # None => eventRow[i] = i
=============================================================================
