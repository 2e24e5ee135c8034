--------------------------- MODULE IncidentProofs ---------------------------
(***************************************************************************)
(* Safety of Incidents for any number of keys, tasks, batches and faults.    *)
(* The first part says who is in the manager, what the manager remembers of  *)
(* each key and what is still unused; the properties are proved from it one   *)
(* after the other.                                                         *)
(***************************************************************************)
EXTENDS Incidents, Integers, TLAPS

InM(t) == task[t].pc \in InManager

\* A task that handles a batch has it for itself.
Handling ==
  /\ \A t \in Tasks : task[t].pc # "idle" => task[t].key \in Keys /\ task[t].batch \in 1..batches
  /\ \A t, u \in Tasks : t # u /\ task[t].pc # "idle" /\ task[u].pc # "idle" =>
       task[t].batch # task[u].batch

Mutex == \A t \in Tasks : InM(t) => holder = t

\* An id under which nothing was opened.
Unopened(i) ==
  incident[i] = None /\ keyOf[i] = None /\ \A k \in Keys : pending[k] # None => pending[k].id # i
Fresh ==
  /\ \A i \in IncidentIds : i > batches => Unopened(i)
  /\ \A t \in Tasks : task[t].pc \in {"save_event", "save_dets", "lock", "file", "open"} =>
       Unopened(task[t].batch)

\* What the manager remembers.
Keyed ==
  /\ \A k \in Keys : pending[k] # None =>
       /\ keyOf[pending[k].id] = k
       /\ pending[k].score = peak[pending[k].id]
       /\ pending[k].created <= now
  /\ \A i \in IncidentIds : keyOf[i] # None => pending[keyOf[i]] # None

\* What a task in the manager knows of its entry.
Entries ==
  \A t \in Tasks :
    /\ task[t].pc \in {"score", "status", "open", "insert", "insert_event"} => Entry(t) # None
    /\ task[t].pc = "status" => Entry(t).score >= Critical
    /\ task[t].pc = "open" => now - Entry(t).created > Window
    /\ task[t].pc = "insert" => incident[Entry(t).id] = None
    /\ task[t].pc = "insert_event" => incident[Entry(t).id] # None

Base == TypeOK /\ Handling /\ Mutex /\ Fresh /\ Keyed /\ Entries

---------------------------------------------------------------------------
(* What the parts of an action do                                          *)

\* A step of a task inside its batch.
MovesTo(t, s) ==
  /\ task' \in [Tasks -> Task]
  /\ task'[t].pc = s /\ task'[t].key = task[t].key
  /\ task'[t].score = task[t].score /\ task'[t].batch = task[t].batch
  /\ \A u \in Tasks \ {t} : task'[u] = task[u]

LEMMA GotoEffect ==
  ASSUME TypeOK, NEW t \in Tasks, NEW s \in PC, Goto(t, s)
  PROVE  MovesTo(t, s)
<1>1. task[t] \in Task /\ task' = [task EXCEPT ![t] = [task[t] EXCEPT !.pc = s]]
  BY DEF TypeOK, Goto
<1>2. [task[t] EXCEPT !.pc = s] \in Task
  BY <1>1 DEF Task
<1> QED BY <1>1, <1>2 DEF TypeOK, MovesTo, Task

LEMMA IdleIsTask == Idle \in Task /\ Idle.pc = "idle"
BY DEF Idle, Task, PC

\* At most row i changes, to r, and is marked if it does not.
Changes(i, r) ==
  /\ incident' \in [IncidentIds -> Row \cup {None}]
  /\ \A j \in IncidentIds \ {i} : incident'[j] = incident[j]
  /\ dirty \subseteq dirty' /\ dirty' \subseteq dirty \cup {i}
  /\ \/ incident[i] # None /\ incident'[i] = r
     \/ incident'[i] = incident[i] /\ (incident[i] = None \/ i \in dirty')
  /\ faults' \in 0..MaxFaults

LEMMA UpdateEffect ==
  ASSUME TypeOK, NEW t \in Tasks, NEW i \in IncidentIds, NEW r, NEW s \in PC,
         incident[i] # None => r \in Row, Update(t, i, r, s)
  PROVE  MovesTo(t, s) /\ Changes(i, r)
<1>1. MovesTo(t, s)
  BY GotoEffect DEF Update
<1>2. CASE /\ incident' = IF incident[i] = None THEN incident ELSE [incident EXCEPT ![i] = r]
           /\ UNCHANGED <<faults, dirty>>
  BY <1>1, <1>2 DEF TypeOK, Changes
<1>3. CASE /\ faults < MaxFaults /\ faults' = faults + 1 /\ dirty' = dirty \cup {i}
           /\ UNCHANGED incident
  BY <1>1, <1>3, IncidentsAssumption DEF TypeOK, Changes
<1> QED BY <1>2, <1>3 DEF Update

LEMMA InsertEventEffect ==
  ASSUME TypeOK, NEW t \in Tasks, NEW link \in {None, NoIncident} \cup IncidentIds, NEW s \in PC,
         task[t].batch \in Batches, InsertEvent(t, link, s)
  PROVE  /\ MovesTo(t, s)
         /\ eventRow' \in [Batches -> {None, NoIncident} \cup IncidentIds]
         /\ \A b \in Batches : eventRow'[b] \in {eventRow[b], link}
         /\ faults' \in 0..MaxFaults
<1>1. MovesTo(t, s)
  BY GotoEffect DEF InsertEvent
<1>2. CASE faults < MaxFaults /\ faults' = faults + 1 /\ UNCHANGED eventRow
  BY <1>1, <1>2, IncidentsAssumption DEF TypeOK
<1>3. CASE /\ eventRow' = IF eventRow[task[t].batch] = None
                          THEN [eventRow EXCEPT ![task[t].batch] = link] ELSE eventRow
           /\ UNCHANGED faults
  BY <1>1, <1>3 DEF TypeOK
<1> QED BY <1>2, <1>3 DEF InsertEvent

LEMMA HigherIs ==
  ASSUME NEW a \in Nat, NEW b \in Nat
  PROVE  Higher(a, b) \in Nat /\ Higher(a, b) >= a /\ Higher(a, b) >= b /\ Higher(a, b) \in {a, b}
BY DEF Higher

LEMMA BatchIs ==
  ASSUME Base, NEW t \in Tasks, task[t].pc # "idle"
  PROVE  task[t].batch \in Batches /\ task[t].key \in Keys /\ task[t].score \in Nat
<1>1. task[t] \in Task /\ batches \in 0..MaxBatches
  BY DEF Base, TypeOK
<1>2. task[t].batch \in 1..batches /\ task[t].key \in Keys
  BY DEF Base, Handling
<1>3. task[t].batch \in Nat
  BY <1>1, <1>2
<1> QED BY <1>1, <1>2, <1>3, IncidentsAssumption DEF Task

LEMMA EntryIsPending ==
  ASSUME Base, NEW t \in Tasks, task[t].pc # "idle", Entry(t) # None
  PROVE  /\ task[t].key \in Keys /\ Entry(t) \in Pending
         /\ Entry(t).id \in IncidentIds /\ Entry(t).created \in Nat /\ Entry(t).score \in Nat
BY DEF Base, Handling, TypeOK, Entry, Pending

---------------------------------------------------------------------------
(* The base                                                                *)

LEMMA BaseInit == Init => Base
<1> SUFFICES ASSUME Init PROVE Base
  OBVIOUS
<1>1. TypeOK
  BY IdleIsTask, IncidentsAssumption DEF Init, TypeOK
<1> QED BY <1>1, IdleIsTask, IncidentsAssumption
        DEF Init, Base, Handling, Mutex, InM, InManager, Fresh, Unopened, Keyed, Entries

\* Steps outside the manager.
LEMMA BaseOutside ==
  ASSUME Base, NEW t \in Tasks,
         SaveEvent(t) \/ SaveDetections(t) \/ Lock(t)
  PROVE  Base'
<1> USE DEF Base
<1>1. ASSUME NEW s \in {"save_dets", "lock"}, MovesTo(t, s), task[t].pc \in {"save_event", "save_dets"},
             UNCHANGED <<now, holder, pending, incident, batches, crashes, history>>, TypeOK'
      PROVE  Base'
  <2>1. ~InM(t)' /\ \A u \in Tasks \ {t} : InM(u)' = InM(u)
    BY <1>1 DEF MovesTo, InM, InManager
  <2>2. Handling' /\ Mutex'
    BY <1>1, <2>1 DEF MovesTo, Handling, Mutex
  <2>3. Fresh' /\ Keyed'
    BY <1>1 DEF MovesTo, Fresh, Unopened, Keyed, history
  <2>4. Entries'
    BY <1>1 DEF MovesTo, Entries, Entry
  <2> QED BY <1>1, <2>2, <2>3, <2>4
<1>2. CASE SaveEvent(t)
  <2>1. task[t].batch \in Batches
    BY <1>2, BatchIs DEF SaveEvent, At
  <2>2. /\ MovesTo(t, "save_dets") /\ faults' \in 0..MaxFaults
        /\ eventRow' \in [Batches -> {None, NoIncident} \cup IncidentIds]
    BY <1>2, <2>1, InsertEventEffect DEF SaveEvent, PC
  <2>3. TypeOK'
    BY <1>2, <2>2 DEF SaveEvent, TypeOK, MovesTo, history
  <2> QED BY <1>1, <1>2, <2>2, <2>3 DEF SaveEvent, At
<1>3. CASE SaveDetections(t)
  <2>1. task[t].batch \in Batches
    BY <1>3, BatchIs DEF SaveDetections, At
  <2>2. MovesTo(t, "lock")
    BY <1>3, GotoEffect DEF SaveDetections, PC
  <2>3. detRow' \in SUBSET Batches /\ faults' \in 0..MaxFaults
    BY <1>3, <2>1, IncidentsAssumption DEF SaveDetections, TypeOK
  <2>4. TypeOK'
    BY <1>3, <2>2, <2>3 DEF SaveDetections, TypeOK, MovesTo, history
  <2> QED BY <1>1, <1>3, <2>2, <2>4 DEF SaveDetections, At
<1>4. CASE Lock(t)
  <2>1. MovesTo(t, "file") /\ task[t].pc = "lock" /\ holder = None /\ holder' = t
    BY <1>4, GotoEffect DEF Lock, PC, At
  <2>2. TypeOK'
    BY <1>4, <2>1 DEF Lock, TypeOK, MovesTo, tables, history
  <2>3. \A u \in Tasks \ {t} : ~InM(u)'
    BY <2>1, IncidentsAssumption DEF Mutex, InM, MovesTo
  <2>4. Handling' /\ Mutex'
    BY <1>4, <2>1, <2>3 DEF MovesTo, Handling, Mutex, Lock
  <2>5. Fresh' /\ Keyed' /\ Entries'
    BY <1>4, <2>1 DEF Lock, MovesTo, Fresh, Unopened, Keyed, Entries, Entry, tables, history
  <2> QED BY <2>2, <2>4, <2>5
<1> QED BY <1>2, <1>3, <1>4

LEMMA BaseDetect ==
  ASSUME Base, NEW t \in Tasks, NEW k \in Keys, NEW s \in Scores, Detect(t, k, s)
  PROVE  Base'
<1> USE DEF Base
<1> DEFINE r == [pc |-> "save_event", key |-> k, score |-> s, batch |-> batches + 1]
<1>1. /\ task' = [task EXCEPT ![t] = r] /\ batches' = batches + 1 /\ task[t].pc = "idle"
      /\ batches + 1 \in Batches /\ batches \in Nat
      /\ UNCHANGED <<now, holder, pending, incident, eventRow, detRow, faults, crashes, peak, keyOf, dirty>>
  BY IncidentsAssumption DEF Detect, At, TypeOK, Batches, tables, history
<1>2. r \in Task
  BY <1>1, IncidentsAssumption DEF Task, PC
<1>3. task' \in [Tasks -> Task] /\ task'[t] = r /\ \A u \in Tasks \ {t} : task'[u] = task[u]
  BY <1>1, <1>2 DEF TypeOK
<1>4. TypeOK'
  BY <1>1, <1>3 DEF TypeOK, Batches
<1>5. Handling'
  <2>1. \A u \in Tasks : task[u].pc # "idle" => task[u].batch < batches + 1
    BY <1>1 DEF Handling
  <2>2. \A u \in Tasks : task[u].pc # "idle" => task[u].key \in Keys /\ task[u].batch \in 1..batches + 1
    BY <1>1 DEF Handling
  <2>3. batches + 1 \in 1..batches + 1
    BY <1>1
  <2> QED BY <1>1, <1>3, <2>1, <2>2, <2>3 DEF Handling
<1>6. Mutex' /\ Entries'
  BY <1>1, <1>3 DEF Mutex, InM, InManager, Entries, Entry
<1>7. Fresh'
  <2>1. \A i \in IncidentIds : i > batches + 1 => i > batches
    BY <1>1 DEF IncidentIds, Batches
  <2>2. batches + 1 > batches
    BY <1>1
  <2> QED BY <1>1, <1>3, <2>1, <2>2 DEF Fresh, Unopened, IncidentIds
<1>8. Keyed'
  BY <1>1 DEF Keyed
<1> QED BY <1>4, <1>5, <1>6, <1>7, <1>8


\* Only one task is in the manager.
LEMMA Alone ==
  ASSUME Base, NEW t \in Tasks, InM(t), NEW u \in Tasks \ {t}
  PROVE  ~InM(u)
BY DEF Base, Mutex

\* A step in the manager that leaves its entry and its batch to itself.
LEMMA StaysInside ==
  ASSUME Base, NEW t \in Tasks, InM(t), NEW s \in InManager, MovesTo(t, s),
         UNCHANGED <<holder, batches>>
  PROVE  /\ Handling' /\ Mutex'
         /\ task[t].key \in Keys /\ task[t].pc # "idle"
         /\ \A u \in Tasks \ {t} : ~InM(u)' /\ ~InM(u)
         /\ \A u \in Tasks \ {t} : task'[u] = task[u]
<1>1. \A u \in Tasks \ {t} : ~InM(u)' /\ ~InM(u)
  BY Alone DEF MovesTo, InM
<1>2. task[t].pc # "idle" /\ s # "idle"
  BY DEF InM, InManager
<1> QED BY <1>1, <1>2 DEF Base, Handling, Mutex, MovesTo, InM

LEMMA BaseJoin ==
  ASSUME Base, NEW t \in Tasks, Join(t)
  PROVE  Base'
<1> USE DEF Base
<1> DEFINE e == Entry(t)
           k == task[t].key
           new == Higher(e.score, task[t].score)
<1>1. /\ task[t].pc = "file" /\ e # None /\ InM(t)
      /\ e \in Pending /\ k \in Keys /\ e.id \in IncidentIds /\ task[t].score \in Nat
      /\ new \in Nat
  BY EntryIsPending, BatchIs, HigherIs DEF Join, At, InM, InManager, PC
<1>2. MovesTo(t, "score")
  BY GotoEffect DEF Join, PC
<1>3. /\ pending' = [pending EXCEPT ![k] = [e EXCEPT !.score = new]]
      /\ peak' = [peak EXCEPT ![e.id] = Higher(peak[e.id], task[t].score)]
      /\ UNCHANGED <<now, holder, incident, eventRow, detRow, batches, faults, crashes, keyOf, dirty>>
  BY <1>1 DEF Join, Entry, tables
<1>4. [e EXCEPT !.score = new] \in Pending
  BY <1>1 DEF Pending
<1>5. /\ pending' \in [Keys -> Pending \cup {None}]
      /\ pending'[k].id = e.id /\ pending'[k].created = e.created /\ pending'[k].score = new
      /\ pending'[k] # None
      /\ \A l \in Keys \ {k} : pending'[l] = pending[l]
  BY <1>1, <1>3, <1>4, IncidentsAssumption DEF TypeOK, Pending
<1>6. /\ peak[e.id] = e.score /\ peak' \in [IncidentIds -> Nat] /\ peak'[e.id] = new
      /\ \A i \in IncidentIds \ {e.id} : peak'[i] = peak[i]
  BY <1>1, <1>3 DEF Keyed, Entry, TypeOK
<1>7. TypeOK'
  BY <1>2, <1>3, <1>5, <1>6 DEF TypeOK, MovesTo
<1>8. /\ Handling' /\ Mutex'
      /\ \A u \in Tasks \ {t} : ~InM(u)' /\ ~InM(u)
      /\ \A u \in Tasks \ {t} : task'[u] = task[u]
  BY <1>1, <1>2, <1>3, StaysInside DEF InManager, PC
<1>9. \A l \in Keys : /\ pending'[l] # None <=> pending[l] # None
                      /\ pending'[l] # None => pending'[l].id = pending[l].id
  BY <1>1, <1>5 DEF Entry
<1>10. Fresh'
  BY <1>2, <1>3, <1>8, <1>9 DEF Fresh, Unopened, MovesTo
<1>11. Keyed'
  <2>1. \A l \in Keys \ {k} : pending[l] # None => pending[l].id # e.id
    BY <1>1 DEF Keyed, Entry
  <2>2. \A l \in Keys \ {k} : pending[l] # None => pending[l].id \in IncidentIds
    BY DEF TypeOK, Pending
  <2>3. \A l \in Keys : pending'[l] # None => pending'[l].created = pending[l].created
    BY <1>1, <1>5 DEF Entry
  <2>4. \A l \in Keys : pending'[l] # None => pending'[l].score = peak'[pending'[l].id]
    BY <1>1, <1>5, <1>6, <2>1, <2>2 DEF Keyed
  <2> QED BY <1>3, <1>9, <2>3, <2>4 DEF Keyed, TypeOK
<1>12. Entries'
  BY <1>2, <1>3, <1>5, <1>8 DEF Entries, Entry, MovesTo, InM, InManager, PC
<1> QED BY <1>7, <1>8, <1>10, <1>11, <1>12

\* An update of the row of the entry; Finalize, which comes with it, knows that
\* the window is over.
LEMMA BaseUpdate ==
  ASSUME Base, NEW t \in Tasks, InM(t), Entry(t) # None, NEW r,
         incident[Entry(t).id] # None => r \in Row,
         NEW s \in {"status", "unlock", "open"}, MovesTo(t, s), Changes(Entry(t).id, r),
         s = "status" => Entry(t).score >= Critical,
         s = "open" => now - Entry(t).created > Window /\ task[t].pc = "file",
         UNCHANGED <<now, holder, pending, eventRow, detRow, batches, crashes, peak, keyOf>>
  PROVE  Base'
<1> USE DEF Base
<1>1. Entry(t).id \in IncidentIds /\ task[t].key \in Keys
  BY EntryIsPending DEF InM, InManager
<1>2. /\ Handling' /\ Mutex'
      /\ \A u \in Tasks \ {t} : ~InM(u)' /\ ~InM(u)
      /\ \A u \in Tasks \ {t} : task'[u] = task[u]
  BY StaysInside DEF InManager, PC
<1>3. TypeOK'
  BY <1>1 DEF TypeOK, MovesTo, Changes
<1>4. \A i \in IncidentIds : incident[i] = None => incident'[i] = None
  BY <1>1 DEF Changes
<1>5. \A i \in IncidentIds : Unopened(i) => Unopened(i)'
  BY <1>4 DEF Unopened
<1>6. Fresh'
  <2>1. \A i \in IncidentIds : i > batches' => Unopened(i)'
    BY <1>5 DEF Fresh
  <2>2. \A u \in Tasks : task[u].pc # "idle" => task[u].batch \in IncidentIds
    BY BatchIs DEF IncidentIds
  <2>3. ASSUME NEW u \in Tasks, task'[u].pc \in {"save_event", "save_dets", "lock", "file", "open"}
        PROVE  Unopened(task[u].batch)' /\ task'[u].batch = task[u].batch
    <3>1. task[u].pc \in {"save_event", "save_dets", "lock", "file", "open"} /\ task'[u].batch = task[u].batch
      BY <1>2, <2>3 DEF MovesTo
    <3>2. Unopened(task[u].batch) /\ task[u].batch \in IncidentIds
      BY <2>2, <3>1 DEF Fresh
    <3> QED BY <1>5, <3>1, <3>2
  <2> QED BY <2>1, <2>3 DEF Fresh, Unopened
<1>7. Keyed'
  BY DEF Keyed
<1>8. Entries'
  BY <1>2 DEF Entries, Entry, MovesTo, InM, InManager, PC
<1> QED BY <1>2, <1>3, <1>6, <1>7, <1>8

\* The three updates, with what they write.
LEMMA ScoreEffect ==
  ASSUME Base, NEW t \in Tasks, UpdateScore(t)
  PROVE  LET e == Entry(t)
             r == [incident[e.id] EXCEPT !.score = e.score]
         IN /\ task[t].pc = "score" /\ e # None /\ InM(t)
            /\ incident[e.id] # None =>
                 r \in Row /\ r.score = e.score /\ r.status = incident[e.id].status
                           /\ r.created = incident[e.id].created
            /\ Changes(e.id, r)
            /\ MovesTo(t, IF e.score >= Critical THEN "status" ELSE "unlock")
<1> DEFINE e == Entry(t)
           r == [incident[e.id] EXCEPT !.score = e.score]
<1>1. task[t].pc = "score" /\ e # None /\ InM(t)
  BY DEF UpdateScore, At, Base, Entries, InM, InManager, PC
<1>2. e.id \in IncidentIds /\ e.score \in Nat
  BY <1>1, EntryIsPending
<1>3. incident[e.id] # None => incident[e.id] \in Row
  BY <1>2 DEF Base, TypeOK
<1>4. incident[e.id] # None =>
        r \in Row /\ r.score = e.score /\ r.status = incident[e.id].status
                  /\ r.created = incident[e.id].created
  BY <1>2, <1>3 DEF Row
<1>5. Update(t, e.id, r, IF e.score >= Critical THEN "status" ELSE "unlock")
  BY DEF UpdateScore
<1>6. (IF e.score >= Critical THEN "status" ELSE "unlock") \in PC
  BY DEF PC
<1> HIDE DEF r
<1>7. Changes(e.id, r) /\ MovesTo(t, IF e.score >= Critical THEN "status" ELSE "unlock")
  BY <1>2, <1>4, <1>5, <1>6, UpdateEffect DEF Base
<1> QED BY <1>1, <1>4, <1>7 DEF r

LEMMA StatusEffect ==
  ASSUME Base, NEW t \in Tasks, UpdateStatus(t)
  PROVE  LET e == Entry(t)
             r == [incident[e.id] EXCEPT !.status = "Investigating"]
         IN /\ task[t].pc = "status" /\ e # None /\ InM(t) /\ e.score >= Critical
            /\ incident[e.id] # None =>
                 r \in Row /\ r.score = incident[e.id].score /\ r.status = "Investigating"
                           /\ r.created = incident[e.id].created
            /\ Changes(e.id, r)
            /\ MovesTo(t, "unlock")
<1> DEFINE e == Entry(t)
           r == [incident[e.id] EXCEPT !.status = "Investigating"]
<1>1. task[t].pc = "status" /\ e # None /\ InM(t) /\ e.score >= Critical
  BY DEF UpdateStatus, At, Base, Entries, InM, InManager, PC
<1>2. e.id \in IncidentIds
  BY <1>1, EntryIsPending
<1>3. incident[e.id] # None => incident[e.id] \in Row
  BY <1>2 DEF Base, TypeOK
<1>4. incident[e.id] # None =>
        r \in Row /\ r.score = incident[e.id].score /\ r.status = "Investigating"
                  /\ r.created = incident[e.id].created
  BY <1>3 DEF Row, OpenStatus
<1>5. Update(t, e.id, r, "unlock") /\ "unlock" \in PC
  BY DEF UpdateStatus, PC
<1> HIDE DEF r
<1>6. Changes(e.id, r) /\ MovesTo(t, "unlock")
  BY <1>2, <1>4, <1>5, UpdateEffect DEF Base
<1> QED BY <1>1, <1>4, <1>6 DEF r

VerdictOn(e) == IF e.score >= Critical THEN "Resolved" ELSE "FalsePositive"
LEMMA FinalizeEffect ==
  ASSUME Base, NEW t \in Tasks, Finalize(t)
  PROVE  LET e == Entry(t)
             r == [incident[e.id] EXCEPT !.status = VerdictOn(e)]
         IN /\ task[t].pc = "file" /\ e # None /\ InM(t) /\ now - e.created > Window
            /\ incident[e.id] # None =>
                 r \in Row /\ r.score = incident[e.id].score /\ r.status = VerdictOn(e)
                           /\ r.created = incident[e.id].created
            /\ Changes(e.id, r)
            /\ MovesTo(t, "open")
<1> DEFINE e == Entry(t)
           r == [incident[e.id] EXCEPT !.status = VerdictOn(e)]
<1>1. task[t].pc = "file" /\ e # None /\ InM(t)
  BY DEF Finalize, At, InM, InManager, PC
<1>2. e.id \in IncidentIds /\ e.created \in Nat
  BY <1>1, EntryIsPending
<1>3. now - e.created > Window
  BY <1>2, IncidentsAssumption DEF Finalize, InWindow, Base, TypeOK
<1>4. incident[e.id] # None => incident[e.id] \in Row
  BY <1>2 DEF Base, TypeOK
<1>5. incident[e.id] # None =>
        r \in Row /\ r.score = incident[e.id].score /\ r.status = VerdictOn(e)
                  /\ r.created = incident[e.id].created
  BY <1>4 DEF Row, FinalStatus, VerdictOn
<1>6. Update(t, e.id, r, "open") /\ "open" \in PC
  BY DEF Finalize, PC, VerdictOn
<1> HIDE DEF r
<1>7. Changes(e.id, r) /\ MovesTo(t, "open")
  BY <1>2, <1>5, <1>6, UpdateEffect DEF Base
<1> QED BY <1>1, <1>3, <1>5, <1>7 DEF r

LEMMA BaseUpdates ==
  ASSUME Base, NEW t \in Tasks, UpdateScore(t) \/ UpdateStatus(t) \/ Finalize(t)
  PROVE  Base'
<1>1. CASE UpdateScore(t)
  <2>1. UNCHANGED <<now, holder, pending, eventRow, detRow, batches, crashes, peak, keyOf>>
    BY <1>1 DEF UpdateScore
  <2> QED BY <1>1, <2>1, ScoreEffect, BaseUpdate
<1>2. CASE UpdateStatus(t)
  <2>1. UNCHANGED <<now, holder, pending, eventRow, detRow, batches, crashes, peak, keyOf>>
    BY <1>2 DEF UpdateStatus
  <2> QED BY <1>2, <2>1, StatusEffect, BaseUpdate
<1>3. CASE Finalize(t)
  <2>1. UNCHANGED <<now, holder, pending, eventRow, detRow, batches, crashes, peak, keyOf>>
    BY <1>3 DEF Finalize
  <2> QED BY <1>3, <2>1, FinalizeEffect, BaseUpdate
<1> QED BY <1>1, <1>2, <1>3

\* A new incident takes an id nobody has used.
LEMMA OpenEffect ==
  ASSUME Base, NEW t \in Tasks, Open(t)
  PROVE  LET b == task[t].batch
             k == task[t].key
         IN /\ InM(t) /\ b \in IncidentIds /\ k \in Keys /\ Unopened(b)
            /\ task[t].pc \in {"file", "open"} /\ (task[t].pc = "file" => pending[k] = None)
            /\ MovesTo(t, "insert")
            /\ pending' \in [Keys -> Pending \cup {None}]
            /\ pending'[k] # None /\ pending'[k].id = b /\ pending'[k].created = now
            /\ pending'[k].score = task[t].score
            /\ \A l \in Keys \ {k} : pending'[l] = pending[l]
            /\ peak' \in [IncidentIds -> Nat] /\ peak'[b] = task[t].score
            /\ \A i \in IncidentIds \ {b} : peak'[i] = peak[i]
            /\ keyOf' \in [IncidentIds -> Keys \cup {None}] /\ keyOf'[b] = k
            /\ \A i \in IncidentIds \ {b} : keyOf'[i] = keyOf[i]
<1> DEFINE b == task[t].batch
           k == task[t].key
           p == [id |-> b, created |-> now, score |-> task[t].score]
<1>1. task[t].pc \in {"file", "open"} /\ InM(t) /\ (task[t].pc = "file" => Entry(t) = None)
  BY DEF Open, At, InM, InManager, PC
<1>2. b \in IncidentIds /\ k \in Keys /\ task[t].score \in Nat /\ now \in Nat
  BY <1>1, BatchIs, IncidentsAssumption DEF IncidentIds, Base, TypeOK
<1>3. Unopened(b)
  BY <1>1 DEF Base, Fresh
<1>4. MovesTo(t, "insert")
  BY GotoEffect DEF Open, PC, Base
<1>5. p \in Pending /\ p # None
  BY <1>2, IncidentsAssumption DEF Pending
<1>6. /\ pending' = [pending EXCEPT ![k] = p]
      /\ peak' = [peak EXCEPT ![b] = task[t].score]
      /\ keyOf' = [keyOf EXCEPT ![b] = k]
  BY DEF Open
<1>7. /\ pending' \in [Keys -> Pending \cup {None}] /\ pending'[k] = p
      /\ \A l \in Keys \ {k} : pending'[l] = pending[l]
      /\ peak' \in [IncidentIds -> Nat] /\ peak'[b] = task[t].score
      /\ \A i \in IncidentIds \ {b} : peak'[i] = peak[i]
      /\ keyOf' \in [IncidentIds -> Keys \cup {None}] /\ keyOf'[b] = k
      /\ \A i \in IncidentIds \ {b} : keyOf'[i] = keyOf[i]
  BY <1>2, <1>5, <1>6 DEF Base, TypeOK
<1> QED BY <1>1, <1>2, <1>3, <1>4, <1>5, <1>7 DEF Entry

LEMMA BaseOpen ==
  ASSUME Base, NEW t \in Tasks, Open(t)
  PROVE  Base'
<1> USE DEF Base
<1> DEFINE b == task[t].batch
           k == task[t].key
<1>1. /\ InM(t) /\ b \in IncidentIds /\ k \in Keys /\ Unopened(b)
      /\ task[t].pc \in {"file", "open"} /\ (task[t].pc = "file" => pending[k] = None)
      /\ MovesTo(t, "insert")
      /\ pending' \in [Keys -> Pending \cup {None}]
      /\ pending'[k] # None /\ pending'[k].id = b /\ pending'[k].created = now
      /\ pending'[k].score = task[t].score
      /\ \A l \in Keys \ {k} : pending'[l] = pending[l]
      /\ peak' \in [IncidentIds -> Nat] /\ peak'[b] = task[t].score
      /\ \A i \in IncidentIds \ {b} : peak'[i] = peak[i]
      /\ keyOf' \in [IncidentIds -> Keys \cup {None}] /\ keyOf'[b] = k
      /\ \A i \in IncidentIds \ {b} : keyOf'[i] = keyOf[i]
  BY OpenEffect
<1>2. UNCHANGED <<now, holder, incident, eventRow, detRow, batches, faults, crashes, dirty>>
  BY DEF Open, tables
<1>3. /\ Handling' /\ Mutex'
      /\ \A u \in Tasks \ {t} : ~InM(u)' /\ ~InM(u)
      /\ \A u \in Tasks \ {t} : task'[u] = task[u]
  BY <1>1, <1>2, StaysInside DEF InManager, PC
<1>4. TypeOK'
  BY <1>1, <1>2 DEF TypeOK, MovesTo
<1>5. b <= batches /\ b \in Nat /\ batches \in Nat
  BY <1>1, IncidentsAssumption DEF Handling, InM, InManager, TypeOK
<1>6. \A i \in IncidentIds : Unopened(i) /\ i # b => Unopened(i)'
  BY <1>1, <1>2 DEF Unopened
<1>7. Fresh'
  <2>1. \A i \in IncidentIds : i > batches => i # b
    BY <1>5 DEF IncidentIds, Batches
  <2>2. ASSUME NEW u \in Tasks, task'[u].pc \in {"save_event", "save_dets", "lock", "file", "open"}
        PROVE  Unopened(task[u].batch)' /\ task'[u].batch = task[u].batch
    <3>1. u # t /\ task'[u] = task[u] /\ task[u].pc # "idle" /\ task[t].pc # "idle"
      BY <1>1, <1>3, <2>2 DEF MovesTo
    <3>2. task[u].batch \in IncidentIds /\ task[u].batch # b
      BY <3>1, BatchIs DEF Handling, IncidentIds
    <3>3. Unopened(task[u].batch)
      BY <2>2, <3>1 DEF Fresh
    <3> QED BY <1>6, <3>1, <3>2, <3>3
  <2>3. \A i \in IncidentIds : i > batches' => Unopened(i)'
    BY <1>2, <1>6, <2>1 DEF Fresh
  <2> QED BY <2>2, <2>3 DEF Fresh, Unopened
<1>8. Keyed'
  <2>1. \A l \in Keys \ {k} : pending[l] # None => pending[l].id \in IncidentIds \ {b}
    BY <1>1 DEF Unopened, TypeOK, Pending
  <2>2. \A l \in Keys : pending'[l] # None =>
          /\ keyOf'[pending'[l].id] = l /\ pending'[l].score = peak'[pending'[l].id]
          /\ pending'[l].created <= now
    <3>1. now <= now
      BY IncidentsAssumption DEF TypeOK
    <3> QED BY <1>1, <2>1, <3>1 DEF Keyed
  <2>3. \A i \in IncidentIds : keyOf'[i] # None => pending'[keyOf'[i]] # None
    BY <1>1 DEF Keyed, TypeOK
  <2> QED BY <1>2, <2>2, <2>3 DEF Keyed
<1>9. Entries'
  BY <1>1, <1>2, <1>3 DEF Entries, Entry, MovesTo, InM, InManager, PC, Unopened
<1> QED BY <1>3, <1>4, <1>7, <1>8, <1>9

\* The row of a new incident, or none and nothing after it.
LEMMA InsertEffect ==
  ASSUME Base, NEW t \in Tasks, InsertIncident(t)
  PROVE  LET e == Entry(t)
         IN /\ task[t].pc = "insert" /\ e # None /\ InM(t) /\ incident[e.id] = None
            /\ incident' \in [IncidentIds -> Row \cup {None}]
            /\ \A j \in IncidentIds \ {e.id} : incident'[j] = incident[j]
            /\ dirty \subseteq dirty' /\ dirty' \subseteq dirty \cup {e.id}
            /\ faults' \in 0..MaxFaults
            /\ \/ /\ MovesTo(t, "insert_event")
                  /\ incident'[e.id] # None
                  /\ incident'[e.id].status = IF e.score >= Critical THEN "Investigating" ELSE "Open"
                  /\ incident'[e.id].score = e.score /\ incident'[e.id].created = e.created
               \/ MovesTo(t, "unlock") /\ e.id \in dirty' /\ incident'[e.id] = None
<1> DEFINE e == Entry(t)
           r == [status |-> IF e.score >= Critical THEN "Investigating" ELSE "Open",
                 score |-> e.score, created |-> e.created]
<1>1. task[t].pc = "insert" /\ e # None /\ InM(t) /\ incident[e.id] = None
  BY DEF InsertIncident, At, Base, Entries, InM, InManager, PC
<1>2. e.id \in IncidentIds /\ e.score \in Nat /\ e.created \in Nat
  BY <1>1, EntryIsPending
<1>3. r \in Row /\ r # None
  BY <1>2, IncidentsAssumption DEF Row, OpenStatus
<1>4. CASE incident' = [incident EXCEPT ![e.id] = r] /\ Goto(t, "insert_event")
           /\ UNCHANGED <<faults, dirty>>
  <2>1. MovesTo(t, "insert_event")
    BY <1>4, GotoEffect DEF PC, Base
  <2> QED BY <1>1, <1>2, <1>3, <1>4, <2>1 DEF Base, TypeOK
<1>5. CASE /\ faults < MaxFaults /\ faults' = faults + 1 /\ dirty' = dirty \cup {e.id}
           /\ Goto(t, "unlock") /\ UNCHANGED incident
  <2>1. MovesTo(t, "unlock")
    BY <1>5, GotoEffect DEF PC, Base
  <2> QED BY <1>1, <1>2, <1>5, <2>1, IncidentsAssumption DEF Base, TypeOK
<1> QED BY <1>4, <1>5 DEF InsertIncident

LEMMA BaseInsert ==
  ASSUME Base, NEW t \in Tasks, InsertIncident(t)
  PROVE  Base'
<1> USE DEF Base
<1> DEFINE e == Entry(t)
<1>1. /\ task[t].pc = "insert" /\ e # None /\ InM(t) /\ incident[e.id] = None
      /\ incident' \in [IncidentIds -> Row \cup {None}]
      /\ \A j \in IncidentIds \ {e.id} : incident'[j] = incident[j]
      /\ dirty' \subseteq dirty \cup {e.id}
      /\ faults' \in 0..MaxFaults
      /\ \/ MovesTo(t, "insert_event") /\ incident'[e.id] # None
         \/ MovesTo(t, "unlock")
  BY InsertEffect
<1>2. UNCHANGED <<now, holder, pending, eventRow, detRow, batches, crashes, peak, keyOf>>
  BY DEF InsertIncident
<1>3. e.id \in IncidentIds /\ task[t].key \in Keys
  BY <1>1, EntryIsPending
<1>4. /\ Handling' /\ Mutex'
      /\ \A u \in Tasks \ {t} : ~InM(u)' /\ ~InM(u)
      /\ \A u \in Tasks \ {t} : task'[u] = task[u]
  BY <1>1, <1>2, StaysInside DEF InManager, PC
<1>5. TypeOK'
  BY <1>1, <1>2, <1>3 DEF TypeOK, MovesTo
<1>6. \A i \in IncidentIds : Unopened(i) => Unopened(i)'
  BY <1>1, <1>2, <1>3 DEF Unopened, Entry
<1>7. \A u \in Tasks : task[u].pc # "idle" => task[u].batch \in IncidentIds
  BY BatchIs DEF IncidentIds
<1>8. Fresh'
  <2>1. ASSUME NEW u \in Tasks, task'[u].pc \in {"save_event", "save_dets", "lock", "file", "open"}
        PROVE  Unopened(task[u].batch)' /\ task'[u].batch = task[u].batch
    <3>1. task[u].pc \in {"save_event", "save_dets", "lock", "file", "open"} /\ task'[u].batch = task[u].batch
      BY <1>1, <1>4, <2>1 DEF MovesTo
    <3> QED BY <1>6, <1>7, <3>1 DEF Fresh
  <2>2. \A i \in IncidentIds : i > batches' => Unopened(i)'
    BY <1>2, <1>6 DEF Fresh
  <2> QED BY <2>1, <2>2 DEF Fresh, Unopened
<1>9. Keyed'
  BY <1>2 DEF Keyed
<1>10. Entries'
  BY <1>1, <1>2, <1>4 DEF Entries, Entry, MovesTo, InM, InManager, PC
<1> QED BY <1>4, <1>5, <1>8, <1>9, <1>10

LEMMA BaseLinked ==
  ASSUME Base, NEW t \in Tasks, InsertLinkedEvent(t)
  PROVE  Base'
<1> USE DEF Base
<1>1. task[t].pc = "insert_event" /\ InM(t) /\ Entry(t) # None
  BY DEF InsertLinkedEvent, At, Entries, InM, InManager, PC
<1>2. Entry(t).id \in IncidentIds /\ task[t].batch \in Batches
  BY <1>1, EntryIsPending, BatchIs
<1>3. /\ MovesTo(t, "unlock") /\ faults' \in 0..MaxFaults
      /\ eventRow' \in [Batches -> {None, NoIncident} \cup IncidentIds]
  BY <1>2, InsertEventEffect DEF InsertLinkedEvent, PC
<1>4. UNCHANGED <<now, holder, pending, incident, detRow, batches, crashes, history>>
  BY DEF InsertLinkedEvent
<1>5. /\ Handling' /\ Mutex'
      /\ \A u \in Tasks \ {t} : ~InM(u)' /\ ~InM(u)
      /\ \A u \in Tasks \ {t} : task'[u] = task[u]
  BY <1>1, <1>3, <1>4, StaysInside DEF InManager, PC
<1>6. TypeOK'
  BY <1>3, <1>4 DEF TypeOK, MovesTo, history
<1>7. Fresh' /\ Keyed'
  BY <1>1, <1>3, <1>4, <1>5 DEF Fresh, Unopened, Keyed, MovesTo, history
<1>8. Entries'
  BY <1>1, <1>3, <1>4, <1>5 DEF Entries, Entry, MovesTo, InM, InManager, PC
<1> QED BY <1>5, <1>6, <1>7, <1>8

LEMMA BaseUnlock ==
  ASSUME Base, NEW t \in Tasks, Unlock(t)
  PROVE  Base'
<1> USE DEF Base
<1>1. /\ task[t].pc = "unlock" /\ InM(t) /\ holder' = None
      /\ task' \in [Tasks -> Task] /\ task'[t] = Idle /\ \A u \in Tasks \ {t} : task'[u] = task[u]
      /\ UNCHANGED <<now, pending, incident, eventRow, detRow, batches, faults, crashes, peak, keyOf, dirty>>
  BY IdleIsTask DEF Unlock, At, InM, InManager, PC, TypeOK, tables, history
<1>2. \A u \in Tasks \ {t} : ~InM(u)
  BY <1>1, Alone
<1>3. TypeOK' /\ Handling' /\ Keyed'
  BY <1>1, IdleIsTask DEF TypeOK, Handling, Keyed
<1>4. Mutex' /\ Fresh' /\ Entries'
  BY <1>1, <1>2, IdleIsTask DEF Mutex, InM, InManager, Fresh, Unopened, Entries, Entry
<1> QED BY <1>3, <1>4

LEMMA BaseTick == Base /\ Tick => Base'
<1> SUFFICES ASSUME Base, Tick PROVE Base'
  OBVIOUS
<1> USE DEF Base
<1>1. /\ now' \in 0..MaxTime /\ now' = now + 1 /\ now \in Nat
      /\ UNCHANGED <<task, holder, pending, incident, eventRow, detRow, batches, faults, crashes, peak, keyOf, dirty>>
  BY IncidentsAssumption DEF Tick, TypeOK, tables, history
<1>2. TypeOK' /\ Handling' /\ Mutex' /\ Fresh'
  BY <1>1 DEF TypeOK, Handling, Mutex, InM, Fresh, Unopened
<1>3. \A k \in Keys : pending[k] # None => pending[k].created \in Nat
  BY DEF TypeOK, Pending
<1>4. Keyed'
  BY <1>1, <1>3 DEF Keyed
<1>5. \A t \in Tasks : task[t].pc = "open" => Entry(t) # None /\ Entry(t).created \in Nat
  BY EntryIsPending DEF Entries
<1>6. ASSUME NEW t \in Tasks, task[t].pc = "open"
      PROVE  now' - Entry(t).created > Window
  BY <1>1, <1>5, <1>6, IncidentsAssumption DEF Entries
<1>7. Entries'
  BY <1>1, <1>6 DEF Entries, Entry
<1> QED BY <1>2, <1>4, <1>7

LEMMA BaseRestart == Base /\ Restart => Base'
<1> SUFFICES ASSUME Base, Restart PROVE Base'
  OBVIOUS
<1> USE DEF Base
<1>1. crashes' \in 0..MaxCrashes
  BY IncidentsAssumption DEF Restart, TypeOK
<1>2. /\ task' = [t \in Tasks |-> Idle] /\ holder' = None
      /\ pending' = [k \in Keys |-> None] /\ keyOf' = [i \in IncidentIds |-> None]
      /\ UNCHANGED <<now, incident, eventRow, detRow, batches, faults, peak, dirty>>
  BY DEF Restart, tables
<1>3. TypeOK'
  BY <1>1, <1>2, IdleIsTask DEF TypeOK
<1>4. Handling' /\ Mutex' /\ Entries' /\ Keyed'
  BY <1>2, IdleIsTask DEF Handling, Mutex, InM, InManager, Entries, Keyed, TypeOK
<1>5. Fresh'
  BY <1>2, IdleIsTask DEF Fresh, Unopened
<1> QED BY <1>3, <1>4, <1>5

LEMMA BaseNext == Base /\ [Next]_vars => Base'
<1> SUFFICES ASSUME Base, [Next]_vars PROVE Base'
  OBVIOUS
<1>1. ASSUME NEW t \in Tasks, Manage(t) PROVE Base'
  BY <1>1, BaseJoin, BaseUpdates, BaseOpen, BaseInsert, BaseLinked, BaseUnlock DEF Manage
<1>2. CASE UNCHANGED vars
  BY <1>2 DEF vars, Base, TypeOK, Handling, Mutex, InM, Fresh, Unopened, Keyed, Entries, Entry
<1> QED BY <1>1, <1>2, BaseDetect, BaseOutside, BaseTick, BaseRestart DEF Next

LEMMA BaseHolds == Spec => []Base
BY BaseInit, BaseNext, PTL DEF Spec

\* The incident manager, its tables and its history keep their types: every
\* statement finds the entry and the row it is about where the code expects it.
THEOREM IncidentTypes == Spec => []TypeOK
<1>1. Base => TypeOK
  BY DEF Base
<1> QED BY <1>1, BaseHolds, PTL

---------------------------------------------------------------------------
(* The steps that a property can tell apart                                *)

\* A step outside the critical part of the manager.
Busy(t) == task[t].pc \in {"score", "status", "open", "insert"}
Quiet ==
  /\ UNCHANGED <<incident, pending, keyOf, peak, dirty>>
  /\ now' \in Int /\ now' >= now
  /\ \A t \in Tasks : Busy(t) \/ Busy(t)' => task'[t] = task[t]

LEMMA QuietSteps ==
  ASSUME Base, NEW t \in Tasks,
         \/ \E k \in Keys, s \in Scores : Detect(t, k, s)
         \/ SaveEvent(t) \/ SaveDetections(t) \/ Lock(t) \/ InsertLinkedEvent(t) \/ Unlock(t)
  PROVE  Quiet
<1> USE DEF Base
<1>0. now \in Nat
  BY IncidentsAssumption DEF TypeOK
<1>1. ASSUME NEW s \in {"save_dets", "lock", "file", "unlock"}, MovesTo(t, s), ~Busy(t)
      PROVE  \A u \in Tasks : Busy(u) \/ Busy(u)' => task'[u] = task[u]
  BY <1>1 DEF MovesTo, Busy
<1>2. ASSUME NEW k \in Keys, NEW s \in Scores, Detect(t, k, s) PROVE Quiet
  <2>1. \A u \in Tasks \ {t} : task'[u] = task[u]
    BY <1>2 DEF Detect, TypeOK
  <2>2. ~Busy(t) /\ ~Busy(t)'
    BY <1>2 DEF Detect, At, Busy, TypeOK
  <2> QED BY <1>0, <1>2, <2>1, <2>2 DEF Detect, Quiet, tables, history
<1>3. CASE SaveEvent(t)
  <2>1. MovesTo(t, "save_dets")
    BY <1>3, GotoEffect DEF SaveEvent, InsertEvent, PC
  <2> QED BY <1>0, <1>1, <1>3, <2>1 DEF SaveEvent, At, Busy, Quiet, history
<1>4. CASE SaveDetections(t)
  <2>1. MovesTo(t, "lock")
    BY <1>4, GotoEffect DEF SaveDetections, PC
  <2> QED BY <1>0, <1>1, <1>4, <2>1 DEF SaveDetections, At, Busy, Quiet, history
<1>5. CASE Lock(t)
  <2>1. MovesTo(t, "file")
    BY <1>5, GotoEffect DEF Lock, PC
  <2> QED BY <1>0, <1>1, <1>5, <2>1 DEF Lock, At, Busy, Quiet, tables, history
<1>6. CASE InsertLinkedEvent(t)
  <2>1. MovesTo(t, "unlock")
    BY <1>6, GotoEffect DEF InsertLinkedEvent, InsertEvent, PC
  <2> QED BY <1>0, <1>1, <1>6, <2>1 DEF InsertLinkedEvent, At, Busy, Quiet, history
<1>7. CASE Unlock(t)
  <2>1. task'[t] = Idle /\ \A u \in Tasks \ {t} : task'[u] = task[u]
    BY <1>7 DEF Unlock, TypeOK
  <2>2. ~Busy(t) /\ ~Busy(t)'
    BY <1>7, <2>1 DEF Unlock, At, Busy, Idle
  <2> QED BY <1>0, <1>7, <2>1, <2>2 DEF Unlock, Quiet, tables, history
<1> QED BY <1>2, <1>3, <1>4, <1>5, <1>6, <1>7

LEMMA QuietTick == Base /\ Tick => Quiet
BY IncidentsAssumption DEF Base, TypeOK, Tick, Quiet, Busy, tables, history

LEMMA QuietStutter == Base /\ UNCHANGED vars => Quiet
BY IncidentsAssumption DEF Base, TypeOK, vars, Quiet, Busy

\* A step is quiet or one of these.
Busies(t) ==
  Join(t) \/ UpdateScore(t) \/ UpdateStatus(t) \/ Finalize(t) \/ Open(t) \/ InsertIncident(t)

LEMMA Steps ==
  ASSUME Base, [Next]_vars
  PROVE  Quiet \/ Restart \/ \E t \in Tasks : Busies(t)
BY QuietSteps, QuietTick, QuietStutter DEF Next, Manage, Busies

LEMMA JoinEffect ==
  ASSUME Base, NEW t \in Tasks, Join(t)
  PROVE  LET e == Entry(t)
             k == task[t].key
         IN /\ task[t].pc = "file" /\ InM(t) /\ e # None
            /\ k \in Keys /\ e.id \in IncidentIds /\ e.score \in Nat
            /\ MovesTo(t, "score")
            /\ pending'[k] # None /\ pending'[k].id = e.id /\ pending'[k].created = e.created
            /\ pending'[k].score \in Nat /\ pending'[k].score >= e.score
            /\ \A l \in Keys \ {k} : pending'[l] = pending[l]
            /\ peak'[e.id] \in Nat /\ peak'[e.id] >= peak[e.id]
            /\ \A i \in IncidentIds \ {e.id} : peak'[i] = peak[i]
            /\ UNCHANGED <<now, incident, keyOf, dirty>>
<1> USE DEF Base
<1> DEFINE e == Entry(t)
           k == task[t].key
           new == Higher(e.score, task[t].score)
<1>1. /\ task[t].pc = "file" /\ e # None /\ InM(t)
      /\ e \in Pending /\ k \in Keys /\ e.id \in IncidentIds /\ e.score \in Nat
      /\ new \in Nat /\ new >= e.score
  BY EntryIsPending, BatchIs, HigherIs DEF Join, At, InM, InManager, PC
<1>2. MovesTo(t, "score")
  BY GotoEffect DEF Join, PC
<1>3. /\ pending' = [pending EXCEPT ![k] = [e EXCEPT !.score = new]]
      /\ peak' = [peak EXCEPT ![e.id] = Higher(peak[e.id], task[t].score)]
      /\ UNCHANGED <<now, incident, keyOf, dirty>>
  BY <1>1 DEF Join, Entry, tables
<1>4. [e EXCEPT !.score = new] \in Pending /\ [e EXCEPT !.score = new] # None
  BY <1>1, IncidentsAssumption DEF Pending
<1>5. /\ pending'[k] # None /\ pending'[k].id = e.id /\ pending'[k].created = e.created
      /\ pending'[k].score = new
      /\ \A l \in Keys \ {k} : pending'[l] = pending[l]
  BY <1>1, <1>3, <1>4 DEF TypeOK, Pending
<1>6. /\ peak'[e.id] = Higher(peak[e.id], task[t].score) /\ peak[e.id] \in Nat
      /\ \A i \in IncidentIds \ {e.id} : peak'[i] = peak[i]
  BY <1>1, <1>3 DEF TypeOK
<1>7. peak'[e.id] \in Nat /\ peak'[e.id] >= peak[e.id]
  BY <1>1, <1>6, BatchIs, HigherIs
<1> QED BY <1>1, <1>2, <1>3, <1>5, <1>6, <1>7

---------------------------------------------------------------------------
(* LinkTarget                                                              *)

LEMMA RowsStay ==
  ASSUME Base, [Next]_vars, NEW i \in IncidentIds, incident[i] # None
  PROVE  incident'[i] # None
<1>1. None \notin Row
  BY IncidentsAssumption
<1>2. ASSUME NEW t \in Tasks, UpdateScore(t) PROVE incident'[i] # None
  BY <1>1, <1>2, ScoreEffect DEF Changes
<1>3. ASSUME NEW t \in Tasks, UpdateStatus(t) PROVE incident'[i] # None
  BY <1>1, <1>3, StatusEffect DEF Changes
<1>4. ASSUME NEW t \in Tasks, Finalize(t) PROVE incident'[i] # None
  BY <1>1, <1>4, FinalizeEffect DEF Changes
<1>5. ASSUME NEW t \in Tasks, InsertIncident(t) PROVE incident'[i] # None
  BY <1>5, InsertEffect
<1> QED BY <1>2, <1>3, <1>4, <1>5, Steps DEF Busies, Quiet, Restart, Join, Open, tables

LEMMA LinksStep ==
  ASSUME Base, LinkTarget, [Next]_vars
  PROVE  LinkTarget'
<1>0. NoIncident \notin IncidentIds /\ None \notin IncidentIds
  BY IncidentsAssumption DEF NoIncident, IncidentIds, Batches
<1>1. SUFFICES ASSUME NEW b \in Batches, eventRow'[b] \in IncidentIds, eventRow'[b] # eventRow[b]
               PROVE  incident[eventRow'[b]] # None
  BY RowsStay DEF LinkTarget
<1>2. ASSUME NEW t \in Tasks, SaveEvent(t) PROVE FALSE
  <2>1. task[t].batch \in Batches
    BY <1>2, BatchIs DEF SaveEvent, At
  <2>2. eventRow'[b] \in {eventRow[b], NoIncident}
    BY <1>2, <2>1, InsertEventEffect DEF SaveEvent, PC, Base
  <2> QED BY <1>0, <1>1, <2>2
<1>3. ASSUME NEW t \in Tasks, InsertLinkedEvent(t) PROVE incident[eventRow'[b]] # None
  <2>1. task[t].pc = "insert_event" /\ Entry(t) # None /\ incident[Entry(t).id] # None
    BY <1>3 DEF InsertLinkedEvent, At, Base, Entries
  <2>2. Entry(t).id \in IncidentIds /\ task[t].batch \in Batches
    BY <2>1, EntryIsPending, BatchIs
  <2>3. eventRow'[b] \in {eventRow[b], Entry(t).id}
    BY <1>3, <2>2, InsertEventEffect DEF InsertLinkedEvent, PC, Base
  <2> QED BY <1>1, <2>1, <2>3
<1> QED BY <1>1, <1>2, <1>3
        DEF Next, Manage, Detect, SaveDetections, Lock, Unlock, Join, UpdateScore, UpdateStatus,
            Finalize, Open, InsertIncident, Tick, Restart, vars, tables

\* No event is written with the id of an incident that the incidents table does
\* not have: persist_incident stops when the insert of the incident fails.
THEOREM LinksHaveTargets == Spec => []LinkTarget
<1>1. Init => LinkTarget
  BY IncidentsAssumption DEF Init, LinkTarget, IncidentIds, Batches
<1>2. Base /\ LinkTarget /\ [Next]_vars => LinkTarget'
  BY LinksStep
<1> QED BY <1>1, <1>2, BaseHolds, PTL DEF Spec

---------------------------------------------------------------------------
(* Verdict and Frozen                                                      *)

\* A row that has its verdict is remembered by the manager only while the task
\* that closed it is about to open the next one.
IsFinal(i) == incident[i] # None /\ incident[i].status \in FinalStatus
Final ==
  \A k \in Keys : pending[k] # None /\ IsFinal(pending[k].id) =>
    \E t \in Tasks : task[t].pc = "open" /\ task[t].key = k

Judged(i) ==
  incident[i] # None =>
    /\ incident[i].score <= peak[i]
    /\ incident[i].status \in {"Investigating", "Resolved"} => peak[i] >= Critical
    /\ incident[i].status = "FalsePositive" => peak[i] < Critical

LEMMA NotFinal ==
  ASSUME Base, Final, NEW t \in Tasks, InM(t), task[t].pc # "open", Entry(t) # None
  PROVE  ~IsFinal(Entry(t).id)
<1>1. \A u \in Tasks : task[u].pc # "open"
  BY Alone DEF InM, InManager, PC
<1>2. task[t].key \in Keys
  BY EntryIsPending DEF InM, InManager
<1> QED BY <1>1, <1>2 DEF Final, Entry

\* Two keys remember different incidents.
LEMMA Distinct ==
  ASSUME Base, NEW k \in Keys, NEW l \in Keys, pending[k] # None, pending[l] # None,
         pending[k].id = pending[l].id
  PROVE  k = l
BY DEF Base, Keyed

LEMMA PendingId ==
  ASSUME Base, NEW k \in Keys, pending[k] # None
  PROVE  /\ pending[k].id \in IncidentIds /\ pending[k].score \in Nat /\ pending[k].created \in Nat
         /\ keyOf[pending[k].id] = k /\ pending[k].score = peak[pending[k].id]
         /\ pending[k].created <= now
BY DEF Base, TypeOK, Pending, Keyed

LEMMA RowIs ==
  ASSUME Base, NEW i \in IncidentIds
  PROVE  /\ peak[i] \in Nat
         /\ incident[i] # None =>
              incident[i].score \in Nat /\ incident[i].created \in Nat
              /\ incident[i].status \in OpenStatus \cup FinalStatus
BY DEF Base, TypeOK, Row

LEMMA FinalStep ==
  ASSUME Base, Final, [Next]_vars
  PROVE  Final'
<1>1. CASE Quiet
  BY <1>1 DEF Quiet, Final, IsFinal, Busy
<1>2. CASE Restart
  BY <1>2 DEF Restart, Final
<1>3. ASSUME NEW t \in Tasks, Join(t) PROVE Final'
  <2>1. ~IsFinal(Entry(t).id) /\ \A u \in Tasks \ {t} : ~InM(u)
    BY <1>3, JoinEffect, NotFinal, Alone
  <2> QED BY <1>3, <2>1, JoinEffect DEF Final, IsFinal, MovesTo, Entry, InM, InManager, PC
\* An update other than the verdict makes no row final and moves no other task.
<1>4. ASSUME NEW t \in Tasks, InM(t), task[t].pc # "open", NEW r, NEW s, MovesTo(t, s),
             Entry(t) # None, Changes(Entry(t).id, r), UNCHANGED pending,
             incident[Entry(t).id] # None => r.status \in OpenStatus \/ r.status = incident[Entry(t).id].status
      PROVE  Final'
  <2>1. ~IsFinal(Entry(t).id)
    BY <1>4, NotFinal
  <2>2. \A i \in IncidentIds : IsFinal(i)' => IsFinal(i)
    BY <1>4, <2>1 DEF Changes, IsFinal, OpenStatus, FinalStatus
  <2> QED BY <1>4, <2>2, PendingId DEF Final, MovesTo
<1>5. ASSUME NEW t \in Tasks, UpdateScore(t) PROVE Final'
  BY <1>4, <1>5, ScoreEffect DEF UpdateScore
<1>6. ASSUME NEW t \in Tasks, UpdateStatus(t) PROVE Final'
  <2> "Investigating" \in OpenStatus
    BY DEF OpenStatus
  <2> QED BY <1>4, <1>6, StatusEffect DEF UpdateStatus
<1>7. ASSUME NEW t \in Tasks, Finalize(t) PROVE Final'
  <2>1. /\ UNCHANGED pending /\ task'[t].pc = "open" /\ task'[t].key = task[t].key
        /\ \A u \in Tasks \ {t} : task'[u] = task[u]
        /\ \A j \in IncidentIds \ {Entry(t).id} : incident'[j] = incident[j]
        /\ Entry(t) # None /\ InM(t) /\ task[t].pc = "file"
    BY <1>7, FinalizeEffect DEF Finalize, MovesTo, Changes
  <2>2. \A k \in Keys : pending[k] # None /\ pending[k].id = Entry(t).id => k = task[t].key
    BY <2>1, Distinct, EntryIsPending DEF Entry
  <2> QED BY <2>1, <2>2, PendingId DEF Final, IsFinal
<1>8. ASSUME NEW t \in Tasks, Open(t) PROVE Final'
  <2>1. UNCHANGED incident
    BY <1>8 DEF Open, tables
  <2>2. \A u \in Tasks \ {t} : ~InM(u)
    BY <1>8, OpenEffect, Alone
  <2>3. ~IsFinal(task[t].batch)
    BY <1>8, OpenEffect DEF IsFinal, Unopened
  <2> QED BY <1>8, <2>1, <2>2, <2>3, OpenEffect DEF Final, IsFinal, MovesTo, InM, InManager, PC
<1>9. ASSUME NEW t \in Tasks, InsertIncident(t) PROVE Final'
  <2>1. \A i \in IncidentIds : IsFinal(i)' => IsFinal(i)
    BY <1>9, InsertEffect DEF IsFinal, FinalStatus
  <2>2. UNCHANGED pending /\ \A u \in Tasks \ {t} : task'[u] = task[u]
    BY <1>9, InsertEffect DEF InsertIncident, MovesTo
  <2>3. task[t].pc = "insert"
    BY <1>9, InsertEffect
  <2> QED BY <2>1, <2>2, <2>3, PendingId DEF Final
<1> QED BY <1>1, <1>2, <1>3, <1>5, <1>6, <1>7, <1>8, <1>9, Steps DEF Busies

LEMMA VerdictStep ==
  ASSUME Base, Final, Verdict, [Next]_vars
  PROVE  Verdict'
<1>1. SUFFICES ASSUME NEW i \in IncidentIds PROVE Judged(i)'
  BY DEF Verdict, Judged
<1>2. Judged(i) /\ peak[i] \in Nat
  BY RowIs DEF Verdict, Judged
<1>3. CASE Quiet \/ Restart
  BY <1>2, <1>3 DEF Quiet, Restart, tables, Judged
<1>4. ASSUME NEW t \in Tasks, Join(t) PROVE Judged(i)'
  <2>1. CASE i # Entry(t).id
    BY <1>2, <1>4, <2>1, JoinEffect DEF Judged
  <2>2. CASE i = Entry(t).id
    <3>1. ~IsFinal(i) /\ peak'[i] \in Nat /\ peak'[i] >= peak[i] /\ incident'[i] = incident[i]
      BY <1>4, <2>2, JoinEffect, NotFinal
    <3>2. incident[i] # None => incident[i].status # "FalsePositive"
      BY <3>1 DEF IsFinal, FinalStatus
    <3> QED BY <1>2, <3>1, <3>2, RowIs, IncidentsAssumption DEF Judged
  <2> QED BY <2>1, <2>2
<1>5. ASSUME NEW t \in Tasks, NEW r, Changes(Entry(t).id, r), Entry(t).id \in IncidentIds, UNCHANGED peak,
             incident[Entry(t).id] # None =>
               /\ r.score <= peak[Entry(t).id]
               /\ r.status \in {"Investigating", "Resolved"} => peak[Entry(t).id] >= Critical
               /\ r.status = "FalsePositive" => peak[Entry(t).id] < Critical
      PROVE  Judged(i)'
  BY <1>2, <1>5 DEF Changes, Judged
<1>6. ASSUME NEW t \in Tasks, Entry(t) # None, task[t].pc # "idle"
      PROVE  Entry(t).id \in IncidentIds /\ peak[Entry(t).id] = Entry(t).score /\ Entry(t).score \in Nat
             /\ Judged(Entry(t).id)
  BY <1>6, EntryIsPending DEF Base, Keyed, Entry, Verdict, Judged
<1>7. ASSUME NEW t \in Tasks, UpdateScore(t) PROVE Judged(i)'
  <2> DEFINE r == [incident[Entry(t).id] EXCEPT !.score = Entry(t).score]
  <2>1. /\ incident[Entry(t).id] # None =>
             r.score = Entry(t).score /\ r.status = incident[Entry(t).id].status
        /\ Changes(Entry(t).id, r) /\ UNCHANGED peak
    BY <1>7, ScoreEffect DEF UpdateScore
  <2>2. /\ Entry(t).id \in IncidentIds /\ peak[Entry(t).id] = Entry(t).score /\ Entry(t).score \in Nat
        /\ Judged(Entry(t).id)
    BY <1>6, <1>7, ScoreEffect
  <2> HIDE DEF r
  <2>3. incident[Entry(t).id] # None =>
          /\ r.score <= peak[Entry(t).id]
          /\ r.status \in {"Investigating", "Resolved"} => peak[Entry(t).id] >= Critical
          /\ r.status = "FalsePositive" => peak[Entry(t).id] < Critical
    BY <2>1, <2>2 DEF Judged
  <2> QED BY <1>5, <2>1, <2>2, <2>3
<1>8. ASSUME NEW t \in Tasks, UpdateStatus(t) PROVE Judged(i)'
  BY <1>5, <1>6, <1>8, StatusEffect DEF UpdateStatus, Judged
<1>9. ASSUME NEW t \in Tasks, Finalize(t) PROVE Judged(i)'
  <2>1. /\ Entry(t).id \in IncidentIds /\ peak[Entry(t).id] = Entry(t).score /\ Entry(t).score \in Nat
        /\ Judged(Entry(t).id)
    BY <1>6, <1>9, FinalizeEffect
  <2> DEFINE r == [incident[Entry(t).id] EXCEPT !.status = VerdictOn(Entry(t))]
  <2>2. /\ incident[Entry(t).id] # None =>
             r.score = incident[Entry(t).id].score /\ r.status = VerdictOn(Entry(t))
        /\ Changes(Entry(t).id, r) /\ UNCHANGED peak
    BY <1>9, FinalizeEffect DEF Finalize
  <2> HIDE DEF r
  <2>3. incident[Entry(t).id] # None =>
          /\ r.score <= peak[Entry(t).id]
          /\ r.status \in {"Investigating", "Resolved"} => peak[Entry(t).id] >= Critical
          /\ r.status = "FalsePositive" => peak[Entry(t).id] < Critical
    BY <2>1, <2>2, IncidentsAssumption DEF Judged, VerdictOn
  <2> QED BY <1>5, <2>1, <2>2, <2>3
<1>10. ASSUME NEW t \in Tasks, Open(t) PROVE Judged(i)'
  <2>1. UNCHANGED incident
    BY <1>10 DEF Open, tables
  <2>2. incident[task[t].batch] = None
    BY <1>10, OpenEffect DEF Unopened
  <2> QED BY <1>2, <1>10, <2>1, <2>2, OpenEffect DEF Judged
<1>11. ASSUME NEW t \in Tasks, InsertIncident(t) PROVE Judged(i)'
  <2>1. UNCHANGED peak
    BY <1>11 DEF InsertIncident
  <2>2. Entry(t).id \in IncidentIds /\ peak[Entry(t).id] = Entry(t).score /\ Entry(t).score \in Nat
    BY <1>6, <1>11, InsertEffect
  <2> QED BY <1>2, <1>11, <2>1, <2>2, InsertEffect DEF Judged
<1> QED BY <1>3, <1>4, <1>7, <1>8, <1>9, <1>10, <1>11, Steps DEF Busies

LEMMA FinalHolds == Spec => [](Base /\ Final)
<1>1. Init => Final
  BY DEF Init, Final
<1>2. Base /\ Final /\ [Next]_vars => Final'
  BY FinalStep
<1> QED BY <1>1, <1>2, BaseHolds, PTL DEF Spec

\* No incident with a serious batch is filed as a false positive and none is
\* called serious without one, whichever statements failed, however batches of
\* the two tasks interleave and whenever the agent was restarted.
THEOREM VerdictsAreRight == Spec => []Verdict
<1>1. Init => Verdict
  BY DEF Init, Verdict
<1>2. Base /\ Final /\ Verdict /\ [Next]_vars => Verdict'
  BY VerdictStep
<1> QED BY <1>1, <1>2, FinalHolds, PTL DEF Spec

\* A verdict is the last word on an incident: no statement changes its row any
\* more, also when a later batch has the same key or the agent is restarted.
THEOREM VerdictsAreFinal == Spec => Frozen
<1> DEFINE Keeps == \A i \in IncidentIds :
             incident[i] # None /\ incident[i].status \in FinalStatus => incident'[i] = incident[i]
<1>1. ASSUME Base, Final, [Next]_vars, NEW i \in IncidentIds, IsFinal(i)
      PROVE  incident'[i] = incident[i]
  <2>1. ASSUME NEW t \in Tasks, NEW r, InM(t), task[t].pc # "open", Entry(t) # None,
               Changes(Entry(t).id, r)
        PROVE  incident'[i] = incident[i]
    BY <1>1, <2>1, NotFinal DEF Changes
  <2>2. ASSUME NEW t \in Tasks, UpdateScore(t) \/ UpdateStatus(t) \/ Finalize(t)
        PROVE  incident'[i] = incident[i]
    BY <1>1, <2>1, <2>2, ScoreEffect, StatusEffect, FinalizeEffect
  <2>3. ASSUME NEW t \in Tasks, InsertIncident(t)
        PROVE  incident'[i] = incident[i]
    BY <1>1, <2>3, InsertEffect DEF IsFinal
  <2> QED BY <1>1, <2>2, <2>3, Steps DEF Busies, Quiet, Restart, Join, Open, tables
<1>2. Base /\ Final /\ [Next]_vars => Keeps
  BY <1>1 DEF IsFinal
<1>3. Base /\ Final /\ [Next]_vars => [Keeps]_vars
  BY <1>2
<1> QED BY <1>3, FinalHolds, PTL DEF Spec, Frozen

---------------------------------------------------------------------------
(* InStep                                                                  *)

\* The row of the incident remembered for k is what is remembered, or the task
\* that is making it so has not come to that statement.
StatusFor(s) == IF s >= Critical THEN "Investigating" ELSE "Open"
Doing(k, s) == \E t \in Tasks : task[t].pc = s /\ task[t].key = k
Matches(k) ==
  LET r == incident[pending[k].id]
  IN /\ r # None /\ r.created = pending[k].created /\ r.status \in OpenStatus
     /\ \/ r.score = pending[k].score /\ r.status = StatusFor(pending[k].score)
        \/ Doing(k, "score") /\ (r.status = "Investigating" => pending[k].score >= Critical)
        \/ Doing(k, "status") /\ r.score = pending[k].score
Agrees(k) ==
  pending[k] # None /\ pending[k].id \notin dirty =>
    Doing(k, "insert") \/ Doing(k, "open") \/ Matches(k)
Synced == \A k \in Keys : Agrees(k)

\* A step of t, whose key is not k, is none of k's business.
LEMMA AgreesElsewhere ==
  ASSUME Base, NEW k \in Keys, Agrees(k), NEW t \in Tasks, InM(t), task[t].key # k,
         pending'[k] = pending[k], dirty \subseteq dirty',
         pending[k] # None => incident'[pending[k].id] = incident[pending[k].id]
  PROVE  Agrees(k)'
<1>1. \A u \in Tasks \ {t} : ~InM(u)
  BY Alone
<1>2. ~Doing(k, "insert") /\ ~Doing(k, "open") /\ ~Doing(k, "score") /\ ~Doing(k, "status")
  BY <1>1 DEF Doing, InM, InManager, PC
<1> QED BY <1>2 DEF Agrees, Matches

\* While t, which is in the manager, is not at s, nobody is.
LEMMA NotDoing ==
  ASSUME Base, NEW t \in Tasks, InM(t), NEW k, NEW s \in InManager, task[t].pc # s
  PROVE  ~Doing(k, s)
BY Alone DEF Doing, InM

LEMMA SyncedStep ==
  ASSUME Base, Synced, [Next]_vars
  PROVE  Synced'
<1>1. SUFFICES ASSUME NEW k \in Keys PROVE Agrees(k)'
  BY DEF Synced
<1>2. Agrees(k)
  BY DEF Synced
<1>3. CASE Quiet
  <2>1. \A s \in {"insert", "open", "score", "status"} : Doing(k, s) => Doing(k, s)'
    BY <1>3 DEF Quiet, Busy, Doing
  <2> QED BY <1>2, <1>3, <2>1 DEF Quiet, Agrees, Matches
<1>4. CASE Restart
  BY <1>4 DEF Restart, Agrees
<1>5. ASSUME NEW t \in Tasks, Join(t) PROVE Agrees(k)'
  <2>1. CASE task[t].key # k
    BY <1>2, <1>5, <2>1, JoinEffect, AgreesElsewhere
  <2>2. CASE task[t].key = k
    <3>1. Doing(k, "score")'
      BY <1>5, <2>2, JoinEffect DEF Doing, MovesTo
    <3>2. ~Doing(k, "insert") /\ ~Doing(k, "open") /\ ~Doing(k, "score") /\ ~Doing(k, "status")
      BY <1>5, JoinEffect, NotDoing DEF InManager, PC
    <3>3. pending[k].score \in Nat /\ pending'[k].score \in Nat /\ pending'[k].score >= pending[k].score
      BY <1>5, <2>2, JoinEffect DEF Entry
    <3>4. /\ pending'[k].id = pending[k].id /\ pending'[k].created = pending[k].created
          /\ pending[k] # None /\ UNCHANGED <<incident, dirty>>
      BY <1>5, <2>2, JoinEffect DEF Entry
    <3>5. StatusFor(pending[k].score) = "Investigating" => pending'[k].score >= Critical
      BY <3>3, IncidentsAssumption DEF StatusFor
    <3> QED BY <1>2, <3>1, <3>2, <3>4, <3>5 DEF Agrees, Matches
  <2> QED BY <2>1, <2>2
\* An update of the row of the entry.
<1>6. ASSUME NEW t \in Tasks, InM(t), Entry(t) # None, NEW r, NEW s, Changes(Entry(t).id, r), MovesTo(t, s),
             UNCHANGED pending, task[t].pc \notin {"insert", "open"},
             Matches(k) /\ task[t].key = k /\ incident'[Entry(t).id] = r => Doing(k, "open")' \/ Matches(k)'
      PROVE  Agrees(k)'
  <2>1. CASE task[t].key # k
    <3>1. pending[k] # None => pending[k].id # Entry(t).id /\ pending[k].id \in IncidentIds
      BY <1>6, <2>1, Distinct, EntryIsPending, PendingId DEF Entry, InM, InManager
    <3> QED BY <1>2, <1>6, <2>1, <3>1, AgreesElsewhere DEF Changes
  <2>2. CASE task[t].key = k
    <3>1. ~Doing(k, "insert") /\ ~Doing(k, "open")
      BY <1>6, NotDoing DEF InManager, PC
    <3>2. pending[k].id = Entry(t).id
      BY <2>2 DEF Entry
    <3> QED BY <1>2, <1>6, <2>2, <3>1, <3>2 DEF Agrees, Changes, Matches
  <2> QED BY <2>1, <2>2
<1>7. ASSUME NEW t \in Tasks, UpdateScore(t) PROVE Agrees(k)'
  <2> DEFINE e == Entry(t)
             r == [incident[e.id] EXCEPT !.score = e.score]
             s == IF e.score >= Critical THEN "status" ELSE "unlock"
  <2>1. /\ task[t].pc = "score" /\ e # None /\ InM(t) /\ Changes(e.id, r) /\ MovesTo(t, s)
        /\ incident[e.id] # None =>
             r \in Row /\ r.score = e.score /\ r.status = incident[e.id].status
                       /\ r.created = incident[e.id].created
        /\ UNCHANGED pending
    BY <1>7, ScoreEffect DEF UpdateScore
  <2>2. ASSUME Matches(k), task[t].key = k, incident'[e.id] = r PROVE Matches(k)'
    <3>1. /\ incident[e.id] # None /\ r # None /\ r.created = e.created /\ r.score = e.score
          /\ r.status \in OpenStatus
      BY <2>1, <2>2, IncidentsAssumption DEF Matches, Entry
    <3>2. ~Doing(k, "status")
      BY <2>1, NotDoing DEF InManager, PC
    <3>3. r.status = "Investigating" => e.score >= Critical
      BY <2>1, <2>2, <3>1, <3>2 DEF Matches, Entry, StatusFor
    <3>4. CASE e.score >= Critical
      <4>1. Doing(k, "status")'
        BY <2>1, <2>2, <3>4 DEF Doing, MovesTo
      <4> QED BY <2>1, <2>2, <3>1, <4>1 DEF Matches, Entry
    <3>5. CASE ~(e.score >= Critical)
      <4>1. r.status = StatusFor(e.score)
        BY <3>1, <3>3, <3>5 DEF StatusFor, OpenStatus
      <4> QED BY <2>1, <2>2, <3>1, <4>1 DEF Matches, Entry
    <3> QED BY <3>4, <3>5
  <2> HIDE DEF r, s
  <2> QED BY <1>6, <2>1, <2>2
<1>8. ASSUME NEW t \in Tasks, UpdateStatus(t) PROVE Agrees(k)'
  <2> DEFINE e == Entry(t)
             r == [incident[e.id] EXCEPT !.status = "Investigating"]
  <2>1. /\ task[t].pc = "status" /\ e # None /\ InM(t) /\ Changes(e.id, r) /\ MovesTo(t, "unlock")
        /\ incident[e.id] # None =>
             r \in Row /\ r.score = incident[e.id].score /\ r.status = "Investigating"
                       /\ r.created = incident[e.id].created
        /\ UNCHANGED pending /\ e.score >= Critical
    BY <1>8, StatusEffect DEF UpdateStatus
  <2>2. ASSUME Matches(k), task[t].key = k, incident'[e.id] = r PROVE Matches(k)'
    <3>1. ~Doing(k, "score")
      BY <2>1, NotDoing DEF InManager, PC
    <3>2. /\ incident[e.id] # None /\ r # None /\ r.created = e.created /\ r.score = e.score
      BY <2>1, <2>2, <3>1, IncidentsAssumption DEF Matches, Entry
    <3> QED BY <2>1, <2>2, <3>2 DEF Matches, Entry, StatusFor, OpenStatus
  <2> HIDE DEF r
  <2> QED BY <1>6, <2>1, <2>2
<1>9. ASSUME NEW t \in Tasks, Finalize(t) PROVE Agrees(k)'
  <2> DEFINE e == Entry(t)
             r == [incident[e.id] EXCEPT !.status = VerdictOn(e)]
  <2>1. /\ task[t].pc = "file" /\ e # None /\ InM(t) /\ Changes(e.id, r) /\ MovesTo(t, "open")
        /\ UNCHANGED pending
    BY <1>9, FinalizeEffect DEF Finalize
  <2>2. task[t].key = k => Doing(k, "open")'
    BY <2>1 DEF Doing, MovesTo
  <2> HIDE DEF r
  <2> QED BY <1>6, <2>1, <2>2
<1>10. ASSUME NEW t \in Tasks, Open(t) PROVE Agrees(k)'
  <2>1. UNCHANGED <<incident, dirty>>
    BY <1>10 DEF Open, tables
  <2>2. CASE task[t].key = k
    BY <1>10, <2>2, OpenEffect DEF Agrees, Doing, MovesTo
  <2>3. CASE task[t].key # k
    BY <1>2, <1>10, <2>1, <2>3, OpenEffect, AgreesElsewhere
  <2> QED BY <2>2, <2>3
<1>11. ASSUME NEW t \in Tasks, InsertIncident(t) PROVE Agrees(k)'
  <2>1. UNCHANGED pending
    BY <1>11 DEF InsertIncident
  <2>2. CASE task[t].key # k
    <3>1. pending[k] # None => pending[k].id # Entry(t).id /\ pending[k].id \in IncidentIds
      BY <1>11, <2>2, InsertEffect, Distinct, EntryIsPending, PendingId DEF Entry
    <3> QED BY <1>2, <1>11, <2>1, <2>2, <3>1, InsertEffect, AgreesElsewhere
  <2>3. CASE task[t].key = k
    BY <1>11, <2>1, <2>3, InsertEffect DEF Agrees, Matches, Entry, StatusFor, OpenStatus
  <2> QED BY <2>2, <2>3
<1> QED BY <1>3, <1>4, <1>5, <1>7, <1>8, <1>9, <1>10, <1>11, Steps DEF Busies

\* Between two batches the row of a key's incident is what the manager
\* remembers of it, unless one of its statements failed.
THEOREM RowsInStep == Spec => []InStep
<1>1. Init => Synced
  BY DEF Init, Synced, Agrees
<1>2. Base /\ Synced /\ [Next]_vars => Synced'
  BY SyncedStep
<1>3. Base /\ Synced => InStep
  <2> SUFFICES ASSUME Base, Synced, holder = None, NEW k \in Keys,
                      pending[k] # None, pending[k].id \notin dirty
               PROVE  Matches(k) /\ ~Doing(k, "score") /\ ~Doing(k, "status")
    BY DEF InStep, Matches, StatusFor
  <2>1. \A t \in Tasks : ~InM(t)
    BY IncidentsAssumption DEF Base, Mutex
  <2>2. \A s \in {"insert", "open", "score", "status"} : ~Doing(k, s)
    BY <2>1 DEF Doing, InM, InManager, PC
  <2> QED BY <2>2 DEF Synced, Agrees
<1> QED BY <1>1, <1>2, <1>3, BaseHolds, PTL DEF Spec

---------------------------------------------------------------------------
(* OneOpen                                                                 *)

\* An incident of this run that is open is the one its key remembers, and no
\* longer so when the next one is about to take its place.
Current ==
  /\ \A i \in IncidentIds : IsOpen(i) /\ keyOf[i] # None /\ i \notin dirty => pending[keyOf[i]].id = i
  /\ \A t \in Tasks : task[t].pc = "open" /\ IsOpen(Entry(t).id) => Entry(t).id \in dirty

LEMMA CurrentStep ==
  ASSUME Base, Current, [Next]_vars
  PROVE  Current'
<1>1. CASE Quiet
  BY <1>1 DEF Quiet, Busy, Current, IsOpen, Entry
<1>2. CASE Restart
  BY <1>2, IdleIsTask DEF Restart, Current
\* A step in the manager to another place than "open".
<1>3. ASSUME NEW t \in Tasks, InM(t), NEW s \in PC, s # "open", MovesTo(t, s)
      PROVE  \A u \in Tasks : task'[u].pc # "open"
  BY <1>3, Alone DEF MovesTo, InM, InManager, PC
\* An update that leaves open what is open and closes what is closed.
<1>4. ASSUME NEW t \in Tasks, InM(t), NEW s \in PC, s # "open", MovesTo(t, s), Entry(t) # None,
             NEW r, Changes(Entry(t).id, r), UNCHANGED <<pending, keyOf>>
      PROVE  Current'
  <2>1. pending[keyOf[Entry(t).id]].id = Entry(t).id
    BY <1>4, EntryIsPending DEF Entry, Base, Keyed, InM, InManager
  <2>2. ASSUME NEW i \in IncidentIds, IsOpen(i)', keyOf[i] # None, i \notin dirty'
        PROVE  pending[keyOf[i]].id = i
    <3>1. i # Entry(t).id => IsOpen(i) /\ i \notin dirty
      BY <1>4, <2>2 DEF Changes, IsOpen
    <3> QED BY <2>1, <2>2, <3>1 DEF Current
  <2> QED BY <1>3, <1>4, <2>2 DEF Current
<1>5. ASSUME NEW t \in Tasks, Join(t) PROVE Current'
  <2>1. \A u \in Tasks : task'[u].pc # "open"
    BY <1>3, <1>5, JoinEffect DEF PC
  <2>2. \A k \in Keys : pending[k] # None => pending'[k].id = pending[k].id
    BY <1>5, JoinEffect DEF Entry
  <2>3. \A i \in IncidentIds : keyOf[i] # None => keyOf[i] \in Keys /\ pending[keyOf[i]] # None
    BY DEF Base, TypeOK, Keyed
  <2>4. UNCHANGED <<incident, keyOf, dirty>>
    BY <1>5, JoinEffect
  <2> QED BY <2>1, <2>2, <2>3, <2>4 DEF Current, IsOpen
<1>6. ASSUME NEW t \in Tasks, UpdateScore(t) PROVE Current'
  BY <1>4, <1>6, ScoreEffect DEF UpdateScore, PC
<1>7. ASSUME NEW t \in Tasks, UpdateStatus(t) PROVE Current'
  BY <1>4, <1>7, StatusEffect DEF UpdateStatus, PC
<1>8. ASSUME NEW t \in Tasks, Finalize(t) PROVE Current'
  <2> DEFINE e == Entry(t)
             r == [incident[e.id] EXCEPT !.status = VerdictOn(e)]
  <2>1. /\ task[t].pc = "file" /\ e # None /\ InM(t) /\ Changes(e.id, r) /\ MovesTo(t, "open")
        /\ incident[e.id] # None => r.status = VerdictOn(e)
        /\ UNCHANGED <<pending, keyOf>>
    BY <1>8, FinalizeEffect DEF Finalize
  <2>2. incident[e.id] # None => r.status \notin OpenStatus
    BY <2>1 DEF VerdictOn, OpenStatus
  <2> HIDE DEF r
  <2>3. incident'[e.id] # None /\ incident'[e.id].status \in OpenStatus => e.id \in dirty'
    BY <2>1, <2>2 DEF Changes
  <2>4. \A u \in Tasks \ {t} : task'[u].pc # "open"
    BY <2>1, Alone DEF MovesTo, InM, InManager, PC
  <2>5. Entry(t)' = e
    BY <2>1 DEF Entry, MovesTo
  <2>6. ASSUME NEW i \in IncidentIds, IsOpen(i)', keyOf[i] # None, i \notin dirty'
        PROVE  pending[keyOf[i]].id = i
    <3>1. i # e.id
      BY <2>3, <2>6 DEF IsOpen
    <3>2. IsOpen(i) /\ i \notin dirty
      BY <2>1, <2>6, <3>1 DEF Changes, IsOpen
    <3> QED BY <2>6, <3>2 DEF Current
  <2> QED BY <2>1, <2>3, <2>4, <2>5, <2>6 DEF Current, IsOpen
<1>9. ASSUME NEW t \in Tasks, Open(t) PROVE Current'
  <2> DEFINE b == task[t].batch
             k == task[t].key
  <2>1. UNCHANGED <<incident, dirty>>
    BY <1>9 DEF Open, tables
  <2>2. \A u \in Tasks : task'[u].pc # "open"
    BY <1>3, <1>9, OpenEffect DEF PC
  <2>3. ASSUME NEW i \in IncidentIds, i # b, IsOpen(i), keyOf[i] # None, i \notin dirty
        PROVE  keyOf[i] \in Keys \ {k}
    <3>1. keyOf[i] \in Keys /\ pending[keyOf[i]] # None /\ pending[keyOf[i]].id = i
      BY <2>3 DEF Base, TypeOK, Keyed, Current
    <3>2. ASSUME keyOf[i] = k PROVE FALSE
      <4>1. task[t].pc = "open" /\ Entry(t).id = i
        BY <1>9, <3>1, <3>2, OpenEffect DEF Entry
      <4> QED BY <2>3, <4>1 DEF Current
    <3> QED BY <3>1, <3>2
  <2>4. /\ ~IsOpen(b) /\ b \in IncidentIds
        /\ \A l \in Keys \ {k} : pending'[l] = pending[l]
        /\ \A i \in IncidentIds \ {b} : keyOf'[i] = keyOf[i]
    BY <1>9, OpenEffect DEF IsOpen, Unopened
  <2>5. ASSUME NEW i \in IncidentIds, IsOpen(i)', keyOf'[i] # None, i \notin dirty'
        PROVE  pending'[keyOf'[i]].id = i
    <3>1. IsOpen(i) /\ i # b /\ keyOf[i] # None /\ i \notin dirty /\ keyOf'[i] = keyOf[i]
      BY <2>1, <2>4, <2>5 DEF IsOpen
    <3>2. keyOf[i] \in Keys \ {k} /\ pending[keyOf[i]].id = i
      BY <2>3, <3>1 DEF Current
    <3> QED BY <2>4, <3>1, <3>2
  <2> QED BY <2>2, <2>5 DEF Current
<1>10. ASSUME NEW t \in Tasks, InsertIncident(t) PROVE Current'
  <2> DEFINE e == Entry(t)
  <2>1. /\ UNCHANGED <<pending, keyOf>> /\ InM(t) /\ e # None
        /\ \A j \in IncidentIds \ {e.id} : incident'[j] = incident[j]
        /\ dirty \subseteq dirty' /\ task[t].pc # "idle"
    BY <1>10, InsertEffect DEF InsertIncident
  <2>2. \A u \in Tasks : task'[u].pc # "open"
    BY <1>3, <1>10, InsertEffect DEF PC
  <2>3. pending[keyOf[e.id]].id = e.id
    BY <2>1, EntryIsPending DEF Entry, Base, Keyed
  <2>4. ASSUME NEW i \in IncidentIds, IsOpen(i)', keyOf[i] # None, i \notin dirty'
        PROVE  pending[keyOf[i]].id = i
    <3>1. i # e.id => IsOpen(i) /\ i \notin dirty
      BY <2>1, <2>4 DEF IsOpen
    <3> QED BY <2>3, <2>4, <3>1 DEF Current
  <2> QED BY <2>1, <2>2, <2>4 DEF Current
<1> QED BY <1>1, <1>2, <1>5, <1>6, <1>7, <1>8, <1>9, <1>10, Steps DEF Busies

\* A run of the agent has one open incident per key, however many tasks bring
\* batches: only a failed statement leaves a second one open.
THEOREM OneOpenPerKey == Spec => []OneOpen
<1>1. Init => Current
  BY DEF Init, Current, Idle
<1>2. Base /\ Current /\ [Next]_vars => Current'
  BY CurrentStep
<1>3. Current => OneOpen
  BY DEF Current, OneOpen
<1> QED BY <1>1, <1>2, <1>3, BaseHolds, PTL DEF Spec

---------------------------------------------------------------------------
(* Spaced                                                                  *)

\* The row of the incident a key remembers has its time; the rows of the key's
\* other incidents are more than a window older.
Dated ==
  \A k \in Keys : pending[k] # None =>
    /\ incident[pending[k].id] # None => incident[pending[k].id].created = pending[k].created
    /\ \A i \in IncidentIds : incident[i] # None /\ keyOf[i] = k /\ i # pending[k].id =>
         pending[k].created - incident[i].created > Window
Times == Dated /\ Spaced

\* The rows keep the time they were created.
LEMMA SameRows ==
  ASSUME Base, Times, UNCHANGED keyOf,
         \A i \in IncidentIds : incident'[i] # None <=> incident[i] # None,
         \A i \in IncidentIds : incident[i] # None => incident'[i].created = incident[i].created,
         \A k \in Keys : pending'[k] # None =>
           /\ pending[k] # None /\ pending'[k].id = pending[k].id
           /\ pending'[k].created = pending[k].created
  PROVE  Times'
<1>1. Dated'
  BY PendingId DEF Times, Dated
<1>2. Spaced'
  BY DEF Times, Spaced
<1> QED BY <1>1, <1>2 DEF Times

LEMMA TimesStep ==
  ASSUME Base, Times, [Next]_vars
  PROVE  Times'
<1>1. CASE Quiet
  BY <1>1, SameRows DEF Quiet
<1>2. CASE Restart
  BY <1>2 DEF Restart, Times, Dated, Spaced
<1>3. ASSUME NEW t \in Tasks, Join(t) PROVE Times'
  BY <1>3, SameRows, JoinEffect DEF Entry
<1>4. ASSUME NEW i \in IncidentIds, NEW r, Changes(i, r), UNCHANGED <<pending, keyOf>>,
             incident[i] # None => r \in Row /\ r.created = incident[i].created
      PROVE  Times'
  <2>1. \A j \in IncidentIds : /\ incident'[j] # None <=> incident[j] # None
                               /\ incident[j] # None => incident'[j].created = incident[j].created
    BY <1>4, IncidentsAssumption DEF Changes
  <2> QED BY <1>4, <2>1, SameRows
<1>5. ASSUME NEW t \in Tasks, Entry(t) # None, InM(t) PROVE Entry(t).id \in IncidentIds
  BY <1>5, EntryIsPending DEF InM, InManager
<1>6. ASSUME NEW t \in Tasks, UpdateScore(t) PROVE Times'
  BY <1>4, <1>5, <1>6, ScoreEffect DEF UpdateScore
<1>7. ASSUME NEW t \in Tasks, UpdateStatus(t) PROVE Times'
  BY <1>4, <1>5, <1>7, StatusEffect DEF UpdateStatus
<1>8. ASSUME NEW t \in Tasks, Finalize(t) PROVE Times'
  BY <1>4, <1>5, <1>8, FinalizeEffect DEF Finalize
<1>9. ASSUME NEW t \in Tasks, Open(t) PROVE Times'
  <2> DEFINE b == task[t].batch
             k == task[t].key
  <2>0. UNCHANGED incident /\ now \in Nat
    BY <1>9, IncidentsAssumption DEF Open, tables, Base, TypeOK
  <2>1. /\ UNCHANGED incident /\ b \in IncidentIds /\ k \in Keys /\ incident[b] = None
        /\ pending'[k].id = b /\ pending'[k].created = now /\ now \in Nat
        /\ \A l \in Keys \ {k} : pending'[l] = pending[l]
        /\ keyOf'[b] = k /\ \A i \in IncidentIds \ {b} : keyOf'[i] = keyOf[i]
    BY <1>9, <2>0, OpenEffect DEF Unopened
  <2>2. Spaced'
    BY <2>1 DEF Times, Spaced
  <2>3. ASSUME NEW i \in IncidentIds, incident[i] # None, keyOf'[i] = k
        PROVE  now - incident[i].created > Window
    <3>1. keyOf[i] = k /\ i # b /\ incident[i].created \in Nat
      BY <2>1, <2>3, RowIs
    <3>2. pending[k] # None
      BY <2>1, <3>1, IncidentsAssumption DEF Base, Keyed
    <3>3. task[t].pc = "open" /\ Entry(t) = pending[k]
      BY <1>9, <3>2, OpenEffect DEF Entry
    <3>4. now - pending[k].created > Window
      BY <3>3 DEF Base, Entries
    <3>5. pending[k].created \in Nat /\ pending[k].created <= now
      BY <2>1, <3>2, PendingId
    <3>6. CASE i = pending[k].id
      BY <2>1, <2>3, <3>2, <3>4, <3>6 DEF Times, Dated
    <3>7. CASE i # pending[k].id
      <4>1. pending[k].created - incident[i].created > Window
        BY <2>1, <2>3, <3>1, <3>2, <3>7 DEF Times, Dated
      <4> QED BY <2>1, <3>1, <3>5, <4>1, IncidentsAssumption
    <3> QED BY <3>6, <3>7
  <2>4. ASSUME NEW l \in Keys \ {k}, pending[l] # None
        PROVE  /\ incident[pending[l].id] # None => incident[pending[l].id].created = pending[l].created
               /\ \A i \in IncidentIds : incident[i] # None /\ keyOf'[i] = l /\ i # pending[l].id =>
                    pending[l].created - incident[i].created > Window
    BY <2>1, <2>4 DEF Times, Dated
  <2>5. Dated'
    BY <2>1, <2>3, <2>4 DEF Dated
  <2> QED BY <2>2, <2>5 DEF Times
<1>10. ASSUME NEW t \in Tasks, InsertIncident(t) PROVE Times'
  <2> DEFINE e == Entry(t)
             k == task[t].key
  <2>1. /\ UNCHANGED <<pending, keyOf>> /\ InM(t) /\ e # None /\ e = pending[k] /\ incident[e.id] = None
        /\ \A j \in IncidentIds \ {e.id} : incident'[j] = incident[j]
        /\ incident'[e.id] # None => incident'[e.id].created = e.created
        /\ k \in Keys
    BY <1>10, InsertEffect, EntryIsPending DEF InsertIncident, Entry
  <2>2. /\ e.id \in IncidentIds /\ e.created \in Nat /\ keyOf[e.id] = k
    BY <2>1, PendingId
  <2>3. \A l \in Keys \ {k} : pending[l] # None => pending[l].id # e.id
    BY <2>1, Distinct
  <2>4. Dated'
    <3>1. \A l \in Keys : pending[l] # None => pending[l].id \in IncidentIds
      BY PendingId
    <3> QED BY <2>1, <2>2, <2>3, <3>1 DEF Times, Dated
  <2>5. \A i \in IncidentIds : i # e.id /\ incident[i] # None /\ keyOf[i] = k =>
          e.created - incident[i].created > Window /\ incident[i].created \in Nat
    BY <2>1, RowIs DEF Times, Dated
  <2>6. ASSUME NEW i \in IncidentIds, NEW j \in IncidentIds,
               incident'[i] # None, incident'[j] # None, i # j,
               keyOf[i] # None, keyOf[i] = keyOf[j],
               incident'[i].created <= incident'[j].created
        PROVE  incident'[j].created - incident'[i].created > Window
    <3>1. CASE i # e.id /\ j # e.id
      BY <2>1, <2>6, <3>1 DEF Times, Spaced
    <3>2. CASE j = e.id
      BY <2>1, <2>2, <2>5, <2>6, <3>2
    <3>3. CASE i = e.id
      BY <2>1, <2>2, <2>5, <2>6, <3>3, IncidentsAssumption
    <3> QED BY <3>1, <3>2, <3>3
  <2>7. Spaced'
    BY <2>1, <2>6 DEF Spaced
  <2> QED BY <2>4, <2>7 DEF Times
<1> QED BY <1>1, <1>2, <1>3, <1>6, <1>7, <1>8, <1>9, <1>10, Steps DEF Busies

\* A batch opens an incident only when the window of the key's last one is
\* over: two incidents of one key are more than a window apart.
THEOREM IncidentsAreSpaced == Spec => []Spaced
<1>1. Init => Times
  BY DEF Init, Times, Dated, Spaced
<1>2. Base /\ Times /\ [Next]_vars => Times'
  BY TimesStep
<1>3. Times => Spaced
  BY DEF Times
<1> QED BY <1>1, <1>2, <1>3, BaseHolds, PTL DEF Spec

=============================================================================
