--------------------------- MODULE CentralProofs ---------------------------
(***************************************************************************)
(* Safety of Central for any number of machines, ids and events.            *)
(***************************************************************************)
EXTENDS Central, FiniteSetTheorems, SequenceTheorems, TLAPS

\* The types, those of the histories included.
HostsTyped ==
  /\ idFile \in [Machines -> Ids \cup {None, Torn}]
  /\ local \in [Machines -> Seq(Events)]
  /\ names \in [Machines -> SUBSET Ids] /\ unkept \subseteq Machines
AgentsTyped ==
  /\ agent \in [Machines -> Agent]
  /\ call \in [Machines -> Call \cup {None}]
  /\ \A m \in Machines : agent[m].pc # "down" => agent[m].id \in Ids
  /\ \A m \in Machines : agent[m].waiting => agent[m].pc \in Op
MemoryTyped ==
  /\ known \subseteq Ids /\ beats \subseteq Ids
  /\ ring \in Seq(Tagged) /\ arrived \in Seq(Serious)
  /\ holder \in Machines \cup {None}
TablesTyped ==
  /\ row \in [Ids -> Row \cup {None}]
  /\ stored \in [Events -> Ids \cup {None}]
  /\ greeted \subseteq Ids /\ unsaved \subseteq Ids
CountersTyped == faults \in 0..MaxFaults /\ kills \in 0..MaxKills
Typed == HostsTyped /\ AgentsTyped /\ MemoryTyped /\ TablesTyped /\ CountersTyped

---------------------------------------------------------------------------
(* What the parts of an action do                                          *)

\* The record of an agent m whose step changes only its place.
MovesTo(m, pc) ==
  /\ agent' \in [Machines -> Agent]
  /\ agent'[m].pc = pc /\ agent'[m].id = agent[m].id /\ agent'[m].waiting = FALSE
  /\ \A n \in Machines \ {m} : agent'[n] = agent[n]

LEMMA GotoEffect ==
  ASSUME Typed, NEW m \in Machines, NEW pc \in PC, Goto(m, pc)
  PROVE  MovesTo(m, pc)
<1>1. agent[m] \in Agent /\ agent \in [Machines -> Agent]
  BY DEF Typed, AgentsTyped
<1>2. agent' = [agent EXCEPT ![m] = [agent[m] EXCEPT !.pc = pc, !.waiting = FALSE]]
  BY <1>1 DEF Goto, Agent
<1>3. [agent[m] EXCEPT !.pc = pc, !.waiting = FALSE] \in Agent
  BY <1>1 DEF Agent
<1> QED BY <1>1, <1>2, <1>3 DEF MovesTo, Agent

LEMMA FollowingIsOp == ASSUME NEW pc PROVE Following(pc) \in Op
BY DEF Following, Op

LEMMA AnswerEffect ==
  ASSUME Typed, NEW m \in Machines, Answer(m), call[m] # None
  PROVE  /\ call' \in [Machines -> Call \cup {None}]
         /\ call'[m] = None
         /\ \A n \in Machines \ {m} : call'[n] = call[n]
         /\ \/ agent' = agent
            \/ agent[m].waiting /\ MovesTo(m, Following(agent[m].pc))
<1>1. agent[m] \in Agent /\ agent \in [Machines -> Agent]
  BY DEF Typed, AgentsTyped
<1>2. CASE agent[m].waiting
  <2> DEFINE pc == Following(agent[m].pc)
  <2>1. agent' = [agent EXCEPT ![m] = [agent[m] EXCEPT !.pc = pc, !.waiting = FALSE]]
    BY <1>1, <1>2 DEF Answer, Agent
  <2>2. [agent[m] EXCEPT !.pc = pc, !.waiting = FALSE] \in Agent
    BY <1>1, FollowingIsOp DEF Agent, PC
  <2> QED BY <1>1, <1>2, <2>1, <2>2 DEF MovesTo, Agent, Answer, Typed, AgentsTyped
<1>3. CASE ~agent[m].waiting
  BY <1>3 DEF Answer, Typed, AgentsTyped
<1> QED BY <1>2, <1>3

LEMMA ProceedEffect ==
  ASSUME Typed, NEW m \in Machines, call[m] # None,
         NEW at \in {"map", "row", "lock", "insert"}, Proceed(m, at)
  PROVE  /\ call' \in [Machines -> Call \cup {None}]
         /\ call'[m] \in Call /\ call'[m].at = at /\ call'[m].op = call[m].op
         /\ call'[m].id = call[m].id /\ call'[m].todo = call[m].todo
         /\ \A n \in Machines \ {m} : call'[n] = call[n]
         /\ agent' = agent
<1>1. call[m] \in Call /\ call' = [call EXCEPT ![m] = [call[m] EXCEPT !.at = at]]
  BY DEF Typed, AgentsTyped, Proceed
<1>2. [call[m] EXCEPT !.at = at] \in Call
  BY <1>1 DEF Call
<1> QED BY <1>1, <1>2 DEF Typed, AgentsTyped, Proceed, Call

LEMMA UnansweredEffect ==
  ASSUME Typed, NEW m \in Machines, Unanswered(m)
  PROVE  /\ call' \in [Machines -> Call \cup {None}]
         /\ \A n \in Machines : call'[n] = call[n] \/ call'[n] = None
BY DEF Typed, AgentsTyped, Unanswered

LEMMA InIsCall ==
  ASSUME Typed, NEW m \in Machines, NEW op, NEW at, In(m, op, at)
  PROVE  /\ call[m] \in Call /\ call[m] # None /\ call[m].op = op /\ call[m].at = at
         /\ call[m].id \in Ids /\ call[m].todo \subseteq Serious
BY DEF Typed, AgentsTyped, In, Call

LEMMA SeenIsRow == Seen \in Row /\ Seen # None /\ Seen.online = TRUE
<1>1. 0 \in 0..Stale + 1
  BY CentralAssumption
<1>2. Seen \in Row /\ Seen.online = TRUE
  BY <1>1 DEF Seen, Row
<1> QED BY <1>2, CentralAssumption

LEMMA NewestIsSeq ==
  ASSUME NEW S, NEW s \in Seq(S), NEW n \in Nat
  PROVE  /\ Newest(s, n) \in Seq(S)
         /\ Len(Newest(s, n)) = IF Len(s) <= n THEN Len(s) ELSE n
         /\ \A i \in 1..Len(Newest(s, n)) :
              Newest(s, n)[i] = s[Len(s) - Len(Newest(s, n)) + i]
<1>1. CASE Len(s) <= n
  BY <1>1 DEF Newest
<1>2. CASE Len(s) > n
  <2> DEFINE b == Len(s) - n + 1
  <2>1. Newest(s, n) = SubSeq(s, b, Len(s))
    BY <1>2 DEF Newest
  <2>2. /\ Len(SubSeq(s, b, Len(s))) = n
        /\ SubSeq(s, b, Len(s)) \in Seq(S)
        /\ \A i \in 1..n : SubSeq(s, b, Len(s))[i] = s[b + i - 1]
    BY <1>2, SubSeqProperties
  <2> QED BY <1>2, <2>1, <2>2
<1> QED BY <1>1, <1>2

---------------------------------------------------------------------------
(* Types                                                                   *)

LEMMA TypedIsTypeOK == Typed => TypeOK
BY DEF Typed, HostsTyped, AgentsTyped, MemoryTyped, TablesTyped, CountersTyped, TypeOK

LEMMA TypedInit == Init => Typed
<1> SUFFICES ASSUME Init PROVE Typed
  OBVIOUS
<1>1. Down \in Agent /\ ~Down.waiting /\ Down.pc = "down"
  BY DEF Down, Agent, PC, Op
<1>2. AgentsTyped /\ HostsTyped
  BY <1>1 DEF Init, AgentsTyped, HostsTyped
<1>3. MemoryTyped /\ TablesTyped /\ CountersTyped
  BY CentralAssumption DEF Init, MemoryTyped, TablesTyped, CountersTyped
<1> QED BY <1>2, <1>3 DEF Typed

LEMMA SameHosts == HostsTyped /\ UNCHANGED hosts => HostsTyped'
BY DEF HostsTyped, hosts
LEMMA SameMemory == MemoryTyped /\ UNCHANGED memory => MemoryTyped'
BY DEF MemoryTyped, memory
LEMMA SameTables == TablesTyped /\ UNCHANGED <<row, stored, greeted, unsaved>> => TablesTyped'
BY DEF TablesTyped
LEMMA Counting ==
  /\ CountersTyped /\ (Fault \/ UNCHANGED faults) /\ UNCHANGED kills => CountersTyped'
  /\ CountersTyped /\ UNCHANGED faults /\ kills < MaxKills /\ kills' = kills + 1 => CountersTyped'
BY CentralAssumption DEF CountersTyped, Fault

\* An agent that moves keeps its id.
LEMMA MovesTyped ==
  ASSUME AgentsTyped, NEW m \in Machines, NEW pc \in PC, agent[m].pc # "down",
         MovesTo(m, pc), call' \in [Machines -> Call \cup {None}]
  PROVE  AgentsTyped'
BY DEF AgentsTyped, MovesTo

\* Steps of the agent itself.
LEMMA TypedAgent ==
  ASSUME Typed, NEW m \in Machines,
         (\E e \in Events : Record(m, e)) \/ Start(m) \/ WriteId(m) \/ Connect(m)
  PROVE  Typed'
<1> USE DEF Typed
<1>1. ASSUME NEW e \in Events, Record(m, e) PROVE Typed'
  <2>1. HostsTyped'
    BY <1>1 DEF Record, HostsTyped
  <2> QED BY <1>1, <2>1, SameMemory, SameTables, Counting DEF Record, AgentsTyped
<1>2. ASSUME NEW id \in Ids, NEW pc \in {"id", "connect"}, UNCHANGED call,
             agent' = [agent EXCEPT ![m] = [Down EXCEPT !.pc = pc, !.id = id]]
      PROVE  AgentsTyped'
  <2> DEFINE a == [Down EXCEPT !.pc = pc, !.id = id]
  <2>1. a \in Agent /\ a.id = id /\ ~a.waiting
    BY DEF Down, Agent, PC
  <2> QED BY <1>2, <2>1 DEF AgentsTyped
<1>3. FreeIds # {} => FreshId \in Ids
  BY DEF FreeIds, FreshId
<1>4. CASE Start(m)
  <2>1. CASE ReadId(m)
    <3>1. AgentsTyped' /\ HostsTyped'
      BY <1>2, <1>4, <2>1 DEF Start, ReadId, HostsTyped
    <3> QED BY <1>4, <2>1, <3>1, SameMemory, SameTables, Counting DEF Start, ReadId
  <2>2. CASE DrawId(m)
    <3>1. FreshId \in Ids /\ names' = [names EXCEPT ![m] = names[m] \cup {FreshId}]
      BY <1>3, <2>2 DEF DrawId
    <3>2. AgentsTyped'
      BY <1>2, <1>4, <2>2, <3>1 DEF DrawId, Start
    <3>3. HostsTyped'
      BY <1>4, <2>2, <3>1 DEF DrawId, HostsTyped, Start
    <3>4. Fault \/ UNCHANGED faults
      BY <2>2 DEF DrawId
    <3> QED BY <1>4, <3>2, <3>3, <3>4, SameMemory, SameTables, Counting DEF Start
  <2> QED BY <1>4, <2>1, <2>2 DEF Start
<1>5. CASE WriteId(m)
  <2>1. MovesTo(m, "connect")
    BY <1>5, GotoEffect DEF WriteId, PC
  <2>2. AgentsTyped'
    BY <1>5, <2>1, MovesTyped DEF WriteId, PC, AgentsTyped
  <2>3. HostsTyped'
    BY <1>5 DEF WriteId, HostsTyped, AgentsTyped
  <2>4. Fault \/ UNCHANGED faults
    BY <1>5 DEF WriteId
  <2> QED BY <1>5, <2>2, <2>3, <2>4, SameMemory, SameTables, Counting DEF WriteId
<1>6. CASE Connect(m)
  <2>1. MovesTo(m, "register") \/ MovesTo(m, "alone")
    BY <1>6, GotoEffect DEF Connect, PC, Op
  <2>2. AgentsTyped'
    BY <1>6, <2>1, MovesTyped DEF Connect, PC, Op, AgentsTyped
  <2>3. Fault \/ UNCHANGED faults
    BY <1>6 DEF Connect
  <2> QED BY <1>6, <2>2, <2>3, SameHosts, SameMemory, SameTables, Counting DEF Connect
<1> QED BY <1>1, <1>4, <1>5, <1>6

\* Calls begin and break.
LEMMA TypedCalls ==
  ASSUME Typed, NEW m \in Machines, Send(m) \/ Lost(m) \/ KillAgent(m)
  PROVE  Typed'
<1> USE DEF Typed
<1>1. CASE Send(m)
  <2>1. Batch(m) \subseteq Serious /\ agent[m].id \in Ids /\ agent[m] \in Agent
    BY <1>1 DEF Batch, Send, Op, AgentsTyped
  <2>2. CASE Goto(m, "heartbeat") /\ UNCHANGED call
    <3>1. MovesTo(m, "heartbeat")
      BY <2>2, GotoEffect DEF PC, Op
    <3>2. AgentsTyped'
      BY <1>1, <2>2, <3>1, MovesTyped DEF Send, PC, Op, AgentsTyped
    <3> QED BY <1>1, <3>2, SameHosts, SameMemory, SameTables, Counting DEF Send
  <2>3. CASE ~(Goto(m, "heartbeat") /\ UNCHANGED call)
    <3> DEFINE c == [op |-> agent[m].pc, at |-> First(agent[m].pc), id |-> agent[m].id,
                     todo |-> IF agent[m].pc = "report" THEN Batch(m) ELSE {}]
    <3>1. /\ call' = [call EXCEPT ![m] = c]
          /\ agent' = [agent EXCEPT ![m] = [agent[m] EXCEPT !.waiting = TRUE]]
      BY <1>1, <2>1, <2>3 DEF Send
    <3>2. agent[m].pc \in Op /\ First(agent[m].pc) \in {"map", "row", "lock"}
      BY <1>1 DEF Send, First, Op
    <3>3. c \in Call /\ [agent[m] EXCEPT !.waiting = TRUE] \in Agent
      BY <2>1, <3>2 DEF Call, Agent
    <3>4. AgentsTyped'
      BY <2>1, <3>1, <3>2, <3>3 DEF AgentsTyped, Agent
    <3> QED BY <1>1, <3>4, SameHosts, SameMemory, SameTables, Counting DEF Send
  <2> QED BY <2>2, <2>3
<1>2. CASE Lost(m)
  <2>1. MovesTo(m, Following(agent[m].pc)) /\ Following(agent[m].pc) \in PC
    BY <1>2, GotoEffect, FollowingIsOp DEF Lost, PC
  <2>2. agent[m].pc # "down"
    BY <1>2 DEF Lost, AgentsTyped, Op
  <2>3. AgentsTyped'
    BY <1>2, <2>1, <2>2, UnansweredEffect, MovesTyped DEF Lost
  <2> QED BY <1>2, <2>3, SameHosts, SameMemory, SameTables, Counting DEF Lost
<1>3. CASE KillAgent(m)
  <2>1. Down \in Agent /\ ~Down.waiting /\ Down.pc = "down"
    BY DEF Down, Agent, PC
  <2>2. call' \in [Machines -> Call \cup {None}]
    BY <1>3, UnansweredEffect DEF KillAgent
  <2>3. AgentsTyped'
    BY <1>3, <2>1, <2>2 DEF KillAgent, AgentsTyped
  <2> QED BY <1>3, <2>3, SameHosts, SameMemory, SameTables, Counting DEF KillAgent
<1> QED BY <1>1, <1>2, <1>3

\* A step of a handler leaves the agents and calls well typed.
LEMMA TypedHandler ==
  ASSUME Typed, NEW m \in Machines, call[m] # None,
         Answer(m) \/ \E at \in {"map", "row", "lock", "insert"} : Proceed(m, at)
  PROVE  AgentsTyped'
<1> USE DEF Typed
<1>1. CASE Answer(m)
  <2>1. CASE agent' = agent
    BY <1>1, <2>1, AnswerEffect DEF AgentsTyped
  <2>2. CASE agent[m].waiting /\ MovesTo(m, Following(agent[m].pc))
    <3>1. agent[m].pc # "down" /\ Following(agent[m].pc) \in PC
      BY <2>2, FollowingIsOp DEF AgentsTyped, Op, PC
    <3> QED BY <1>1, <2>2, <3>1, AnswerEffect, MovesTyped
  <2> QED BY <1>1, <2>1, <2>2, AnswerEffect
<1>2. CASE \E at \in {"map", "row", "lock", "insert"} : Proceed(m, at)
  BY <1>2, ProceedEffect DEF AgentsTyped
<1> QED BY <1>1, <1>2

\* The handlers of the server.
LEMMA TypedServer ==
  ASSUME Typed, NEW m \in Machines, Handle(m)
  PROVE  Typed'
<1> USE DEF Typed
<1> DEFINE id == call[m].id
<1>0. call[m] # None /\ call[m] \in Call /\ id \in Ids /\ call[m].todo \subseteq Serious
  <2>1. \E op, at : In(m, op, at)
    BY DEF Handle, RegisterMap, RegisterRow, BeatRow, BeatMap, ReportLock, ReportInsert, ReportEnd
  <2> QED BY <2>1, InIsCall
<1>1. CASE RegisterMap(m)
  <2>1. AgentsTyped'
    BY <1>0, <1>1, TypedHandler DEF RegisterMap
  <2>2. MemoryTyped'
    BY <1>0, <1>1 DEF RegisterMap, MemoryTyped
  <2> QED BY <1>1, <2>1, <2>2, SameHosts, SameTables, Counting DEF RegisterMap
<1>2. CASE RegisterRow(m)
  <2>1. AgentsTyped'
    BY <1>0, <1>2, TypedHandler DEF RegisterRow
  <2>2. TablesTyped'
    BY <1>0, <1>2, SeenIsRow DEF RegisterRow, TablesTyped
  <2>3. Fault \/ UNCHANGED faults
    BY <1>2 DEF RegisterRow
  <2> QED BY <1>2, <2>1, <2>2, <2>3, SameHosts, SameMemory, Counting DEF RegisterRow
<1>3. CASE BeatRow(m)
  <2>1. AgentsTyped'
    BY <1>0, <1>3, TypedHandler DEF BeatRow
  <2>2. TablesTyped'
    BY <1>0, <1>3, SeenIsRow DEF BeatRow, TablesTyped
  <2>3. Fault \/ UNCHANGED faults
    BY <1>3 DEF BeatRow
  <2> QED BY <1>3, <2>1, <2>2, <2>3, SameHosts, SameMemory, Counting DEF BeatRow
<1>4. CASE BeatMap(m)
  <2>1. AgentsTyped'
    BY <1>0, <1>4, TypedHandler DEF BeatMap
  <2>2. MemoryTyped'
    BY <1>0, <1>4 DEF BeatMap, MemoryTyped
  <2> QED BY <1>4, <2>1, <2>2, SameHosts, SameTables, Counting DEF BeatMap
<1>5. CASE ReportLock(m)
  <2>1. AgentsTyped'
    BY <1>0, <1>5, TypedHandler DEF ReportLock
  <2>2. MemoryTyped'
    BY <1>0, <1>5 DEF ReportLock, MemoryTyped
  <2> QED BY <1>5, <2>1, <2>2, SameHosts, SameTables, Counting DEF ReportLock
<1>6. CASE ReportInsert(m)
  <2>1. PICK e \in call[m].todo :
          /\ \/ stored[e] = None /\ Store(m, e) /\ UNCHANGED faults
             \/ UNCHANGED <<stored, ring, arrived>> /\ (Fault \/ UNCHANGED faults)
          /\ call' = [call EXCEPT ![m] = [call[m] EXCEPT !.todo = call[m].todo \ {e}]]
    BY <1>6 DEF ReportInsert
  <2>2. AgentsTyped'
    <3>1. [call[m] EXCEPT !.todo = call[m].todo \ {e}] \in Call
      BY <1>0, <2>1 DEF Call
    <3> QED BY <1>6, <2>1, <3>1 DEF AgentsTyped, ReportInsert
  <2>3. MemoryTyped' /\ TablesTyped'
    <3>1. e \in Serious /\ e \in Events /\ [event |-> e, agent |-> id] \in Tagged
      BY <1>0, <2>1, CentralAssumption DEF Tagged
    <3>2. CASE Store(m, e)
      <4>1. MemoryTyped'
        BY <1>6, <3>1, <3>2, AppendProperties DEF Store, MemoryTyped, ReportInsert
      <4>2. TablesTyped'
        BY <1>0, <1>6, <3>1, <3>2 DEF Store, TablesTyped, ReportInsert
      <4> QED BY <4>1, <4>2
    <3>3. CASE UNCHANGED <<stored, ring, arrived>>
      BY <1>6, <3>3 DEF MemoryTyped, TablesTyped, ReportInsert
    <3> QED BY <2>1, <3>2, <3>3
  <2>4. CountersTyped'
    BY <1>6, <2>1, Counting DEF ReportInsert
  <2> QED BY <1>6, <2>2, <2>3, <2>4, SameHosts DEF ReportInsert
<1>7. CASE ReportEnd(m)
  <2>1. AgentsTyped'
    BY <1>0, <1>7, TypedHandler DEF ReportEnd
  <2>2. MemoryTyped'
    BY <1>7, NewestIsSeq, CentralAssumption DEF ReportEnd, MemoryTyped
  <2> QED BY <1>7, <2>1, <2>2, SameHosts, SameTables, Counting DEF ReportEnd
<1> QED BY <1>1, <1>2, <1>3, <1>4, <1>5, <1>6, <1>7 DEF Handle

\* A row that has aged is a row, and one unit older at the most.
LEMMA AgedIsRow ==
  ASSUME NEW r \in Row, r.age <= Stale
  PROVE  [r EXCEPT !.age = @ + 1] \in Row
<1>1. r.age \in 0..Stale + 1
  BY DEF Row
<1>2. r.age + 1 \in 0..Stale + 1
  BY <1>1, CentralAssumption
<1> QED BY <1>2 DEF Row

\* Time, the sweep and a restart of the server.
LEMMA TypedClock ==
  ASSUME Typed, Tick \/ Sweep \/ KillServer
  PROVE  Typed'
<1> USE DEF Typed
<1>1. CASE Tick
  <2>1. TablesTyped'
    <3>1. \A id \in Ids : row'[id] \in Row \cup {None}
      <4> SUFFICES ASSUME NEW id \in Ids PROVE row'[id] \in Row \cup {None}
        OBVIOUS
      <4>1. row'[id] = IF row[id] = None \/ row[id].age > Stale THEN row[id]
                       ELSE [row[id] EXCEPT !.age = @ + 1]
        BY <1>1 DEF Tick
      <4>2. row[id] \in Row \cup {None}
        BY DEF TablesTyped
      <4>3. row[id] # None => (row[id].age > Stale \/ row[id].age <= Stale)
        BY <4>2, CentralAssumption DEF Row
      <4> QED BY <4>1, <4>2, <4>3, AgedIsRow
    <3> QED BY <1>1, <3>1 DEF Tick, TablesTyped
  <2> QED BY <1>1, <2>1, SameHosts, SameMemory, Counting DEF Tick, AgentsTyped
<1>2. CASE Sweep
  <2>1. TablesTyped'
    BY <1>2 DEF Sweep, TablesTyped, Row
  <2> QED BY <1>2, <2>1, SameHosts, SameMemory, Counting DEF Sweep, AgentsTyped
<1>3. CASE KillServer
  <2>1. AgentsTyped'
    <3>1. \A m \in Machines :
            /\ agent'[m] \in Agent /\ agent'[m].id = agent[m].id /\ ~agent'[m].waiting
            /\ agent'[m].pc = agent[m].pc \/ agent[m].pc \in Op
      <4> SUFFICES ASSUME NEW m \in Machines
                   PROVE  /\ agent'[m] \in Agent /\ agent'[m].id = agent[m].id /\ ~agent'[m].waiting
                          /\ agent'[m].pc = agent[m].pc \/ agent[m].pc \in Op
        OBVIOUS
      <4>1. agent[m] \in Agent /\ Following(agent[m].pc) \in PC
        BY FollowingIsOp DEF AgentsTyped, PC
      <4>2. agent'[m] = IF agent[m].waiting
                        THEN [agent[m] EXCEPT !.pc = Following(agent[m].pc), !.waiting = FALSE]
                        ELSE agent[m]
        BY <1>3, <4>1 DEF KillServer, Agent
      <4> QED BY <4>1, <4>2 DEF AgentsTyped, Agent
    <3> QED BY <1>3, <3>1 DEF KillServer, AgentsTyped, Op
  <2>2. MemoryTyped'
    <3>1. ring' = <<>> /\ arrived' = <<>> /\ known' = {} /\ beats' = {} /\ holder' = None
      BY <1>3 DEF KillServer
    <3>2. ring' \in Seq(Tagged) /\ arrived' \in Seq(Serious)
      BY <3>1
    <3> QED BY <3>1, <3>2 DEF MemoryTyped
  <2> QED BY <1>3, <2>1, <2>2, SameHosts, SameTables, Counting DEF KillServer
<1> QED BY <1>1, <1>2, <1>3

LEMMA TypedNext == Typed /\ [Next]_vars => Typed'
<1> SUFFICES ASSUME Typed, [Next]_vars PROVE Typed'
  OBVIOUS
<1>1. CASE UNCHANGED vars
  BY <1>1 DEF vars, Typed, HostsTyped, AgentsTyped, MemoryTyped, TablesTyped, CountersTyped
<1>2. CASE Next
  BY <1>2, TypedAgent, TypedCalls, TypedServer, TypedClock DEF Next
<1> QED BY <1>1, <1>2

LEMMA TypedHolds == Spec => []Typed
BY TypedInit, TypedNext, PTL DEF Spec

\* The variables have their types, whatever is killed, lost or sent again.
THEOREM CentralTypes == Spec => []TypeOK
BY TypedHolds, TypedIsTypeOK, PTL

---------------------------------------------------------------------------
(* Rows: who is listed, and who is offline                                 *)

\* Memory is lost, rows are not: who was greeted has a row, or has none that
\* could be written.
Rowed == \A id \in greeted : row[id] # None \/ id \in unsaved

LEMMA RowsNext ==
  ASSUME Typed, Rowed, OfflineIsSilent, [Next]_vars
  PROVE  Rowed' /\ OfflineIsSilent'
<1> USE DEF Rowed, OfflineIsSilent
<1>0. row \in [Ids -> Row \cup {None}] /\ greeted \subseteq Ids /\ unsaved \subseteq Ids
  BY DEF Typed, TablesTyped
<1>1. ASSUME NEW m \in Machines, RegisterRow(m) PROVE Rowed' /\ OfflineIsSilent'
  <2>1. call[m].id \in Ids
    BY <1>1, InIsCall DEF RegisterRow
  <2>2. greeted' = greeted \cup {call[m].id}
    BY <1>1 DEF RegisterRow
  <2>3. CASE row' = [row EXCEPT ![call[m].id] = Seen] /\ unsaved' = unsaved \ {call[m].id}
    BY <1>0, <2>1, <2>2, <2>3, SeenIsRow
  <2>4. CASE UNCHANGED row /\ unsaved' = unsaved \cup {call[m].id}
    BY <1>0, <2>1, <2>2, <2>4
  <2> QED BY <1>1, <2>3, <2>4 DEF RegisterRow
<1>2. ASSUME NEW m \in Machines, BeatRow(m) PROVE Rowed' /\ OfflineIsSilent'
  <2>1. call[m].id \in Ids
    BY <1>2, InIsCall DEF BeatRow
  <2> QED BY <1>0, <1>2, <2>1, SeenIsRow DEF BeatRow
<1>3. CASE Tick
  <2>1. \A id \in Ids : row[id] # None =>
          row'[id] # None /\ row'[id].online = row[id].online /\ row'[id].age >= row[id].age
    <3> SUFFICES ASSUME NEW id \in Ids, row[id] # None
                 PROVE  /\ row'[id] # None /\ row'[id].online = row[id].online
                        /\ row'[id].age >= row[id].age
      OBVIOUS
    <3>1. row[id] \in Row /\ row[id].age \in 0..Stale + 1
      BY <1>0 DEF Row
    <3>2. CASE row'[id] = row[id]
      BY <3>1, <3>2, CentralAssumption
    <3>3. CASE row[id].age <= Stale /\ row'[id] = [row[id] EXCEPT !.age = @ + 1]
      <4>1. row'[id].online = row[id].online /\ row'[id].age = row[id].age + 1
        BY <3>1, <3>3 DEF Row
      <4>2. row'[id] \in Row
        BY <3>1, <3>3, AgedIsRow
      <4>3. row'[id] # None
        BY <4>2, CentralAssumption
      <4> QED BY <3>1, <4>1, <4>3, CentralAssumption
    <3> QED BY <1>3, <3>1, <3>2, <3>3, CentralAssumption DEF Tick
  <2>2. \A id \in Ids : row'[id] # None => row[id] # None /\ row[id].age \in Nat /\ row'[id].age \in Nat
    <3>1. \A id \in Ids : row[id] = None => row'[id] = None
      BY <1>3 DEF Tick
    <3>2. row' \in [Ids -> Row \cup {None}]
      BY <1>3, TypedClock DEF Typed, TablesTyped
    <3> QED BY <1>0, <3>1, <3>2, CentralAssumption DEF Row
  <2> QED BY <1>0, <1>3, <2>1, <2>2, CentralAssumption DEF Tick
<1>4. CASE Sweep
  <2>1. \A id \in Ids : row[id] # None => row'[id] # None /\ row'[id].age = row[id].age
    <3> SUFFICES ASSUME NEW id \in Ids, row[id] # None
                 PROVE  row'[id] # None /\ row'[id].age = row[id].age
      OBVIOUS
    <3>1. row[id] \in Row
      BY <1>0
    <3>2. row'[id] = row[id] \/ row'[id] = [row[id] EXCEPT !.online = FALSE]
      BY <1>4 DEF Sweep
    <3>3. row'[id] \in Row /\ row'[id].age = row[id].age
      BY <3>1, <3>2 DEF Row
    <3> QED BY <3>3, CentralAssumption
  <2>2. \A id \in Ids : row[id] = None => row'[id] = None
    BY <1>4 DEF Sweep
  <2>3. \A id \in Ids : row'[id] = row[id] \/ row[id].age > Stale
    BY <1>4 DEF Sweep
  <2> QED BY <1>0, <1>4, <2>1, <2>2, <2>3 DEF Sweep
<1>5. UNCHANGED <<row, greeted, unsaved>> => Rowed' /\ OfflineIsSilent'
  OBVIOUS
<1>6. ASSUME NEW m \in Machines,
             \/ \E e \in Events : Record(m, e)
             \/ Start(m) \/ WriteId(m) \/ Connect(m) \/ Send(m) \/ Lost(m) \/ KillAgent(m)
      PROVE  Rowed' /\ OfflineIsSilent'
  BY <1>5, <1>6 DEF Record, Start, WriteId, Connect, Send, Lost, KillAgent
<1>7. ASSUME NEW m \in Machines,
             RegisterMap(m) \/ BeatMap(m) \/ ReportLock(m) \/ ReportInsert(m) \/ ReportEnd(m)
      PROVE  Rowed' /\ OfflineIsSilent'
  BY <1>5, <1>7 DEF RegisterMap, BeatMap, ReportLock, ReportInsert, ReportEnd
<1>8. CASE KillServer \/ UNCHANGED vars
  BY <1>5, <1>8 DEF KillServer, vars
<1> QED BY <1>1, <1>2, <1>3, <1>4, <1>6, <1>7, <1>8 DEF Next, Handle

LEMMA RowsHold == Spec => [](Rowed /\ OfflineIsSilent)
<1>1. Init => Rowed /\ OfflineIsSilent
  BY DEF Init, Rowed, OfflineIsSilent
<1>2. Typed /\ Rowed /\ OfflineIsSilent /\ [Next]_vars => (Rowed /\ OfflineIsSilent)'
  BY RowsNext
<1> QED BY <1>1, <1>2, TypedHolds, PTL DEF Spec

\* However heartbeats, sweeps, restarts and lost registrations interleave, an
\* agent is called offline only after a silence.
THEOREM OfflineAfterSilence == Spec => []OfflineIsSilent
BY RowsHold, PTL

\* A registered agent stays listed, by a restarted server too, unless its
\* registration could not be written.
THEOREM RegisteredIsListed == Spec => []Listed
<1>1. Typed /\ Rowed => Listed
  BY DEF Typed, TablesTyped, Rowed, Listed, GetAgents
<1> QED BY <1>1, TypedHolds, RowsHold, PTL
---------------------------------------------------------------------------
(* The ring                                                                *)

\* Who inserts has the lock.
Held == \A m \in Machines : In(m, "report", "insert") => holder = m

\* The ring is the end of what arrived, as long as it may be.
RingTail ==
  /\ Len(ring) <= Len(arrived)
  /\ \A i \in 1..Len(ring) : ring[i].event = arrived[Len(arrived) - Len(ring) + i]
  /\ Len(ring) >= Ring \/ Len(ring) = Len(arrived)
  /\ holder = None => Len(ring) <= Ring

RingKept ==
  /\ \A i, j \in 1..Len(ring) : ring[i].event = ring[j].event => i = j
  /\ \A i \in 1..Len(ring) : stored[ring[i].event] = ring[i].agent

Ringed == Held /\ RingTail /\ RingKept

\* Steps that take no lock and insert nothing.
LEMMA HeldElsewhere ==
  ASSUME Typed, Held, UNCHANGED holder,
         \A m \in Machines : In(m, "report", "insert")' => In(m, "report", "insert")
  PROVE  Held'
BY DEF Held

LEMMA SameCallsIn ==
  ASSUME NEW m, call'[m] = call[m] \/ call'[m] = None, In(m, "report", "insert")'
  PROVE  In(m, "report", "insert")
BY DEF In

LEMMA HeldNext ==
  ASSUME Typed, Held, [Next]_vars
  PROVE  Held'
<1>1. CASE UNCHANGED vars \/ Tick \/ Sweep
  BY <1>1 DEF Held, In, vars, Tick, Sweep, memory
<1>2. CASE KillServer
  BY <1>2 DEF KillServer, Held, In
<1>3. ASSUME NEW m \in Machines,
             (\E e \in Events : Record(m, e)) \/ Start(m) \/ WriteId(m) \/ Connect(m)
      PROVE  Held'
  BY <1>3 DEF Held, In, Record, Start, WriteId, Connect, memory
<1>4. ASSUME NEW m \in Machines, Send(m) PROVE Held'
  <2>1. UNCHANGED holder
    BY <1>4 DEF Send, memory
  <2>2. CASE UNCHANGED call
    BY <2>1, <2>2 DEF Held, In
  <2>3. CASE ~UNCHANGED call
    <3>1. PICK todo : call' = [call EXCEPT ![m] = [op |-> agent[m].pc, at |-> First(agent[m].pc),
                                                 id |-> agent[m].id, todo |-> todo]]
      BY <1>4, <2>3 DEF Send
    <3>2. First(agent[m].pc) # "insert"
      BY <1>4 DEF Send, First, Op
    <3>3. ~In(m, "report", "insert")'
      BY <3>1, <3>2 DEF In, Typed, AgentsTyped
    <3>4. \A n \in Machines \ {m} : call'[n] = call[n]
      BY <3>1 DEF Typed, AgentsTyped
    <3> QED BY <2>1, <3>3, <3>4, SameCallsIn, HeldElsewhere
  <2> QED BY <2>2, <2>3
<1>5. ASSUME NEW m \in Machines, Lost(m) \/ KillAgent(m) PROVE Held'
  <2>1. \A n \in Machines : call'[n] = call[n] \/ call'[n] = None
    BY <1>5, UnansweredEffect DEF Lost, KillAgent
  <2>2. UNCHANGED holder
    BY <1>5 DEF Lost, KillAgent, memory
  <2> QED BY <2>1, <2>2, SameCallsIn, HeldElsewhere
<1>6. ASSUME NEW m \in Machines, RegisterRow(m) \/ BeatMap(m) PROVE Held'
  <2>1. call[m] # None /\ Answer(m) /\ UNCHANGED holder
    BY <1>6, InIsCall DEF RegisterRow, BeatMap, memory
  <2>2. \A n \in Machines : call'[n] = call[n] \/ call'[n] = None
    BY <2>1, AnswerEffect
  <2> QED BY <2>1, <2>2, SameCallsIn, HeldElsewhere
<1>7. ASSUME NEW m \in Machines, RegisterMap(m) \/ BeatRow(m) PROVE Held'
  <2>1. call[m] # None /\ UNCHANGED holder /\ (Proceed(m, "row") \/ Proceed(m, "map"))
    BY <1>7, InIsCall DEF RegisterMap, BeatRow, memory
  <2>2. /\ call'[m].at # "insert"
        /\ \A n \in Machines \ {m} : call'[n] = call[n]
    BY <2>1, ProceedEffect
  <2>3. ~In(m, "report", "insert")'
    BY <2>2 DEF In
  <2> QED BY <2>1, <2>2, <2>3, SameCallsIn, HeldElsewhere
<1>8. ASSUME NEW m \in Machines, ReportLock(m) PROVE Held'
  <2>1. /\ call[m] # None /\ holder = None /\ holder' = m
        /\ Proceed(m, "insert")
    BY <1>8, InIsCall DEF ReportLock
  <2>2. \A n \in Machines \ {m} : call'[n] = call[n]
    BY <2>1, ProceedEffect
  <2> QED BY <2>1, <2>2, SameCallsIn, CentralAssumption DEF Held
<1>9. ASSUME NEW m \in Machines, ReportInsert(m) PROVE Held'
  <2>1. In(m, "report", "insert") /\ UNCHANGED holder
    BY <1>9 DEF ReportInsert
  <2>2. \A n \in Machines \ {m} : call'[n] = call[n]
    BY <1>9 DEF ReportInsert, Typed, AgentsTyped
  <2> QED BY <2>1, <2>2, SameCallsIn, HeldElsewhere
<1>10. ASSUME NEW m \in Machines, ReportEnd(m) PROVE Held'
  <2>1. call[m] # None /\ Answer(m) /\ In(m, "report", "insert")
    BY <1>10, InIsCall DEF ReportEnd
  <2>2. call'[m] = None /\ \A n \in Machines \ {m} : call'[n] = call[n]
    BY <2>1, AnswerEffect
  <2> QED BY <2>1, <2>2, SameCallsIn DEF Held, In
<1> QED BY <1>1, <1>2, <1>3, <1>4, <1>5, <1>6, <1>7, <1>8, <1>9, <1>10 DEF Next, Handle

\* An event that is stored for the first time is not in the ring.
LEMMA StoreRing ==
  ASSUME Typed, RingTail, RingKept, NEW m \in Machines, NEW e \in Serious,
         call[m].id \in Ids, stored[e] = None, Store(m, e), holder # None, UNCHANGED holder
  PROVE  RingTail' /\ RingKept'
<1> DEFINE r == [event |-> e, agent |-> call[m].id]
<1>1. /\ ring \in Seq(Tagged) /\ arrived \in Seq(Serious) /\ r \in Tagged /\ e \in Events
      /\ stored \in [Events -> Ids \cup {None}]
  BY CentralAssumption DEF Typed, MemoryTyped, TablesTyped, Tagged
<1>2. /\ ring' \in Seq(Tagged) /\ Len(ring') = Len(ring) + 1
      /\ \A i \in 1..Len(ring) : ring'[i] = ring[i]
      /\ ring'[Len(ring) + 1] = r
  BY <1>1, AppendProperties DEF Store
<1>3. /\ arrived' \in Seq(Serious) /\ Len(arrived') = Len(arrived) + 1
      /\ \A i \in 1..Len(arrived) : arrived'[i] = arrived[i]
      /\ arrived'[Len(arrived) + 1] = e
  BY <1>1, AppendProperties DEF Store
<1>4. \A i \in 1..Len(ring) : /\ ring[i].event \in Serious /\ ring[i].agent \in Ids
                              /\ stored[ring[i].event] = ring[i].agent
                              /\ ring[i].event # e
  <2> SUFFICES ASSUME NEW i \in 1..Len(ring)
               PROVE  /\ ring[i].event \in Serious /\ ring[i].agent \in Ids
                      /\ stored[ring[i].event] = ring[i].agent
                      /\ ring[i].event # e
    OBVIOUS
  <2>1. ring[i] \in Tagged
    BY <1>1
  <2>2. ring[i].event \in Serious /\ ring[i].agent \in Ids
    BY <2>1 DEF Tagged
  <2>3. stored[ring[i].event] = ring[i].agent
    BY DEF RingKept
  <2> QED BY <2>2, <2>3, CentralAssumption
<1>5. /\ stored'[e] = call[m].id
      /\ \A x \in Events \ {e} : stored'[x] = stored[x]
  BY <1>1 DEF Store
<1>6. RingKept'
  <2>1. \A i \in 1..Len(ring) : ring'[i].event = ring[i].event /\ ring'[i].agent = ring[i].agent
    BY <1>2
  <2>2. \A i \in 1..Len(ring') : i \in 1..Len(ring) \/ i = Len(ring) + 1
    BY <1>1, <1>2
  <2>3. ring'[Len(ring) + 1].event = e /\ ring'[Len(ring) + 1].agent = call[m].id
    BY <1>2
  <2>4. \A i, j \in 1..Len(ring') : ring'[i].event = ring'[j].event => i = j
    BY <1>4, <2>1, <2>2, <2>3 DEF RingKept
  <2>5. \A i \in 1..Len(ring') : stored'[ring'[i].event] = ring'[i].agent
    BY <1>4, <1>5, <2>1, <2>2, <2>3, CentralAssumption
  <2> QED BY <2>4, <2>5 DEF RingKept
<1>7. RingTail'
  <2>1. Len(ring) \in Nat /\ Len(arrived) \in Nat
    BY <1>1
  <2>2. \A i \in 1..Len(ring') : ring'[i].event = arrived'[Len(arrived') - Len(ring') + i]
    <3> SUFFICES ASSUME NEW i \in 1..Len(ring')
                 PROVE  ring'[i].event = arrived'[Len(arrived') - Len(ring') + i]
      OBVIOUS
    <3>1. CASE i = Len(ring) + 1
      BY <1>2, <1>3, <2>1, <3>1
    <3>2. CASE i \in 1..Len(ring)
      <4>1. Len(arrived) - Len(ring) + i \in 1..Len(arrived)
        BY <2>1, <3>2 DEF RingTail
      <4>2. Len(arrived') - Len(ring') + i = Len(arrived) - Len(ring) + i
        BY <1>2, <1>3, <2>1
      <4> QED BY <1>2, <1>3, <3>2, <4>1, <4>2 DEF RingTail
    <3> QED BY <1>2, <2>1, <3>1, <3>2
  <2>3. /\ Len(ring') <= Len(arrived')
        /\ Len(ring') >= Ring \/ Len(ring') = Len(arrived')
    BY <1>2, <1>3, <2>1, CentralAssumption DEF RingTail
  <2> QED BY <2>2, <2>3 DEF RingTail
<1> QED BY <1>6, <1>7

\* What is drained are the oldest.
LEMMA TrimRing ==
  ASSUME Typed, RingTail, RingKept, ring' = Newest(ring, Ring), UNCHANGED <<stored, arrived>>
  PROVE  RingTail' /\ RingKept'
<1> DEFINE d == Len(ring) - Len(ring')
<1>1. ring \in Seq(Tagged) /\ Len(arrived) \in Nat /\ Len(ring) \in Nat /\ Ring \in Nat
  BY CentralAssumption DEF Typed, MemoryTyped
<1>2. /\ Len(ring') = IF Len(ring) <= Ring THEN Len(ring) ELSE Ring
      /\ \A i \in 1..Len(ring') : ring'[i] = ring[d + i]
  BY <1>1, NewestIsSeq
<1>3. d \in Nat /\ \A i \in 1..Len(ring') : d + i \in 1..Len(ring)
  BY <1>1, <1>2
<1>4. RingKept'
  <2>1. \A i, j \in 1..Len(ring') : ring'[i].event = ring'[j].event => d + i = d + j
    <3> SUFFICES ASSUME NEW i \in 1..Len(ring'), NEW j \in 1..Len(ring'),
                        ring'[i].event = ring'[j].event
                 PROVE  d + i = d + j
      OBVIOUS
    <3>1. d + i \in 1..Len(ring) /\ d + j \in 1..Len(ring)
      BY <1>3
    <3>2. ring[d + i].event = ring[d + j].event
      BY <1>2
    <3> HIDE DEF d
    <3> QED BY <3>1, <3>2 DEF RingKept
  <2>2. \A i, j \in 1..Len(ring') : ring'[i].event = ring'[j].event => i = j
    BY <1>1, <1>2, <1>3, <2>1
  <2> QED BY <1>2, <1>3, <2>2 DEF RingKept
<1>5. RingTail'
  <2>1. \A i \in 1..Len(ring') : ring'[i].event = arrived[Len(arrived) - Len(ring) + (d + i)]
    BY <1>2, <1>3 DEF RingTail
  <2>2. \A i \in 1..Len(ring') :
          Len(arrived) - Len(ring) + (d + i) = Len(arrived) - Len(ring') + i
    BY <1>1, <1>2
  <2>3. \A i \in 1..Len(ring') : ring'[i].event = arrived[Len(arrived) - Len(ring') + i]
    BY <2>1, <2>2
  <2>4. /\ Len(ring') <= Len(arrived) /\ Len(ring') <= Ring
        /\ Len(ring') >= Ring \/ Len(ring') = Len(arrived)
    BY <1>1, <1>2 DEF RingTail
  <2> QED BY <2>3, <2>4 DEF RingTail
<1> QED BY <1>4, <1>5

LEMMA RingNext ==
  ASSUME Typed, Ringed, [Next]_vars
  PROVE  Ringed'
<1> USE DEF Ringed
<1>1. Held'
  BY HeldNext
<1>2. UNCHANGED <<ring, arrived, holder, stored>> => RingTail' /\ RingKept'
  BY DEF RingTail, RingKept
<1>3. ASSUME NEW m \in Machines, ReportLock(m) PROVE Ringed'
  <2>1. UNCHANGED <<ring, arrived, stored>> /\ holder = None /\ holder' # None
    BY <1>3, CentralAssumption DEF ReportLock
  <2> QED BY <1>1, <2>1 DEF RingTail, RingKept
<1>4. ASSUME NEW m \in Machines, ReportInsert(m) PROVE Ringed'
  <2>1. /\ In(m, "report", "insert") /\ call[m].id \in Ids /\ call[m].todo \subseteq Serious
        /\ UNCHANGED holder
    BY <1>4, InIsCall DEF ReportInsert
  <2>2. holder = m /\ holder # None
    BY <2>1, CentralAssumption DEF Held
  <2>3. CASE UNCHANGED <<ring, arrived, stored>>
    BY <1>1, <1>2, <2>1, <2>3
  <2>4. ASSUME NEW e \in call[m].todo, stored[e] = None, Store(m, e) PROVE Ringed'
    BY <1>1, <2>1, <2>2, <2>4, StoreRing
  <2> QED BY <1>4, <2>3, <2>4 DEF ReportInsert
<1>5. ASSUME NEW m \in Machines, ReportEnd(m) PROVE Ringed'
  BY <1>1, <1>5, TrimRing DEF ReportEnd
<1>6. CASE KillServer
  <2>1. ring' = <<>> /\ arrived' = <<>> /\ UNCHANGED stored
    BY <1>6 DEF KillServer
  <2>2. Len(ring') = 0 /\ Len(arrived') = 0
    BY <2>1
  <2> QED BY <1>1, <2>2, CentralAssumption DEF RingTail, RingKept
<1>7. ASSUME NEW m \in Machines,
             \/ \E e \in Events : Record(m, e)
             \/ Start(m) \/ WriteId(m) \/ Connect(m) \/ Send(m) \/ Lost(m) \/ KillAgent(m)
      PROVE  Ringed'
  BY <1>1, <1>2, <1>7 DEF Record, Start, WriteId, Connect, Send, Lost, KillAgent, memory
<1>8. ASSUME NEW m \in Machines,
             RegisterMap(m) \/ RegisterRow(m) \/ BeatRow(m) \/ BeatMap(m)
      PROVE  Ringed'
  BY <1>1, <1>2, <1>8 DEF RegisterMap, RegisterRow, BeatRow, BeatMap, memory
<1>9. CASE Tick \/ Sweep \/ UNCHANGED vars
  BY <1>1, <1>2, <1>9 DEF Tick, Sweep, vars, memory
<1> QED BY <1>3, <1>4, <1>5, <1>6, <1>7, <1>8, <1>9 DEF Next, Handle

LEMMA RingHolds == Spec => []Ringed
<1>1. Init => Ringed
  <2> SUFFICES ASSUME Init PROVE Ringed
    OBVIOUS
  <2>1. Len(ring) = 0 /\ Len(arrived) = 0
    BY DEF Init
  <2> QED BY <2>1, CentralAssumption DEF Init, Ringed, Held, RingTail, RingKept, In
<1>2. Typed /\ Ringed /\ [Next]_vars => Ringed'
  BY RingNext
<1> QED BY <1>1, <1>2, TypedHolds, PTL DEF Spec

\* Whatever agents send again, no event is twice in the ring, and the table has
\* each of them from the same agent.
THEOREM RingMatchesTable == Spec => []RingIsStored
<1>1. Typed /\ Ringed => RingIsStored
  <2> SUFFICES ASSUME Typed, Ringed PROVE RingIsStored
    OBVIOUS
  <2>1. DOMAIN ring = 1..Len(ring)
    BY DEF Typed, MemoryTyped
  <2> QED BY <2>1 DEF Ringed, RingKept, RingIsStored, IsInjective
<1> QED BY <1>1, TypedHolds, RingHolds, PTL

\* The ring is the end of what this run of the server stored, and no longer than
\* it may be when no report holds it.
THEOREM RingIsNewest == Spec => []RingIsTail
<1>1. Typed /\ Ringed => RingIsTail
  <2> SUFFICES ASSUME Typed, Ringed PROVE RingIsTail
    OBVIOUS
  <2> DEFINE t == [i \in DOMAIN ring |-> ring[i].event]
             n == Newest(arrived, Len(ring))
  <2>1. /\ ring \in Seq(Tagged) /\ arrived \in Seq(Serious) /\ DOMAIN ring = 1..Len(ring)
        /\ Len(ring) \in Nat /\ Len(arrived) \in Nat /\ Ring \in Nat
    BY CentralAssumption DEF Typed, MemoryTyped
  <2>2. /\ n \in Seq(Serious) /\ Len(n) = Len(ring)
        /\ \A i \in 1..Len(n) : n[i] = arrived[Len(arrived) - Len(ring) + i]
    <3>1. Len(ring) <= Len(arrived)
      BY DEF Ringed, RingTail
    <3>2. /\ n \in Seq(Serious)
          /\ Len(n) = IF Len(arrived) <= Len(ring) THEN Len(arrived) ELSE Len(ring)
          /\ \A i \in 1..Len(n) : n[i] = arrived[Len(arrived) - Len(n) + i]
      BY <2>1, NewestIsSeq
    <3>3. Len(n) = Len(ring)
      BY <2>1, <3>1, <3>2
    <3> QED BY <3>2, <3>3
  <2>3. t \in Seq(Serious) /\ Len(t) = Len(ring) /\ \A i \in 1..Len(ring) : t[i] = n[i]
    <3>1. \A i \in 1..Len(ring) : ring[i].event \in Serious
      <4>1. \A i \in 1..Len(ring) : ring[i] \in Tagged
        BY <2>1
      <4> QED BY <4>1 DEF Tagged
    <3>2. t \in [1..Len(ring) -> Serious]
      BY <2>1, <3>1
    <3> QED BY <2>1, <2>2, <3>2 DEF Ringed, RingTail
  <2>4. t = n
    BY <2>2, <2>3, SeqEqual
  <2>5. Len(Newest(arrived, Ring)) = IF Len(arrived) <= Ring THEN Len(arrived) ELSE Ring
    BY <2>1, NewestIsSeq
  <2>6. holder = None => Len(ring) = Len(Newest(arrived, Ring))
    <3> SUFFICES ASSUME holder = None PROVE Len(ring) = Len(Newest(arrived, Ring))
      OBVIOUS
    <3>1. /\ Len(ring) <= Len(arrived) /\ Len(ring) <= Ring
          /\ Len(ring) >= Ring \/ Len(ring) = Len(arrived)
      BY DEF Ringed, RingTail
    <3> HIDE DEF t, n
    <3>2. CASE Len(arrived) <= Ring
      BY <2>1, <2>5, <3>1, <3>2
    <3>3. CASE ~(Len(arrived) <= Ring)
      <4>1. Len(Newest(arrived, Ring)) = Ring
        BY <2>5, <3>3
      <4>2. Ring \in Nat /\ Len(ring) \in Nat /\ Len(arrived) \in Nat
        BY <2>1
      <4>3. Len(ring) = Ring
        BY <4>2, <3>1, <3>3
      <4> QED BY <4>1, <4>3
    <3> QED BY <3>2, <3>3
  <2> QED BY <2>4, <2>6 DEF RingIsTail
<1> QED BY <1>1, TypedHolds, RingHolds, PTL

---------------------------------------------------------------------------
(* One identity per machine                                                *)

\* Ids belong to the machine that drew them, and the server knows no others.
Named ==
  /\ \A m, n \in Machines : m # n => names[m] \cap names[n] = {}
  /\ \A m \in Machines : agent[m].id \in names[m] \cup {None}
  /\ \A m \in Machines : idFile[m] \in names[m] \cup {None, Torn}
  /\ \A m \in Machines : call[m] # None => call[m].id \in names[m]
  /\ \A id \in GetAgents : \E m \in Machines : id \in names[m]

\* Events belong to the machine that recorded them.
Owned ==
  /\ \A m, n \in Machines : m # n => Range(local[m]) \cap Range(local[n]) = {}
  /\ \A m \in Machines : call[m] # None => call[m].todo \subseteq Range(local[m])
  /\ \A e \in Events : stored[e] # None => \E m \in Machines : e \in Range(local[m])

\* An agent does not speak before its id is in its file, and the server has no
\* other id of the machine.
Settled ==
  \A m \in Machines \ unkept :
    /\ agent[m].pc \notin {"down", "id"} => agent[m].id = idFile[m]
    /\ agent[m].pc = "id" => idFile[m] \notin Ids
    /\ call[m] # None => call[m].id = idFile[m]
    /\ \A id \in names[m] \cap GetAgents : id = idFile[m]
    /\ \A e \in Range(local[m]) : stored[e] \in {None, idFile[m]}

Identified == Named /\ Owned /\ Settled

\* A step that draws no id, writes no file and records no event.
LEMMA IdentifiedHosts ==
  ASSUME Typed, Identified, UNCHANGED hosts,
         \A n \in Machines :
           \/ agent'[n].pc = "down" /\ agent'[n].id = None
           \/ /\ agent'[n].id = agent[n].id
              /\ \/ agent'[n].pc = agent[n].pc
                 \/ {agent[n].pc, agent'[n].pc} \cap {"down", "id"} = {},
         \A n \in Machines : call'[n] # None =>
           \/ call[n] # None /\ call'[n].id = call[n].id /\ call'[n].todo \subseteq call[n].todo
           \/ /\ agent[n].pc \in Op /\ call'[n].id = agent[n].id
              /\ call'[n].todo \subseteq Range(local[n]),
         \A id \in GetAgents' :
           id \in GetAgents \/ \E n \in Machines : call[n] # None /\ id = call[n].id,
         \A e \in Events :
           \/ stored'[e] = stored[e]
           \/ \E n \in Machines : call[n] # None /\ e \in call[n].todo /\ stored'[e] = call[n].id
  PROVE  Identified'
<1>0. /\ idFile' = idFile /\ local' = local /\ names' = names /\ unkept' = unkept
      /\ \A n \in Machines : Range(local[n]) \subseteq Events
      /\ \A n \in Machines : agent[n].pc \in Op => agent[n].id \in Ids
      /\ None \notin Ids
  BY CentralAssumption DEF hosts, Typed, HostsTyped, AgentsTyped, Range, Op
<1>1. Named'
  <2>1. \A n \in Machines : call'[n] # None => call'[n].id \in names[n]
    BY <1>0 DEF Identified, Named
  <2>2. \A id \in GetAgents' : \E m \in Machines : id \in names[m]
    BY DEF Identified, Named
  <2>3. \A m \in Machines : agent'[m].id \in names[m] \cup {None}
    BY DEF Identified, Named
  <2> QED BY <1>0, <2>1, <2>2, <2>3 DEF Identified, Named
<1>2. Owned'
  <2>1. \A n \in Machines : call'[n] # None => call'[n].todo \subseteq Range(local[n])
    BY DEF Identified, Owned
  <2>2. \A e \in Events : stored'[e] # None => \E m \in Machines : e \in Range(local[m])
    BY DEF Identified, Owned
  <2> QED BY <1>0, <2>1, <2>2 DEF Identified, Owned
<1>3. Settled'
  <2> SUFFICES ASSUME NEW m \in Machines \ unkept
               PROVE  /\ agent'[m].pc \notin {"down", "id"} => agent'[m].id = idFile[m]
                      /\ agent'[m].pc = "id" => idFile[m] \notin Ids
                      /\ call'[m] # None => call'[m].id = idFile[m]
                      /\ \A id \in names[m] \cap GetAgents' : id = idFile[m]
                      /\ \A e \in Range(local[m]) : stored'[e] \in {None, idFile[m]}
    BY <1>0 DEF Settled
  <2>1. /\ agent'[m].pc \notin {"down", "id"} => agent'[m].id = idFile[m]
        /\ agent'[m].pc = "id" => idFile[m] \notin Ids
    BY DEF Identified, Settled
  <2>2. call'[m] # None => call'[m].id = idFile[m]
    BY DEF Identified, Settled, Op
  <2>3. ASSUME NEW id \in names[m] \cap GetAgents' PROVE id = idFile[m]
    <3>1. CASE id \in GetAgents
      BY <3>1 DEF Identified, Settled
    <3>2. ASSUME NEW n \in Machines, call[n] # None, id = call[n].id PROVE id = idFile[m]
      <4>1. id \in names[n] /\ id \in names[m]
        BY <3>2 DEF Identified, Named
      <4>2. n = m
        BY <4>1 DEF Identified, Named
      <4> QED BY <3>2, <4>2 DEF Identified, Settled
    <3> QED BY <3>1, <3>2
  <2>4. ASSUME NEW e \in Range(local[m]) PROVE stored'[e] \in {None, idFile[m]}
    <3>0. e \in Events
      BY <1>0
    <3>1. CASE stored'[e] = stored[e]
      BY <3>1 DEF Identified, Settled
    <3>2. ASSUME NEW n \in Machines, call[n] # None, e \in call[n].todo, stored'[e] = call[n].id
          PROVE  stored'[e] \in {None, idFile[m]}
      <4>1. e \in Range(local[n])
        BY <3>2 DEF Identified, Owned
      <4>2. n = m
        BY <4>1 DEF Identified, Owned
      <4> QED BY <3>2, <4>2 DEF Identified, Settled
    <3> QED BY <3>0, <3>1, <3>2
  <2> QED BY <2>1, <2>2, <2>3, <2>4
<1> QED BY <1>1, <1>2, <1>3 DEF Identified

\* The row of an agent comes with its registration and stays.
LEMMA IdentifiedServer ==
  ASSUME Typed, Identified, NEW m \in Machines, Handle(m)
  PROVE  Identified'
<1>0. call[m] # None /\ call[m] \in Call /\ call[m].id \in Ids
  <2>1. \E op, at : In(m, op, at)
    BY DEF Handle, RegisterMap, RegisterRow, BeatRow, BeatMap, ReportLock, ReportInsert, ReportEnd
  <2> QED BY <2>1, InIsCall
<1> DEFINE Agents == \A n \in Machines :
                       /\ agent'[n].id = agent[n].id
                       /\ \/ agent'[n].pc = agent[n].pc
                          \/ {agent[n].pc, agent'[n].pc} \cap {"down", "id"} = {}
           Calls == \A n \in Machines : call'[n] # None =>
                      call[n] # None /\ call'[n].id = call[n].id /\ call'[n].todo \subseteq call[n].todo
<1>1. Answer(m) => Agents /\ Calls
  <2> SUFFICES ASSUME Answer(m) PROVE Agents /\ Calls
    OBVIOUS
  <2>1. Calls
    BY <1>0, AnswerEffect
  <2>2. CASE agent' = agent
    BY <2>1, <2>2
  <2>3. CASE agent[m].waiting /\ MovesTo(m, Following(agent[m].pc))
    <3>1. agent[m].pc \in Op /\ Following(agent[m].pc) \in Op
      BY <2>3, FollowingIsOp DEF Typed, AgentsTyped
    <3>2. {agent[m].pc, agent'[m].pc} \cap {"down", "id"} = {}
      BY <2>3, <3>1 DEF MovesTo, Op
    <3> QED BY <2>1, <2>3, <3>2 DEF MovesTo
  <2> QED BY <1>0, <2>2, <2>3, AnswerEffect
<1>2. (\E at \in {"map", "row", "lock", "insert"} : Proceed(m, at)) => Agents /\ Calls
  BY <1>0, ProceedEffect
<1>3. Agents /\ Calls /\ UNCHANGED hosts
  <2>1. CASE ReportInsert(m)
    <3>1. PICK e \in call[m].todo :
            call' = [call EXCEPT ![m] = [call[m] EXCEPT !.todo = call[m].todo \ {e}]]
      BY <2>1 DEF ReportInsert
    <3>2. call'[m].id = call[m].id /\ call'[m].todo = call[m].todo \ {e}
      BY <1>0, <3>1 DEF Call, Typed, AgentsTyped
    <3>3. \A n \in Machines \ {m} : call'[n] = call[n]
      BY <3>1 DEF Typed, AgentsTyped
    <3> QED BY <1>0, <2>1, <3>1, <3>2, <3>3 DEF ReportInsert
  <2>2. CASE RegisterMap(m) \/ RegisterRow(m) \/ BeatRow(m) \/ BeatMap(m) \/ ReportLock(m) \/ ReportEnd(m)
    BY <1>1, <1>2, <2>2 DEF RegisterMap, RegisterRow, BeatRow, BeatMap, ReportLock, ReportEnd
  <2> QED BY <2>1, <2>2 DEF Handle
<1>4. \A id \in GetAgents' : id \in GetAgents \/ id = call[m].id
  <2>1. known' \subseteq known \cup {call[m].id}
    BY DEF Handle, RegisterMap, RegisterRow, BeatRow, BeatMap, ReportLock, ReportInsert, ReportEnd, memory
  <2>2. \A id \in Ids : row'[id] = row[id] \/ row[id] # None \/ id = call[m].id
    BY DEF Handle, RegisterMap, RegisterRow, BeatRow, BeatMap, ReportLock, ReportInsert, ReportEnd,
           Typed, TablesTyped
  <2> QED BY <2>1, <2>2 DEF GetAgents
<1>5. \A e \in Events : stored'[e] = stored[e] \/ (e \in call[m].todo /\ stored'[e] = call[m].id)
  BY DEF Handle, RegisterMap, RegisterRow, BeatRow, BeatMap, ReportLock, ReportInsert, ReportEnd,
         Store, Typed, TablesTyped
<1> HIDE DEF Agents, Calls
<1>6. /\ \A n \in Machines :
           \/ agent'[n].pc = "down" /\ agent'[n].id = None
           \/ /\ agent'[n].id = agent[n].id
              /\ \/ agent'[n].pc = agent[n].pc
                 \/ {agent[n].pc, agent'[n].pc} \cap {"down", "id"} = {}
      /\ \A n \in Machines : call'[n] # None =>
           call[n] # None /\ call'[n].id = call[n].id /\ call'[n].todo \subseteq call[n].todo
  BY <1>3 DEF Agents, Calls
<1> QED BY <1>0, <1>3, <1>4, <1>5, <1>6, IdentifiedHosts

\* What is recorded is new on every machine.
LEMMA IdentifiedRecord ==
  ASSUME Typed, Identified, NEW m \in Machines, NEW e \in Events, Record(m, e)
  PROVE  Identified'
<1>1. local[m] \in Seq(Events) /\ local' = [local EXCEPT ![m] = Append(local[m], e)]
      /\ local \in [Machines -> Seq(Events)]
  BY DEF Record, Typed, HostsTyped
<1>2. Range(local'[m]) = Range(local[m]) \cup {e}
  <2>1. /\ local'[m] = Append(local[m], e)
        /\ DOMAIN local'[m] = 1..Len(local[m]) + 1 /\ DOMAIN local[m] = 1..Len(local[m])
        /\ Len(local[m]) \in Nat
    BY <1>1, AppendProperties
  <2>2. \A i \in 1..Len(local[m]) : local'[m][i] = local[m][i]
    BY <1>1, <2>1, AppendProperties
  <2>3. local'[m][Len(local[m]) + 1] = e
    BY <1>1, <2>1, AppendProperties
  <2>4. 1..Len(local[m]) + 1 = (1..Len(local[m])) \cup {Len(local[m]) + 1}
    BY <2>1
  <2> QED BY <2>1, <2>2, <2>3, <2>4 DEF Range
<1>3. \A n \in Machines \ {m} : local'[n] = local[n]
  BY <1>1
<1>4. \A n \in Machines : e \notin Range(local[n])
  BY DEF Record
<1>5. stored[e] = None
  BY <1>4 DEF Identified, Owned
<1>6. /\ UNCHANGED <<idFile, agent, call, known, row, stored, names, unkept>>
      /\ GetAgents' = GetAgents
  BY DEF Record, memory, GetAgents
<1>7. Named' /\ Settled'
  BY <1>2, <1>3, <1>5, <1>6 DEF Identified, Named, Settled
<1>8. Owned'
  <2>1. \A n \in Machines : Range(local[n]) \subseteq Range(local'[n])
    BY <1>2, <1>3
  <2>2. \A n, l \in Machines : n # l => Range(local'[n]) \cap Range(local'[l]) = {}
    BY <1>2, <1>3, <1>4 DEF Identified, Owned
  <2> QED BY <1>6, <2>1, <2>2 DEF Identified, Owned
<1> QED BY <1>7, <1>8 DEF Identified

\* An id that is drawn is nobody's, and the server does not know it.
LEMMA FreshIsNew ==
  FreeIds # {} => FreshId \in Ids /\ \A n \in Machines : FreshId \notin names[n]
BY DEF FreeIds, FreshId

LEMMA IdentifiedStart ==
  ASSUME Typed, Identified, NEW m \in Machines, Start(m) \/ WriteId(m)
  PROVE  Identified'
<1>0. /\ UNCHANGED <<local, call, known, row, stored>> /\ GetAgents' = GetAgents
      /\ None \notin Ids /\ Torn \notin Ids
      /\ agent \in [Machines -> Agent] /\ names \in [Machines -> SUBSET Ids]
      /\ idFile \in [Machines -> Ids \cup {None, Torn}] /\ agent[m] \in Agent
      /\ stored \in [Events -> Ids \cup {None}]
      /\ \A n \in Machines : call[n] # None => call[n].id \in Ids
      /\ \A n \in Machines : Range(local[n]) \subseteq Events
  BY CentralAssumption DEF Start, WriteId, memory, GetAgents, Typed, HostsTyped, AgentsTyped,
     TablesTyped, Call, Range
<1>1. Owned'
  BY <1>0 DEF Identified, Owned
<1>2. ASSUME NEW id \in Ids, NEW pc \in {"id", "connect"},
             agent' = [agent EXCEPT ![m] = [Down EXCEPT !.pc = pc, !.id = id]]
      PROVE  /\ agent'[m].pc = pc /\ agent'[m].id = id
             /\ \A n \in Machines \ {m} : agent'[n] = agent[n]
  <2> DEFINE a == [Down EXCEPT !.pc = pc, !.id = id]
  <2>1. a.id = id /\ a.pc = pc
    BY DEF Down
  <2> QED BY <1>0, <1>2, <2>1
<1>3. CASE Start(m) /\ ReadId(m)
  <2>1. /\ idFile[m] \in Ids /\ UNCHANGED <<idFile, names, unkept>>
        /\ agent'[m].pc = "connect" /\ agent'[m].id = idFile[m]
        /\ \A n \in Machines \ {m} : agent'[n] = agent[n]
    BY <1>2, <1>3 DEF ReadId
  <2>2. Named'
    BY <1>0, <2>1 DEF Identified, Named
  <2>3. Settled'
    BY <1>0, <2>1 DEF Identified, Settled
  <2> QED BY <1>1, <2>2, <2>3 DEF Identified
<1>4. CASE Start(m) /\ DrawId(m)
  <2>1. /\ idFile[m] \notin Ids /\ FreshId \in Ids /\ \A n \in Machines : FreshId \notin names[n]
        /\ names'[m] = names[m] \cup {FreshId}
        /\ \A n \in Machines \ {m} : names'[n] = names[n]
    BY <1>0, <1>4, FreshIsNew DEF DrawId
  <2>2. FreshId \notin GetAgents
    BY <2>1 DEF Identified, Named
  <2>3. /\ agent'[m].pc \in {"id", "connect"} /\ agent'[m].id = FreshId
        /\ \A n \in Machines \ {m} : agent'[n] = agent[n]
    BY <1>2, <1>4, <2>1 DEF DrawId
  <2>4. /\ \A n \in Machines \ {m} : idFile'[n] = idFile[n]
        /\ \/ idFile'[m] = Torn /\ agent'[m].pc = "id" /\ unkept' = unkept
           \/ idFile'[m] = idFile[m] /\ unkept' = unkept \cup {m}
    BY <1>0, <1>2, <1>4, <2>1 DEF DrawId
  <2>5. Named'
    <3>1. \A l, n \in Machines : l # n => names'[l] \cap names'[n] = {}
      BY <2>1 DEF Identified, Named
    <3>2. \A n \in Machines : names[n] \subseteq names'[n]
      BY <2>1
    <3>3. \A n \in Machines : agent'[n].id \in names'[n] \cup {None}
      BY <2>1, <2>3, <3>2 DEF Identified, Named
    <3>4. \A n \in Machines : idFile'[n] \in names'[n] \cup {None, Torn}
      BY <2>4, <3>2 DEF Identified, Named
    <3> QED BY <1>0, <3>1, <3>2, <3>3, <3>4 DEF Identified, Named
  <2>6. Settled'
    <3> SUFFICES ASSUME NEW n \in Machines \ unkept'
                 PROVE  /\ agent'[n].pc \notin {"down", "id"} => agent'[n].id = idFile'[n]
                        /\ agent'[n].pc = "id" => idFile'[n] \notin Ids
                        /\ call[n] # None => call[n].id = idFile'[n]
                        /\ \A id \in names'[n] \cap GetAgents : id = idFile'[n]
                        /\ \A e \in Range(local[n]) : stored[e] \in {None, idFile'[n]}
      BY <1>0 DEF Settled
    <3>1. CASE n # m
      BY <2>1, <2>3, <2>4, <3>1 DEF Identified, Settled
    <3>2. CASE n = m
      <4>1. idFile'[m] = Torn /\ agent'[m].pc = "id" /\ m \in Machines \ unkept
        BY <2>4, <3>2
      <4>2. call[m] = None
        BY <1>0, <2>1, <4>1 DEF Identified, Settled
      <4>3. names'[m] \cap GetAgents = {}
        <5>1. \A id \in names[m] \cap GetAgents : id = idFile[m] /\ id \in Ids
          BY <1>0, <4>1 DEF Identified, Settled
        <5> QED BY <2>1, <2>2, <5>1
      <4>4. \A e \in Range(local[m]) : stored[e] = None
        BY <1>0, <2>1, <4>1 DEF Identified, Settled
      <4> QED BY <1>0, <3>2, <4>1, <4>2, <4>3, <4>4
    <3> QED BY <3>1, <3>2
  <2> QED BY <1>1, <2>5, <2>6 DEF Identified
<1>5. CASE WriteId(m)
  <2>1. MovesTo(m, "connect") /\ agent[m].pc = "id" /\ UNCHANGED names
    BY <1>5, GotoEffect DEF WriteId, PC
  <2>2. /\ \A n \in Machines \ {m} : idFile'[n] = idFile[n]
        /\ \/ idFile'[m] = agent[m].id /\ unkept' = unkept
           \/ idFile'[m] = idFile[m] /\ unkept' = unkept \cup {m}
    BY <1>0, <1>5 DEF WriteId
  <2>3. Named'
    BY <1>0, <2>1, <2>2 DEF Identified, Named, MovesTo
  <2>4. Settled'
    <3> SUFFICES ASSUME NEW n \in Machines \ unkept'
                 PROVE  /\ agent'[n].pc \notin {"down", "id"} => agent'[n].id = idFile'[n]
                        /\ agent'[n].pc = "id" => idFile'[n] \notin Ids
                        /\ call[n] # None => call[n].id = idFile'[n]
                        /\ \A id \in names[n] \cap GetAgents : id = idFile'[n]
                        /\ \A e \in Range(local[n]) : stored[e] \in {None, idFile'[n]}
      BY <1>0, <2>1 DEF Settled
    <3>1. CASE n # m
      BY <2>1, <2>2, <3>1 DEF Identified, Settled, MovesTo
    <3>2. CASE n = m
      <4>1. idFile'[m] = agent[m].id /\ m \in Machines \ unkept /\ idFile[m] \notin Ids
        BY <2>1, <2>2, <3>2 DEF Identified, Settled
      <4>2. call[m] = None
        BY <1>0, <4>1 DEF Identified, Settled
      <4>3. names[m] \cap GetAgents = {}
        <5>1. \A id \in names[m] \cap GetAgents : id = idFile[m] /\ id \in Ids
          BY <1>0, <4>1 DEF Identified, Settled
        <5> QED BY <4>1, <5>1
      <4>4. \A e \in Range(local[m]) : stored[e] = None
        BY <1>0, <4>1 DEF Identified, Settled
      <4> QED BY <2>1, <3>2, <4>1, <4>2, <4>3, <4>4 DEF MovesTo
    <3> QED BY <3>1, <3>2
  <2> QED BY <1>1, <2>3, <2>4 DEF Identified
<1> QED BY <1>3, <1>4, <1>5 DEF Start

\* The agent's other steps, the clock and the failures.
LEMMA IdentifiedOthers ==
  ASSUME Typed, Identified,
         \/ \E m \in Machines : Connect(m) \/ Send(m) \/ Lost(m) \/ KillAgent(m)
         \/ Tick \/ Sweep \/ KillServer \/ UNCHANGED vars
  PROVE  Identified'
<1> DEFINE Agents == \A n \in Machines :
                       \/ agent'[n].pc = "down" /\ agent'[n].id = None
                       \/ /\ agent'[n].id = agent[n].id
                          /\ \/ agent'[n].pc = agent[n].pc
                             \/ {agent[n].pc, agent'[n].pc} \cap {"down", "id"} = {}
           Calls == \A n \in Machines : call'[n] # None =>
                      \/ call[n] # None /\ call'[n].id = call[n].id /\ call'[n].todo \subseteq call[n].todo
                      \/ /\ agent[n].pc \in Op /\ call'[n].id = agent[n].id
                         /\ call'[n].todo \subseteq Range(local[n])
           Others == /\ UNCHANGED hosts /\ UNCHANGED stored
                     /\ \A id \in GetAgents' : id \in GetAgents
<1>1. ASSUME NEW m \in Machines, NEW pc \in Op \cup {"alone"}, MovesTo(m, pc),
             agent[m].pc \notin {"down", "id"}
      PROVE  Agents
  BY <1>1 DEF MovesTo, Op
<1>2. (\A n \in Machines : call'[n] = call[n] \/ call'[n] = None) => Calls
  OBVIOUS
<1>3. ASSUME NEW m \in Machines, Connect(m) PROVE Agents /\ Calls /\ Others
  <2>1. MovesTo(m, "register") \/ MovesTo(m, "alone")
    BY <1>3, GotoEffect DEF Connect, PC, Op
  <2> QED BY <1>1, <1>2, <1>3, <2>1 DEF Connect, Op, GetAgents, memory
<1>4. ASSUME NEW m \in Machines, Send(m) PROVE Agents /\ Calls /\ Others
  <2>0. Others /\ agent[m].pc \in Op /\ agent[m] \in Agent /\ agent \in [Machines -> Agent]
    BY <1>4 DEF Send, GetAgents, memory, Typed, AgentsTyped
  <2>1. CASE Goto(m, "heartbeat") /\ UNCHANGED call
    <3>1. MovesTo(m, "heartbeat")
      BY <2>1, GotoEffect DEF PC, Op
    <3>2. Agents
      BY <1>1, <2>0, <3>1 DEF Op
    <3> QED BY <1>2, <2>0, <2>1, <3>2
  <2>2. CASE ~(Goto(m, "heartbeat") /\ UNCHANGED call)
    <3> DEFINE todo == IF agent[m].pc = "report" THEN Batch(m) ELSE {}
               c == [op |-> agent[m].pc, at |-> First(agent[m].pc), id |-> agent[m].id, todo |-> todo]
    <3>1. /\ call' = [call EXCEPT ![m] = c]
          /\ agent' = [agent EXCEPT ![m] = [agent[m] EXCEPT !.waiting = TRUE]]
      BY <1>4, <2>0, <2>2 DEF Send
    <3>2. Agents
      BY <2>0, <3>1 DEF Agent
    <3>3. Range(Newest(local[m], Recent)) \subseteq Range(local[m])
      <4> DEFINE s == local[m]
                 n == Newest(s, Recent)
      <4>1. s \in Seq(Events) /\ Recent \in Nat
        BY CentralAssumption DEF Typed, HostsTyped
      <4>2. /\ n \in Seq(Events) /\ Len(n) = IF Len(s) <= Recent THEN Len(s) ELSE Recent
            /\ \A i \in 1..Len(n) : n[i] = s[Len(s) - Len(n) + i]
        BY <4>1, NewestIsSeq
      <4>4. DOMAIN n = 1..Len(n) /\ DOMAIN s = 1..Len(s) /\ Len(n) \in Nat /\ Len(s) \in Nat
        BY <4>1, <4>2
      <4> HIDE DEF n, s
      <4>3. \A i \in 1..Len(n) : Len(s) - Len(n) + i \in 1..Len(s)
        BY <4>1, <4>2, <4>4
      <4>5. \A i \in DOMAIN n : \E j \in DOMAIN s : n[i] = s[j]
        BY <4>2, <4>3, <4>4
      <4> QED BY <4>5 DEF n, s, Range
    <3>4. c.id = agent[m].id /\ c.todo \subseteq Range(local[m])
      BY <3>3 DEF Batch
    <3>5. call'[m] = c /\ \A n \in Machines \ {m} : call'[n] = call[n]
      BY <3>1 DEF Typed, AgentsTyped
    <3> HIDE DEF c
    <3>6. Calls
      BY <2>0, <3>4, <3>5
    <3> QED BY <2>0, <3>2, <3>6
  <2> QED BY <2>1, <2>2
<1>5. ASSUME NEW m \in Machines, Lost(m) PROVE Agents /\ Calls /\ Others
  <2>1. MovesTo(m, Following(agent[m].pc)) /\ Following(agent[m].pc) \in Op
    BY <1>5, GotoEffect, FollowingIsOp DEF Lost, PC
  <2>2. agent[m].pc \notin {"down", "id"}
    BY <1>5 DEF Lost, Typed, AgentsTyped, Op
  <2>3. Agents
    BY <1>1, <2>1, <2>2
  <2>4. Calls
    BY <1>2, <1>5, UnansweredEffect DEF Lost
  <2> QED BY <1>5, <2>3, <2>4 DEF Lost, GetAgents, memory
<1>6. ASSUME NEW m \in Machines, KillAgent(m) PROVE Agents /\ Calls /\ Others
  <2>1. Calls
    BY <1>2, <1>6, UnansweredEffect DEF KillAgent
  <2>2. Agents
    BY <1>6 DEF KillAgent, Down, Typed, AgentsTyped
  <2> QED BY <1>6, <2>1, <2>2 DEF KillAgent, GetAgents, memory
<1>7. ASSUME Tick \/ Sweep PROVE Agents /\ Calls /\ Others
  <2>1. Agents /\ Calls
    BY <1>7 DEF Tick, Sweep
  <2>2. known' = known /\ \A id \in Ids : row[id] = None => row'[id] = None
    BY <1>7 DEF Tick, Sweep, memory
  <2>3. \A id \in GetAgents' : id \in GetAgents
    BY <2>2 DEF GetAgents
  <2>4. UNCHANGED hosts /\ UNCHANGED stored
    BY <1>7 DEF Tick, Sweep
  <2> QED BY <2>1, <2>3, <2>4
<1>8. ASSUME KillServer PROVE Agents /\ Calls /\ Others
  <2>1. \A n \in Machines :
          /\ agent'[n].id = agent[n].id
          /\ agent'[n].pc = agent[n].pc \/ (agent[n].pc \in Op /\ agent'[n].pc \in Op)
    <3> SUFFICES ASSUME NEW n \in Machines
                 PROVE  /\ agent'[n].id = agent[n].id
                        /\ agent'[n].pc = agent[n].pc \/ (agent[n].pc \in Op /\ agent'[n].pc \in Op)
      OBVIOUS
    <3>1. agent[n] \in Agent /\ Following(agent[n].pc) \in Op
      BY FollowingIsOp DEF Typed, AgentsTyped
    <3>2. agent'[n] = IF agent[n].waiting
                      THEN [agent[n] EXCEPT !.pc = Following(agent[n].pc), !.waiting = FALSE]
                      ELSE agent[n]
      BY <1>8, <3>1 DEF KillServer, Agent
    <3> QED BY <3>1, <3>2 DEF Typed, AgentsTyped, Agent
  <2>2. Agents
    BY <2>1 DEF Op
  <2>3. \A n \in Machines : call'[n] = None
    BY <1>8 DEF KillServer
  <2>4. known' = {} /\ row' = row /\ UNCHANGED hosts /\ UNCHANGED stored
    BY <1>8 DEF KillServer
  <2>5. \A id \in GetAgents' : id \in GetAgents
    BY <2>4 DEF GetAgents
  <2> QED BY <2>2, <2>3, <2>4, <2>5
<1>9. ASSUME UNCHANGED vars PROVE Agents /\ Calls /\ Others
  <2>1. Agents /\ Calls /\ UNCHANGED hosts /\ UNCHANGED stored /\ known' = known /\ row' = row
    BY <1>9 DEF vars, hosts
  <2> QED BY <2>1 DEF GetAgents
<1>10. Agents /\ Calls /\ Others
  <2> HIDE DEF Agents, Calls, Others
  <2> QED BY <1>3, <1>4, <1>5, <1>6, <1>7, <1>8, <1>9
<1> QED BY <1>10, IdentifiedHosts

LEMMA IdentifiedHolds == Spec => []Identified
<1>1. Init => Identified
  <2> SUFFICES ASSUME Init PROVE Identified
    OBVIOUS
  <2>1. Named
    BY DEF Init, Named, GetAgents, Down
  <2>2. \A m \in Machines : Range(local[m]) = {}
    BY DEF Init, Range
  <2>3. Owned
    BY <2>2 DEF Init, Owned
  <2>4. Settled
    BY <2>2 DEF Init, Settled, Down
  <2> QED BY <2>1, <2>3, <2>4 DEF Identified
<1>2. Typed /\ Identified /\ [Next]_vars => Identified'
  BY IdentifiedRecord, IdentifiedStart, IdentifiedServer, IdentifiedOthers DEF Next
<1> QED BY <1>1, <1>2, TypedHolds, PTL DEF Spec

\* Whatever is killed and whenever, an agent-id file torn included, everything the
\* server keeps of a machine bears one id, unless the machine could not write it
\* down.
THEOREM MachineHasOneId == Spec => []OneIdentity
<1>1. Typed /\ Identified => OneIdentity
  <2> SUFFICES ASSUME Typed, Identified, NEW m \in Machines \ unkept
               PROVE  Cardinality(Of(m) \cup (names[m] \cap GetAgents)) <= 1
    BY DEF OneIdentity
  <2> DEFINE S == Of(m) \cup (names[m] \cap GetAgents)
  <2>1. \A id \in S : id = idFile[m]
    BY DEF Identified, Settled, Of
  <2>2. S \in SUBSET {idFile[m]}
    BY <2>1
  <2> HIDE DEF S
  <2>3. Cardinality(S) <= Cardinality({idFile[m]})
    BY <2>2, FS_Singleton, FS_Subset
  <2>4. Cardinality({idFile[m]}) = 1
    BY FS_Singleton
  <2> QED BY <2>3, <2>4 DEF S
<1> QED BY <1>1, TypedHolds, IdentifiedHolds, PTL

=============================================================================
