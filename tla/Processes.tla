----------------------------- MODULE Processes -----------------------------
(***************************************************************************)
(* Programs and their connections, the two monitors that poll /proc, and     *)
(* the process and network branches of process_events: the events of a pid   *)
(* are counted, a high score kills the pid, a suspicious port blocks the      *)
(* address.                                                                 *)
(*                                                                         *)
(* Everything the agent knows of a process is its pid.  To say which process *)
(* is meant, each has a number, its life, which the code never sees.          *)
(*                                                                         *)
(* The bus forgets its oldest events when it is full; how the task subscribes *)
(* and goes on then, and what an alert can do to it, is in module Pipeline;   *)
(* what block does to the firewall, in module Firewall.                     *)
(***************************************************************************)
EXTENDS Integers, Sequences, FiniteSets, SequencesExt, Selection

CONSTANTS
  Pids,          \* numbers from 1
  Remotes,       \* remote addresses with a port
  Shady,         \* those whose port is 4444, 5555, 6666 or 7777
  Inodes,        \* numbers of sockets, from 1
  BonusOver,     \* 3: with more events than these ...
  Bonus,         \* 20: ... a process scores so much more
  KillAt,        \* 70
  BusyOver,      \* 10: with more connections than these a process is busy
  BusCap,        \* capacity of the EventBus
  MaxLives,      \* bound on the processes there ever are
  MaxConnects,   \* bound on the connections there ever are
  None

ASSUME ProcessesAssumption ==
  /\ Pids \subseteq Nat \ {0} /\ 1 \in Pids /\ Inodes \subseteq Nat \ {0} /\ Shady \subseteq Remotes
  /\ {BonusOver, Bonus, KillAt, BusyOver, BusCap, MaxLives, MaxConnects} \subseteq Nat
  /\ BusCap > 0 /\ MaxLives > 0 /\ None \notin Remotes
  /\ IsFiniteSet(Pids) /\ IsFiniteSet(Remotes)

VARIABLES
  life, lives,   \* pid -> the life that has it, or 0; how many there were
  used,          \* pids that were ever given
  conn,          \* remote -> the connection to it, or None
  deeds,         \* life -> the connections it opened
  knownPids,     \* ProcessMonitor: known
  nmon, todo, found, knownKeys,
  inodes,        \* InodeCache: socket -> pid
  bus,
  task,          \* process_events
  record,        \* BehaviorEngine: pid -> how many events, and of the network
  blocked,
  killed,        \* history: <<life, pid>> of who was killed
  masked,        \* history: <<life, pid>> whose port was not looked at
  mixed,         \* history: pids that had two lives, or an event of another
  missed         \* history: remotes whose event was lost, not judged by port, or not blocked

system == <<life, lives, used, conn, deeds>>
networkMonitor == <<nmon, todo, found, knownKeys, inodes>>
engine == <<task, record, blocked, killed, masked>>
vars == <<system, knownPids, networkMonitor, bus, engine, mixed, missed>>

\* A row of /proc/net/tcp; inode 0: closed, and kept a while by the kernel.
\* pid and life, of the process that opened it, are not in the row.
Connection == [remote : Remotes, inode : Inodes \cup {0}, pid : Pids, life : 1..MaxLives]
ASSUME NoConnectionAssumption == None \notin Connection
Event == [kind : {"process", "network"}, pid : Pids \cup {0}, remote : Remotes \cup {None},
          life : 0..MaxLives]
Idle == [pc |-> "idle", pid |-> 0, remote |-> None]

TypeOK ==
  /\ life \in [Pids -> 0..MaxLives] /\ lives \in 0..MaxLives /\ used \subseteq Pids
  /\ \A r \in Remotes : conn[r] # None => conn[r] \in Connection /\ conn[r].remote = r
  /\ deeds \in [1..MaxLives -> 0..MaxConnects]
  /\ knownPids \subseteq Pids
  /\ nmon \in {"read", "resolve"} /\ todo \in Seq(Connection)
  /\ \A i \in DOMAIN found : found[i] \in Event
  /\ knownKeys \subseteq Remotes
  /\ DOMAIN inodes \subseteq Inodes /\ \A i \in DOMAIN inodes : inodes[i] \in used
  /\ bus \in Seq(Event) /\ Len(bus) <= BusCap
  /\ task.pc \in {"idle", "kill", "block"} /\ (task.pc = "kill" => task.pid # 0)
  /\ record \in [Pids \cup {0} -> [all : Nat, net : Nat]]
  /\ \A p \in DOMAIN record : record[p].net <= record[p].all
  /\ blocked \subseteq Shady /\ {k[2] : k \in killed} \subseteq Pids

\* Both monitors have started: scan_existing_processes, and an InodeCache of no
\* sockets.
Init ==
  /\ life = [p \in Pids |-> IF p = 1 THEN 1 ELSE 0] /\ used = {1} /\ knownPids = {1}
  /\ lives = 1
  /\ conn = [r \in Remotes |-> None] /\ deeds = [l \in 1..MaxLives |-> 0]
  /\ nmon = "read" /\ todo = <<>> /\ found = <<>> /\ knownKeys = {} /\ inodes = <<>>
  /\ bus = <<>>
  /\ task = Idle /\ record = [p \in Pids \cup {0} |-> [all |-> 0, net |-> 0]]
  /\ blocked = {} /\ killed = {} /\ masked = {} /\ mixed = {} /\ missed = {}

---------------------------------------------------------------------------
(* Programs and the kernel                                                 *)

Alive == {p \in Pids : life[p] # 0}
Rows == {conn[r] : r \in {r \in Remotes : conn[r] # None}}
Open == {c \in Rows : c.inode # 0}
Closed(r) == [conn[r] EXCEPT !.inode = 0]

Spawn(p) ==
  /\ life[p] = 0 /\ lives < MaxLives
  /\ lives' = lives + 1
  /\ life' = [life EXCEPT ![p] = lives + 1]
  /\ used' = used \cup {p}
  /\ mixed' = IF p \in used THEN mixed \cup {p} ELSE mixed
  /\ UNCHANGED <<conn, deeds, knownPids, networkMonitor, bus, engine, missed>>

\* Process p is gone, and its sockets are closed.
Ends(p) ==
  /\ life' = [life EXCEPT ![p] = 0]
  /\ conn' = [r \in Remotes |-> IF conn[r] \in Open /\ conn[r].pid = p THEN Closed(r) ELSE conn[r]]

Exit(p) ==
  /\ life[p] # 0
  /\ Ends(p)
  /\ UNCHANGED <<lives, used, deeds, knownPids, networkMonitor, bus, engine, mixed, missed>>

Connect(p, r, i) ==
  /\ life[p] # 0 /\ conn[r] = None
  /\ \A c \in Open : c.inode # i
  /\ FoldFunction(+, 0, deeds) < MaxConnects
  /\ conn' = [conn EXCEPT ![r] = [remote |-> r, inode |-> i, pid |-> p, life |-> life[p]]]
  /\ deeds' = [deeds EXCEPT ![life[p]] = @ + 1]
  /\ UNCHANGED <<life, lives, used, knownPids, networkMonitor, bus, engine, mixed, missed>>

Close(r) ==
  /\ conn[r] \in Open
  /\ conn' = [conn EXCEPT ![r] = Closed(r)]
  /\ UNCHANGED <<life, lives, used, deeds, knownPids, networkMonitor, bus, engine, mixed, missed>>

Expire(r) ==
  /\ conn[r] \in Rows \ Open
  /\ conn' = [conn EXCEPT ![r] = None]
  /\ UNCHANGED <<life, lives, used, deeds, knownPids, networkMonitor, bus, engine, mixed, missed>>

---------------------------------------------------------------------------
(* The bus                                                                 *)

Networked(es) == {es[i].remote : i \in DOMAIN es} \ {None}

\* Mutant of Send: one event more than there is room for.
SendOver(es) ==
  LET all == bus \o es
      kept == SubSeq(all, 1 + (IF Len(all) > BusCap + 1 THEN Len(all) - BusCap ELSE 0), Len(all))
  IN /\ bus' = kept
     /\ missed' = missed \cup (Networked(all) \ Networked(kept))

\* Events es are sent, one after the other; when the bus is full the oldest makes
\* room.
Send(es) ==
  LET all == bus \o es
      kept == SubSeq(all, 1 + (IF Len(all) > BusCap THEN Len(all) - BusCap ELSE 0), Len(all))
  IN /\ bus' = kept
     /\ missed' = missed \cup (Networked(all) \ Networked(kept))

---------------------------------------------------------------------------
(* ProcessMonitor                                                          *)

\* A round: list_pids and get_process_info of every pid.  A pid that another
\* process has now is taken for the same.
PollProcesses ==
  LET Of(ps) == SetToSeq({[kind |-> "process", pid |-> p, remote |-> None, life |-> 0] : p \in ps})
  IN /\ Send(Of(Alive \ knownPids) \o Of(knownPids \ Alive))
     /\ knownPids' = Alive
     /\ UNCHANGED <<system, networkMonitor, engine, mixed>>

---------------------------------------------------------------------------
(* NetworkMonitor                                                          *)

\* scan_inode_map: what the processes hold now.
InodeMap ==
  [i \in {c.inode : c \in Open} |-> (CHOOSE c \in Open : c.inode = i).pid]

ReadTable ==
  /\ nmon = "read"
  /\ nmon' = "resolve"
  /\ todo' = SetToSeq(Rows)
  /\ UNCHANGED <<system, knownPids, found, knownKeys, inodes, bus, engine, mixed, missed>>

\* find_pid_by_inode: the cache, and only when it has not the inode, /proc; the
\* pid is 0 when nobody holds the socket any more.
Resolve ==
  /\ nmon = "resolve" /\ todo # <<>>
  /\ LET c == Head(todo)
         map == IF c.inode \in DOMAIN inodes THEN inodes ELSE InodeMap
         p == IF c.inode \in DOMAIN map THEN map[c.inode] ELSE 0
     IN /\ inodes' = map
        /\ found' = Append(found, [kind |-> "network", pid |-> p, remote |-> c.remote, life |-> c.life])
        /\ mixed' = IF p \in {0, c.pid} THEN mixed ELSE mixed \cup {p}
  /\ todo' = Tail(todo)
  /\ UNCHANGED <<system, knownPids, nmon, knownKeys, bus, engine, missed>>

\* Mutant of Announce: what was announced is not remembered.
AnnounceAgain ==
  /\ nmon = "resolve" /\ todo = <<>>
  /\ nmon' = "read"
  /\ Send(Chosen(found, {i \in DOMAIN found : found[i].remote \notin knownKeys}))
  /\ found' = <<>>
  /\ UNCHANGED <<system, knownPids, todo, knownKeys, inodes, engine, mixed>>

\* Mutant of Announce: a connection of nobody is no event.
AnnounceOwned ==
  /\ nmon = "resolve" /\ todo = <<>>
  /\ nmon' = "read"
  /\ Send(Chosen(found, {i \in DOMAIN found : found[i].remote \notin knownKeys /\ found[i].pid # 0}))
  /\ knownKeys' = Networked(found)
  /\ found' = <<>>
  /\ UNCHANGED <<system, knownPids, todo, inodes, engine, mixed>>

Announce ==
  /\ nmon = "resolve" /\ todo = <<>>
  /\ nmon' = "read"
  /\ Send(Chosen(found, {i \in DOMAIN found : found[i].remote \notin knownKeys}))
  /\ knownKeys' = Networked(found)
  /\ found' = <<>>
  /\ UNCHANGED <<system, knownPids, todo, inodes, engine, mixed>>

---------------------------------------------------------------------------
(* process_events and the BehaviorEngine                                   *)

\* calculate_process_risk: every event is of severity Info, and counts 1; the
\* "unique" types are all of them.
Score(n) ==
  LET s == IF n > BonusOver THEN n + Bonus ELSE n
  IN IF s > 100 THEN 100 ELSE s

\* record_event.
Recorded(e) ==
  [record EXCEPT ![e.pid] = [all |-> @.all + 1, net |-> IF e.kind = "network" THEN @.net + 1 ELSE @.net]]

\* Mutant of Busy: all events are counted.
BusyWithAll(r) == r.all > BusyOver

\* check_network_activity: too many connections come before the port, and their
\* 20 is not enough to act.
Busy(r) == r.net > BusyOver

\* Starts and exits are counted alike.  At 30 there is an alert, at KillAt SIGKILL.
ReceiveProcess ==
  /\ task.pc = "idle" /\ bus # <<>> /\ Head(bus).kind = "process"
  /\ bus' = Tail(bus)
  /\ LET e == Head(bus)
     IN /\ record' = Recorded(e)
        /\ task' = IF Score(record'[e.pid].all) >= KillAt THEN [Idle EXCEPT !.pc = "kill", !.pid = e.pid]
                   ELSE Idle
  /\ UNCHANGED <<system, knownPids, networkMonitor, blocked, killed, masked, mixed, missed>>

ReceiveNetwork ==
  /\ task.pc = "idle" /\ bus # <<>> /\ Head(bus).kind = "network"
  /\ bus' = Tail(bus)
  /\ LET e == Head(bus)
         r == record'[e.pid]
     IN /\ record' = Recorded(e)
        /\ IF e.remote \notin Shady THEN task' = Idle /\ UNCHANGED <<masked, missed>>
           ELSE IF Busy(r)
           THEN /\ task' = Idle
                /\ masked' = masked \cup {<<e.life, e.pid>>}
                /\ missed' = missed \cup {e.remote}
           ELSE task' = [Idle EXCEPT !.pc = "block", !.remote = e.remote] /\ UNCHANGED <<masked, missed>>
  /\ UNCHANGED <<system, knownPids, networkMonitor, blocked, killed, mixed>>

\* After the notifiers: whoever has the pid now.
Kill ==
  /\ task.pc = "kill"
  /\ LET p == task.pid
     IN IF life[p] = 0 THEN UNCHANGED <<life, conn, killed>>
        ELSE killed' = killed \cup {<<life[p], p>>} /\ Ends(p)
  /\ task' = Idle
  /\ UNCHANGED <<lives, used, deeds, knownPids, networkMonitor, bus, record, blocked,
                 masked, mixed, missed>>

\* iptables may fail; nothing tries again.
Block ==
  /\ task.pc = "block"
  /\ \/ blocked' = blocked \cup {task.remote} /\ UNCHANGED missed
     \/ missed' = missed \cup {task.remote} /\ UNCHANGED blocked
  /\ task' = Idle
  /\ UNCHANGED <<system, knownPids, networkMonitor, bus, record, killed, masked, mixed>>

---------------------------------------------------------------------------
Programs ==
  \/ \E p \in Pids : Spawn(p) \/ Exit(p) \/ (\E r \in Remotes, i \in Inodes : Connect(p, r, i))
  \/ \E r \in Remotes : Close(r) \/ Expire(r)

NetworkMonitor == ReadTable \/ Resolve \/ Announce
Processor == ReceiveProcess \/ ReceiveNetwork \/ Kill \/ Block

Next == Programs \/ PollProcesses \/ NetworkMonitor \/ Processor

Spec == Init /\ [][Next]_vars
\* Each loop sleeps one or two seconds and goes on; so does process_events.
FairSpec == Spec /\ WF_vars(PollProcesses) /\ WF_vars(NetworkMonitor) /\ WF_vars(Processor)

---------------------------------------------------------------------------
\* A process is killed only for what it did itself, its start and the
\* connections it opened, unless its pid had another life before it, or a stale
\* inode gave it the connection of another (behavior_engine.rs:55, nobody calls
\* cleanup_old_events; network.rs:179).
Innocent ==
  \A k \in killed : k[2] \in mixed \/ Score(1 + deeds[k[1]]) >= KillAt

\* A suspicious port is passed over only when the process has opened too many
\* connections itself, unless its pid is not known or not its own
\* (behavior_engine.rs:152).
Masked ==
  \A m \in masked : m[2] \in mixed \cup {0} \/ deeds[m[1]] > BusyOver

\* A connection to a suspicious port that stays in the table is blocked, or its
\* only event was lost, passed over, or iptables failed: it is never announced a
\* second time.
Noticed ==
  \A r \in Shady : (conn[r] # None) ~> (conn[r] = None \/ r \in blocked \cup missed)
=============================================================================
