------------------------------ MODULE Pipeline ------------------------------
(***************************************************************************)
(* From a change in a watched tree to the response: programs that write     *)
(* files, the kernel's inotify queue, the filesystem monitor (inotify, or    *)
(* polling when inotify cannot be used), the event bus, the file branch of   *)
(* process_events with the hash cache, the threat intelligence that becomes  *)
(* the set of known hashes, and `nkosi scan`, which judges and quarantines    *)
(* the same files from another process.                                     *)
(*                                                                         *)
(* Every system call and every lock is a step of its own.  Rows of events,   *)
(* detections and incidents: module Incidents; the move into quarantine:     *)
(* module Quarantine, one step here.                                        *)
(***************************************************************************)
EXTENDS Sequences, FiniteSets, SequencesExt, Selection, Risk

CONSTANTS
  Dirs,          \* directories: the watched ones and those below
  Roots,         \* watched_paths, a sequence of directories
  Parent,        \* directory -> the one that holds it; None above a root
  Paths,         \* files
  DirOf,         \* file -> its directory
  Excluded,      \* what excluded_paths match
  Wide,          \* files whose alert the SMS notifier may cut inside a character
  Length,        \* content -> metadata.len()
  Feed,          \* what the sources publish: [source, says, form, value]
  Enabled,       \* the sources that are enabled
  Budget,        \* watch_budget
  QueueCap,      \* max_queued_events
  BusCap,        \* capacity of the EventBus
  MaxOps,        \* bound on the changes programs make
  MaxTime,       \* bound on the clock of mtime
  None

ASSUME PipelineAssumption ==
  /\ IsFiniteSet(Dirs) /\ IsFiniteSet(Paths)
  /\ Roots \in Seq(Dirs) /\ Parent \in [Dirs -> Dirs \cup {None}] /\ DirOf \in [Paths -> Dirs]
  /\ Length \in [Contents -> Nat]
  /\ {Budget, QueueCap, MaxOps} \subseteq Nat
  /\ BusCap \in Nat \ {0}      \* broadcast::channel panics at 0
  /\ MaxTime \in Nat \ {0}
  /\ Paths \cap Dirs = {} /\ None \notin Paths \cup Dirs \cup Contents

\* An entry of a feed: the type its source states, the type its value has the
\* form of (validate_indicator_value), and whether the source's parser keeps it.
FromMalwareBazaar(e) == e.source = "MalwareBazaar" /\ e.form = "Sha256"
FromThreatFox(e) == e.source = "ThreatFox" /\ e.form = e.says
FromUrlhaus(e) == e.source = "URLhaus" /\ e.form = "Url"
Accepted == {e \in Feed : e.source \in Enabled
               /\ (FromMalwareBazaar(e) \/ FromThreatFox(e) \/ FromUrlhaus(e))}

\* A row of threat_indicators.
Indicator(e) == [type |-> e.form, value |-> e.value]
Sha256(c) == [type |-> "Sha256", value |-> c]
Keys == [path : Paths, len : {Length[c] : c \in Contents}, mtime : 0..MaxTime]

VARIABLES
  now, mtime,    \* the clock; file -> when it was last written
  file, dirs,    \* file -> content or None; the directories there are
  ops,
  queue,         \* events of inotify not yet read, or of a polling round not yet sent
  mon,           \* where the monitor is
  live, spent,   \* directories the kernel watches; size of watch_dirs
  todo,          \* the calls of add_watch_recursive under way
  roots,         \* the watched_paths that were there at the start
  known, turn,   \* polling: known_files; the root to scan next
  subscribed, bus, lagged,
  proc,          \* process_events
  hashes, cache, \* HashEngine: known_hashes, sha256_cache
  table,         \* threat_indicators
  stale,         \* load_threat_hashes is between its two locks
  cli,           \* nkosi scan
  taken,         \* history: <<content, why>> of what went to quarantine
  again,         \* history: files written twice at one mtime
  unseen,        \* history: directories whose creation the full queue dropped
  owed           \* history: announced files that were malicious when written

fs == <<now, mtime, file, dirs, ops, again, unseen>>
monitor == <<mon, roots, live, spent, todo, known, turn>>
channel == <<subscribed, bus, lagged>>
engine == <<hashes, cache, table, stale>>
vars == <<fs, queue, monitor, channel, proc, engine, cli, taken, owed>>

Event == [kind : {"created", "modified", "deleted"}, what : Paths \cup Dirs]
Idle == [pc |-> "idle", path |-> None, key |-> None, digest |-> None, found |-> {}, torn |-> FALSE]
At(s) == proc.pc = s

TypeOK ==
  /\ now \in 1..MaxTime /\ mtime \in [Paths -> 0..MaxTime] /\ ops \in 0..MaxOps
  /\ file \in [Paths -> Contents \cup {None}] /\ dirs \subseteq Dirs
  /\ queue \in Seq(Event) /\ bus \in Seq(Event) /\ Len(bus) <= BusCap
  /\ mon \in {"off", "watching", "run", "first", "poll"}
  /\ live \subseteq dirs /\ spent \in 0..Budget
  /\ todo \in Seq([op : {"watch", "list"}, dir : Dirs])
  /\ DOMAIN known \subseteq Paths
  /\ roots \in Seq(Dirs) /\ turn \in {1} \cup DOMAIN roots
  /\ {subscribed, lagged, stale} \subseteq BOOLEAN
  /\ proc.pc \in {"idle", "lookup", "read", "yara", "static", "notify", "respond", "dead"}
  /\ proc.digest \in Contents \cup {None} /\ proc.key \in Keys \cup {None}
  /\ DOMAIN cache \subseteq Keys /\ hashes \subseteq Contents /\ table \subseteq {Indicator(e) : e \in Accepted}
  /\ again \subseteq Paths /\ unseen \subseteq Dirs /\ owed \subseteq Paths

Init ==
  /\ now = 1 /\ mtime = [p \in Paths |-> 0] /\ ops = 0
  /\ dirs \in {{Roots[i] : i \in 1..n} : n \in 1..Len(Roots)} \cup {Dirs}
  /\ file = [p \in Paths |-> None]
  /\ queue = <<>>
  /\ mon = "off" /\ roots = <<>> /\ live = {} /\ spent = 0 /\ todo = <<>>
  /\ known = <<>> /\ turn = 1
  /\ subscribed = FALSE /\ bus = <<>> /\ lagged = FALSE
  /\ proc = Idle
  /\ table = {} /\ hashes = {} /\ cache = <<>> /\ stale = FALSE
  /\ cli = Idle
  /\ taken = {} /\ again = {} /\ unseen = {} /\ owed = {}

---------------------------------------------------------------------------
(* Verdicts                                                                *)

HashMatch(d) == IF d \in hashes THEN {KnownHash} ELSE {}
Detections(c) == HashMatch(c) \cup ScanRules(c) \cup Static(c)

\* scan_file of the command line: an engine that never loads a hash, then the
\* first rule, then the static analysis; RiskConfig::default, and 70.
FirstDetection(c) ==
  IF ScanRules(c) = {} THEN Static(c)
  ELSE {FoundBy(RuleOrder[SelectInSeq(RuleOrder, LAMBDA r : r \in Hits[c])])}
ScanQuarantines(c) == Evaluate(FirstDetection(c)) >= 70

---------------------------------------------------------------------------
(* Programs and the kernel                                                 *)

\* An event of the directory d; one like the last in the queue is merged into it.
Merged(e) == queue # <<>> /\ Last(queue) = e
Queued(d, e) == d \in live /\ (Merged(e) \/ Len(queue) < QueueCap)
Raise(d, e) ==
  queue' = IF Queued(d, e) /\ ~Merged(e) THEN Append(queue, e) ELSE queue

\* File p is below root r, not in an excluded directory.
Inside(p, r) ==
  \/ DirOf[p] = r
  \/ DirOf[p] \notin Excluded /\ Parent[DirOf[p]] = r

\* The monitor will learn of the change e of file p at time t.
Announced(p, e, t) ==
  /\ p \notin Excluded /\ DirOf[p] \notin Excluded
  /\ \/ mon \in {"watching", "run"} /\ Queued(DirOf[p], e)
     \/ mon = "poll" /\ \E i \in 1..Len(roots) : Inside(p, roots[i])

\* A change by which file p holds c.
Put(p, c, kind) ==
  LET e == [kind |-> kind, what |-> p]
  IN /\ ops < MaxOps /\ ops' = ops + 1
     /\ DirOf[p] \in dirs
     /\ \E t \in now..(now + 1) :
          /\ t <= MaxTime
          /\ now' = t
          /\ mtime' = [mtime EXCEPT ![p] = t]
          /\ again' = IF t = mtime[p] THEN again \cup {p} ELSE again \ {p}
          /\ owed' = IF /\ Announced(p, e, t) /\ t > mtime[p]
                        /\ Level(Detections(c)) = "Malicious"
                     THEN owed \cup {p} ELSE owed \ {p}
     /\ file' = [file EXCEPT ![p] = c]
     /\ Raise(DirOf[p], e)
     /\ proc' = IF proc.path = p THEN [proc EXCEPT !.torn = TRUE] ELSE proc
     /\ cli' = IF cli.path = p THEN [cli EXCEPT !.torn = TRUE] ELSE cli
     /\ UNCHANGED <<dirs, unseen, monitor, channel, engine, taken>>

Write(p, c) == (file[p] # None /\ Put(p, c, "modified"))
\* A file that is renamed into place, or created, written and closed: the
\* further events of one writing say what the first says.
Create(p, c) == Put(p, c, "created")

\* File p goes: removed by a program, or moved by the response engine.
Gone(p) ==
  /\ file' = [file EXCEPT ![p] = None]
  /\ Raise(DirOf[p], [kind |-> "deleted", what |-> p])
  /\ owed' = owed \ {p}

Delete(p) ==
  /\ ops < MaxOps /\ ops' = ops + 1
  /\ file[p] # None
  /\ Gone(p)
  /\ UNCHANGED <<now, mtime, dirs, again, unseen, monitor, channel, proc, engine, cli, taken>>

MakeDir(d) ==
  /\ ops < MaxOps /\ ops' = ops + 1
  /\ d \notin dirs /\ Parent[d] \in dirs \cup {None}
  /\ dirs' = dirs \cup {d}
  /\ LET e == [kind |-> "created", what |-> d]
     IN /\ Raise(Parent[d], e)
        /\ unseen' = IF Queued(Parent[d], e) THEN unseen \ {d} ELSE unseen \cup {d}
  /\ UNCHANGED <<now, mtime, file, again, monitor, channel, proc, engine, cli, taken, owed>>

RemoveDir(d) ==
  /\ ops < MaxOps /\ ops' = ops + 1
  /\ d \in dirs
  /\ \A p \in Paths : DirOf[p] = d => file[p] = None
  /\ \A s \in dirs : Parent[s] # d
  /\ dirs' = dirs \ {d}
  /\ live' = live \ {d}      \* the watch goes with it, its entry in watch_dirs stays
  /\ Raise(Parent[d], [kind |-> "deleted", what |-> d])
  /\ UNCHANGED <<now, mtime, file, again, unseen, mon, roots, spent, todo, known, turn, channel, proc,
                 engine, cli, taken, owed>>

---------------------------------------------------------------------------
(* The monitor                                                             *)

\* The roots that are there, in their order.
Watched == Chosen(Roots, {i \in DOMAIN Roots : Roots[i] \in dirs})
Call(op, d) == [op |-> op, dir |-> d]

\* inotify_init may fail.
Start ==
  /\ mon = "off"
  /\ roots' = Watched
  /\ \/ /\ mon' = "watching"
        /\ todo' = [i \in 1..Len(Watched) |-> Call("watch", Watched[i])]
     \/ /\ mon' = "first"
        /\ UNCHANGED todo
  /\ UNCHANGED <<fs, queue, live, spent, known, turn, channel, proc, engine, cli, taken, owed>>

\* Mutant of Watch: the budget is compared too late.
WatchOver ==
  /\ todo # <<>> /\ Head(todo).op = "watch"
  /\ LET d == Head(todo).dir
     IN IF spent <= Budget /\ d \in dirs
        THEN /\ live' = live \cup {d}
             /\ spent' = IF d \in live THEN spent ELSE spent + 1
             /\ todo' = <<Call("list", d)>> \o Tail(todo)
        ELSE /\ todo' = Tail(todo)
             /\ UNCHANGED <<live, spent>>
  /\ UNCHANGED <<fs, queue, mon, roots, known, turn, channel, proc, engine, cli, taken, owed>>

\* add_watch, which fails when the directory is gone; then its entries.
Watch ==
  /\ todo # <<>> /\ Head(todo).op = "watch"
  /\ LET d == Head(todo).dir
     IN IF spent < Budget /\ d \in dirs
        THEN /\ live' = live \cup {d}
             /\ spent' = IF d \in live THEN spent ELSE spent + 1
             /\ todo' = <<Call("list", d)>> \o Tail(todo)
        ELSE /\ todo' = Tail(todo)
             /\ UNCHANGED <<live, spent>>
  /\ UNCHANGED <<fs, queue, mon, roots, known, turn, channel, proc, engine, cli, taken, owed>>

\* Mutant of Below: no recursion.
BelowNothing(d) == {}

Below(d) == {s \in dirs \ Excluded : Parent[s] = d}

List ==
  /\ todo # <<>> /\ Head(todo).op = "list"
  /\ todo' = SetToSeq({Call("watch", s) : s \in Below(Head(todo).dir)}) \o Tail(todo)
  /\ UNCHANGED <<fs, queue, mon, roots, live, spent, known, turn, channel, proc, engine, cli, taken, owed>>

Started ==
  /\ mon = "watching" /\ todo = <<>>
  /\ mon' = IF spent > 0 THEN "run" ELSE "first"
  /\ UNCHANGED <<fs, queue, roots, live, spent, todo, known, turn, channel, proc, engine, cli, taken, owed>>

\* EventBus::send: nobody hears it before the subscription, and the oldest
\* event makes room.  A file of which no event is left is owed nothing.
Send(e) ==
  LET full == Len(bus) = BusCap
      next == Append(IF full THEN Tail(bus) ELSE bus, e)
  IN IF ~subscribed
     THEN owed' = owed \ {e.what} /\ UNCHANGED <<bus, lagged>>
     ELSE /\ bus' = next
          /\ lagged' = (lagged \/ full)
          /\ owed' = IF full THEN owed \ ({Head(bus).what} \ {next[i].what : i \in DOMAIN next})
                     ELSE owed

Handle ==
  /\ mon \in {"run", "poll"} /\ todo = <<>> /\ queue # <<>>
  /\ queue' = Tail(queue)
  /\ LET e == Head(queue)
     IN IF e.what \in Excluded THEN UNCHANGED <<todo, bus, lagged, owed>>
        ELSE IF e.what \in Dirs /\ e.kind = "created"
        THEN todo' = <<Call("watch", e.what)>> /\ UNCHANGED <<bus, lagged, owed>>
        ELSE Send(e) /\ UNCHANGED todo
  /\ UNCHANGED <<fs, mon, roots, live, spent, known, turn, subscribed, proc, engine, cli, taken>>

\* scan_directory: the files of the roots that are there.
Scan(rs) ==
  LET found == {p \in Paths \ Excluded : file[p] # None /\ \E r \in rs \cap dirs : Inside(p, r)}
  IN [p \in found |-> mtime[p]]

FirstScan ==
  /\ mon = "first"
  /\ mon' = "poll"
  /\ known' = Scan(Range(roots))
  /\ UNCHANGED <<fs, queue, roots, live, spent, todo, turn, channel, proc, engine, cli, taken, owed>>

\* One root of a round.  The files of the other roots are not in its scan.
Poll ==
  /\ mon = "poll" /\ queue = <<>> /\ roots # <<>>
  /\ turn' = (turn % Len(roots)) + 1
  /\ LET seen == Scan({roots[turn]})
         says(kind, ps) == SetToSeq({[kind |-> kind, what |-> p] : p \in ps})
     IN IF roots[turn] \notin dirs THEN UNCHANGED <<queue, known>>
        ELSE /\ known' = seen
             /\ queue' = says("created", DOMAIN seen \ DOMAIN known)
                    \o says("modified", {p \in DOMAIN seen \cap DOMAIN known : seen[p] > known[p]})
                    \o says("deleted", DOMAIN known \ DOMAIN seen)
  /\ UNCHANGED <<fs, mon, roots, live, spent, todo, channel, proc, engine, cli, taken, owed>>

---------------------------------------------------------------------------
(* process_events, its file branch                                         *)

outside == <<now, mtime, dirs, ops, again, unseen, monitor, hashes, table, stale>>

Subscribe ==
  /\ ~subscribed
  /\ subscribed' = TRUE
  /\ UNCHANGED <<fs, queue, monitor, bus, lagged, proc, engine, cli, taken, owed>>

\* Mutant of Lagged: the receiver subscribes again.
LaggedAfresh ==
  /\ At("idle") /\ lagged
  /\ lagged' = FALSE
  /\ bus' = <<>>
  /\ UNCHANGED <<outside, file, queue, subscribed, proc, cache, cli, taken, owed>>

\* RecvError::Lagged is logged, and the newest events are read.
Lagged ==
  /\ At("idle") /\ lagged
  /\ lagged' = FALSE
  /\ UNCHANGED <<outside, file, queue, subscribed, bus, proc, cache, cli, taken, owed>>

\* A directory cannot be read as a file: no engine finds anything in it.
Receive ==
  /\ At("idle") /\ ~lagged /\ bus # <<>>
  /\ bus' = Tail(bus)
  /\ LET e == Head(bus)
     IN proc' = IF e.what \in Dirs THEN Idle
                ELSE [Idle EXCEPT !.pc = "lookup", !.path = e.what]
  /\ UNCHANGED <<outside, file, queue, subscribed, lagged, cache, cli, taken, owed>>

Content == file[proc.path]
Step(s) == /\ proc' = s
           /\ UNCHANGED <<outside, file, queue, channel, cli, taken, owed>>

\* Mutant of CacheKey: the path and the size.
CacheKeyTimeless(p) == [path |-> p, len |-> Length[file[p]], mtime |-> 0]

CacheKey(p) == [path |-> p, len |-> Length[file[p]], mtime |-> mtime[p]]

\* compute_sha256: metadata and the cache.
Lookup ==
  /\ At("lookup")
  /\ Step(IF Content = None THEN [proc EXCEPT !.pc = "yara"]
          ELSE LET k == CacheKey(proc.path)
               IN IF k \in DOMAIN cache
                  THEN [proc EXCEPT !.pc = "yara", !.digest = cache[k]]
                  ELSE [proc EXCEPT !.pc = "read", !.key = k])
  /\ UNCHANGED cache

\* Mutant of Read: the key is made when the content has been read before.
ReadThenStat ==
  /\ At("read")
  /\ IF Content = None
     THEN Step([proc EXCEPT !.pc = "yara", !.key = None]) /\ UNCHANGED cache
     ELSE IF proc.digest = None
     THEN Step([proc EXCEPT !.digest = Content]) /\ UNCHANGED cache
     ELSE /\ Step([proc EXCEPT !.pc = "yara", !.key = None])
          /\ cache' = [k \in DOMAIN cache \cup {CacheKey(proc.path)} |->
                         IF k = CacheKey(proc.path) THEN proc.digest ELSE cache[k]]

\* ... and the content, hashed and remembered under the key taken before.
Read ==
  /\ At("read")
  /\ IF Content = None
     THEN Step([proc EXCEPT !.pc = "yara", !.key = None]) /\ UNCHANGED cache
     ELSE /\ Step([proc EXCEPT !.pc = "yara", !.key = None, !.digest = Content])
          /\ cache' = [k \in DOMAIN cache \cup {proc.key} |->
                         IF k = proc.key THEN Content ELSE cache[k]]

\* is_known_malware, if there is a digest; then the rules read the file.
Yara ==
  /\ At("yara")
  /\ Step([proc EXCEPT !.pc = "static", !.digest = None,
             !.found = HashMatch(proc.digest)
                       \cup (IF Content = None THEN {} ELSE ScanRules(Content))])
  /\ UNCHANGED cache

\* The static analysis, and what follows in the same task: the verdict, and
\* whether notify gets as far as a notifier (min_level is "warning").
StaticAndEvaluate ==
  /\ At("static")
  /\ LET found == proc.found \cup (IF Content = None THEN {} ELSE Static(Content))
     IN Step(IF found = {} THEN Idle
             ELSE [proc EXCEPT !.found = found,
                     !.pc = IF Level(found) \in {"Suspicious", "Malicious"}
                            THEN "notify" ELSE "respond"])
  /\ UNCHANGED cache

\* The notifiers answer one after the other; their errors are logged.  The SMS
\* notifier panics when byte 157 is inside a character: the task ends.
Notify ==
  /\ At("notify")
  /\ \/ Step([proc EXCEPT !.pc = "respond"])
     \/ proc.path \in Wide /\ Step([Idle EXCEPT !.pc = "dead"])
  /\ UNCHANGED cache

\* Why content c of file p goes to quarantine: it is what was judged, or else
\* the file was written in between, or twice at one mtime.
Why(p, torn, verdict) == IF torn \/ p \in again THEN "raced" ELSE verdict

Respond ==
  /\ At("respond")
  /\ IF Action[Level(proc.found)] = "Quarantine" /\ Content # None
     THEN /\ Gone(proc.path)
          /\ taken' = taken \cup {<<Content, Why(proc.path, proc.torn, Level(Detections(Content)))>>}
     ELSE UNCHANGED <<file, queue, taken, owed>>
  /\ proc' = Idle
  /\ UNCHANGED <<outside, channel, cache, cli>>

---------------------------------------------------------------------------
(* Threat intelligence                                                     *)

\* insert_indicators: a value that is there already is left alone.
Insert(e) ==
  /\ \A i \in table : i.value # e.value
  /\ table' = table \cup {Indicator(e)}
  /\ UNCHANGED <<fs, queue, monitor, channel, proc, hashes, cache, stale, cli, taken, owed>>

\* Every 300 s, and when the agent starts: the set under one lock, ...
LoadHashes ==
  /\ ~stale
  /\ hashes' = {c \in Contents : Sha256(c) \in table}
  /\ stale' = TRUE
  /\ UNCHANGED <<fs, queue, monitor, channel, proc, cache, table, cli, taken, owed>>

\* ... the cache under another.
ClearCache ==
  /\ stale
  /\ cache' = <<>>
  /\ stale' = FALSE
  /\ UNCHANGED <<fs, queue, monitor, channel, proc, hashes, table, cli, taken, owed>>

---------------------------------------------------------------------------
(* nkosi scan                                                              *)

ScanFile(p) ==
  /\ cli.pc = "idle"
  /\ file[p] # None /\ ScanQuarantines(file[p])
  /\ cli' = [Idle EXCEPT !.pc = "respond", !.path = p]
  /\ UNCHANGED <<fs, queue, monitor, channel, proc, engine, taken, owed>>

ScanResponds ==
  /\ cli.pc = "respond"
  /\ LET c == file[cli.path]
     IN IF c = None THEN UNCHANGED <<file, queue, taken, owed>>
        ELSE /\ Gone(cli.path)
             /\ taken' = taken \cup
                  {<<c, Why(cli.path, cli.torn, IF ScanQuarantines(c) THEN "Malicious" ELSE "Clean")>>}
  /\ cli' = Idle
  /\ UNCHANGED <<outside, channel, proc, cache>>

---------------------------------------------------------------------------
Programs ==
  \/ \E p \in Paths, c \in Contents : Write(p, c) \/ Create(p, c)
  \/ \E p \in Paths : Delete(p)
  \/ \E d \in Dirs : MakeDir(d) \/ RemoveDir(d)

Monitor == Start \/ Watch \/ List \/ Started \/ Handle \/ FirstScan \/ Poll

Processor ==
  \/ Subscribe \/ Lagged \/ Receive \/ Lookup \/ Read \/ Yara
  \/ StaticAndEvaluate \/ Notify \/ Respond

Intelligence == (\E e \in Accepted : Insert(e)) \/ LoadHashes \/ ClearCache

Scanner == (\E p \in Paths : ScanFile(p)) \/ ScanResponds

Next == Programs \/ Monitor \/ Processor \/ Intelligence \/ Scanner

Spec == Init /\ [][Next]_vars
\* The monitor's thread and the task of process_events keep running; a round of
\* polling takes a second, so that the recv after Lagged does not each time find
\* that the bus has overflowed again.
FairSpec == Spec /\ WF_vars(Monitor) /\ WF_vars(Processor) /\ SF_vars(Receive)

---------------------------------------------------------------------------
\* Nothing but malware goes to quarantine, unless the file was written between
\* the verdict and the move, or twice at one mtime.
OnlyCulprits == \A t \in taken : t[2] \in {"Malicious", "raced"}

\* A digest in the cache is that of the content the file has under its key, in
\* spite of writes between the metadata and the reading (hash_engine.rs:40).
DigestTrue ==
  \A p \in Paths :
    (file[p] # None /\ p \notin again /\ CacheKey(p) \in DOMAIN cache)
      => cache[CacheKey(p)] = file[p]

\* A directory in a watched one is watched, or will be: its creation is in the
\* queue, or add_watch_recursive is on its way; but the budget may be spent, or
\* the kernel's queue have been full.
Covered ==
  \A d \in dirs \ Excluded :
    \/ Parent[d] \notin live
    \/ d \in live
    \/ spent >= Budget
    \/ [kind |-> "created", what |-> d] \in Range(queue)
    \/ d \in unseen
    \/ \E i \in 1..Len(todo) : todo[i] \in {Call("watch", d), Call("list", Parent[d])}

\* Malware that was announced does not stay: quarantined, unless a program takes
\* it away or its event is lost, or an alert has killed the task.
Contained == \A p \in Paths : (p \in owed) ~> (p \notin owed \/ At("dead"))
=============================================================================
