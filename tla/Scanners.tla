------------------------------ MODULE Scanners ------------------------------
(***************************************************************************)
(* The scanners that keep no state: what the rootkit, kernel and SSH scanners *)
(* find on a machine, and their scores.                                     *)
(*                                                                         *)
(* A machine h is a record of what they read: h.binaries, h.hidden, h.tmp,    *)
(* h.modules (the rows of /proc/modules), h.sockets (of /proc/net/tcp),       *)
(* h.cron, h.scripts, h.proc (is /proc readable), h.log.  A line of a script   *)
(* is the set of the marks it contains.                                     *)
(***************************************************************************)
EXTENDS Integers, Sequences, FiniteSets, FiniteSetsExt

CONSTANTS
  Suspicious,    \* module -> how many of the six names of rootkit.rs its own contains
  Listed,        \* modules whose name begins with one of rootkit.rs's whitelist
  Whitelisted,   \* ... with one of kernel.rs's whitelist
  Rootkits,      \* modules with a name of known_rootkits
  Unreadable     \* a log that cannot be read

Finding(what, severity, of) == [what |-> what, severity |-> severity, of |-> of]

---------------------------------------------------------------------------
(* Rootkit scan                                                            *)

CheckSystemBinaries(h) ==
       {Finding("writable", "Critical", b) : b \in {b \in h.binaries : b.writable}}
  \cup {Finding("preload", "Critical", b) : b \in {b \in h.binaries : b.preload}}

CheckHiddenFiles(h) ==
       {Finding("hidden", "High", p) : p \in h.hidden}
  \cup {Finding("tmp", "Medium", n) : n \in h.tmp}

\* A name may contain several of the six.  An empty table has its header only.
CheckProcAnomalies(h) ==
       (UNION {{Finding("module", "Critical", <<m.name, i>>) : i \in 1..Suspicious[m.name]}
                 : m \in {m \in h.modules : h.proc}})
  \cup (IF h.sockets = {} THEN {Finding("connections", "High", "tcp")} ELSE {})

\* The second column of /proc/modules is the size: it is read as the count of
\* references.
CheckKernelModules(h) ==
  {Finding("unreferenced", "Medium", m.name) :
     m \in {m \in h.modules : h.proc /\ m.size = 0 /\ m.name \notin Listed}}

SuspiciousPorts == {4444, 5555, 6666, 7777, 8888, 9999, 12345, 31337, 1234, 54321}

CheckSuspiciousConnections(h) ==
  {Finding("port", "High", s) :
     s \in {s \in h.sockets : s.state = "LISTEN" /\ s.port \in SuspiciousPorts}}

\* One finding for every mark of every line.
Marked(what, file, marks) ==
  UNION {{Finding(what, "High", <<file.path, i, x>>) : x \in file.lines[i] \cap marks}
           : i \in 1..Len(file.lines)}

InitMarks == {"wget", "curl", "nc", "bash -i", "/dev/tcp", "base64", "chmod 777"}
CronMarks == InitMarks \cup {"ncat", "python -c", "perl -e", "ruby -e", "eval("}

\* Of the three places two are directories, which cannot be read as files.
CheckCronJobs(h) ==
  UNION {Marked("cron", f, CronMarks) : f \in {f \in h.cron : f.path = "/etc/crontab"}}

\* /etc/rc.local is no directory.
CheckStartupScripts(h) ==
  UNION {Marked("init", f, InitMarks) : f \in {f \in h.scripts : f.dir # "/etc/rc.local"}}

RootkitFindings(h) ==
  CheckSystemBinaries(h) \cup CheckHiddenFiles(h) \cup CheckProcAnomalies(h)
    \cup CheckKernelModules(h) \cup CheckSuspiciousConnections(h)
    \cup CheckCronJobs(h) \cup CheckStartupScripts(h)

\* What there is on a machine: finitely many of everything.
IsMachine(h) ==
  /\ \A things \in {"binaries", "hidden", "tmp", "modules", "sockets", "cron", "scripts"} : IsFiniteSet(h[things])
  /\ \A m \in h.modules : Suspicious[m.name] \in Nat
  /\ \A f \in h.cron \cup h.scripts : f.lines \in Seq(SUBSET CronMarks)
  /\ h.log # Unreadable => Len(h.log) \in Nat /\ DOMAIN h.log = 1..Len(h.log)

Capped(n) == IF n > 100 THEN 100 ELSE n
Total(findings, points) == MapThenSumSet(LAMBDA f : points[f.severity], findings)

RootkitScore(findings) ==
  Capped(Total(findings, [Critical |-> 40, High |-> 25, Medium |-> 10, Low |-> 5]))

---------------------------------------------------------------------------
(* Kernel module scan; without /proc it is an error                        *)

KernelFindings(h) ==
       {Finding("unknown", "High", m.name) : m \in {m \in h.modules : m.name \notin Whitelisted}}
  \cup {Finding("unreferenced", "Medium", m.name) : m \in {m \in h.modules : m.refs = 0}}
  \cup {Finding("rootkit", "Critical", m.name) : m \in {m \in h.modules : m.name \in Rootkits}}

KernelPoints == [Critical |-> 50, High |-> 30, Medium |-> 15, Low |-> 5]

\* Mutant of KernelScore: no maximum.
KernelScoreUncapped(findings) == Total(findings, KernelPoints)

KernelScore(findings) == Capped(Total(findings, KernelPoints))

---------------------------------------------------------------------------
(* SSH scan: the log is a sequence of attempts, [ip, success]                *)

Attempts(h) == IF h.log = Unreadable THEN <<>> ELSE h.log
Failures(h, ips) == Cardinality({i \in DOMAIN Attempts(h) : ~Attempts(h)[i].success /\ Attempts(h)[i].ip \in ips})
IpsOf(h) == {Attempts(h)[i].ip : i \in DOMAIN Attempts(h)}

\* detect_attackers, whatever the time between the attempts.
Attackers(h, threshold) == {ip \in IpsOf(h) : Failures(h, {ip}) >= threshold}

\* Here lower is worse: 100 is a clean log, or one that cannot be read.  The code
\* computes with f64; from 410 failures on a term may differ, the score is 0.
SshScore(h, threshold) ==
  LET failed == Failures(h, IpsOf(h))
      attackers == Cardinality(Attackers(h, threshold))
      penalty == (IF attackers > 50 THEN 50 ELSE attackers) + (failed * 30) \div 100
  IN IF penalty > 100 THEN 0 ELSE 100 - penalty
=============================================================================
