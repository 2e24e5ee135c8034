------------------------------- MODULE MCHost -------------------------------
(***************************************************************************)
(* Processes and HostScans on small sets, for TLC.  The monitors and the      *)
(* scanners share nothing, so a behaviour shows the one or the other.         *)
(***************************************************************************)
EXTENDS Processes, HostScans

CONSTANTS api, cli

MCTypes == (api :> {"full", "kernel"}) @@ (cli :> {"baseline", "integrity"})
MCSuspicious == [m \in {"reptile", "adore", "ext4"} |-> IF m = "reptile" THEN 1 ELSE 0]
Module(n, refs) == [name |-> n, size |-> 4096, refs |-> refs]
\* Two rootkits, a port, a cron line and an attacker.
Infected ==
  [binaries |-> {[path |-> "/bin/ls", writable |-> TRUE, preload |-> FALSE]}, hidden |-> {}, tmp |-> {".x"},
   modules |-> {Module("reptile", 0), Module("adore", 0), Module("ext4", 1)},
   sockets |-> {[port |-> 4444, state |-> "LISTEN"]},
   cron |-> {[path |-> "/etc/crontab", lines |-> <<{"curl", "base64"}>>]},
   scripts |-> {[dir |-> "/etc/init.d", path |-> "net", lines |-> <<{}, {"nc"}>>]},
   proc |-> TRUE, log |-> [i \in 1..5 |-> [ip |-> "a", success |-> FALSE]]]
\* The same with /proc and the log closed to the scanner.
Shut == [Infected EXCEPT !.proc = FALSE, !.log = Unreadable]
MCMachines == {Infected, Shut}

VARIABLE scene

hostVars == <<vars, scanVars, scene>>
HostInit ==
  /\ Init /\ ScanInit
  /\ \/ scene = "scanners"
     \/ scene = "monitors" /\ machine = Infected /\ content = [f \in Files |-> Gone]
HostNext ==
  /\ \/ scene = "monitors" /\ Next /\ UNCHANGED scanVars
     \/ scene = "scanners" /\ ScanNext /\ UNCHANGED vars
  /\ UNCHANGED scene
HostSpec ==
  /\ HostInit /\ [][HostNext]_hostVars
  /\ WF_vars(scene = "monitors" /\ PollProcesses)
  /\ WF_vars(scene = "monitors" /\ NetworkMonitor)
  /\ WF_vars(scene = "monitors" /\ Processor)
=============================================================================
