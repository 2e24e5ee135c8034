------------------------------ MODULE Firewall ------------------------------
(***************************************************************************)
(* FirewallManager of nkosi-scanner, the block of the SSH scanner, and the  *)
(* processes that call them: the agent's response engine, the API and the   *)
(* command line, with no lock in common.                                   *)
(*                                                                         *)
(* A call is a sequence of runs of iptables, each an action.  The state is  *)
(* the filter table of the kernel.  A rule may carry a comment: the agent   *)
(* always gives one, the command line and the API may.  An address stands   *)
(* for an IPv4 address or block; blocks do not overlap.  Any run of         *)
(* iptables may fail (another program holds its lock, a binary is missing): *)
(* the calls then go on or give up as the code says.                       *)
(***************************************************************************)
EXTENDS Naturals, Sequences, FiniteSets, SequencesExt

CONSTANTS
  Callers,       \* processes that manage the firewall
  Ips,           \* addresses
  Notes,         \* comments of rules
  MaxCalls,      \* bound on calls
  MaxFaults,     \* bound on runs of iptables that fail and on killed callers
  None           \* no address, no comment, no call

ASSUME FirewallAssumption ==
  /\ IsFiniteSet(Callers)
  /\ MaxCalls \in Nat /\ MaxFaults \in Nat
  /\ None \notin Ips \cup Notes

VARIABLES
  chains,    \* which of the three chains of NKOSI exist
  rules,     \* the rules of each chain, first to last
  call,      \* caller -> the call it executes
  calls, faults,
  flushed,   \* history: a flush has run
  crossed,   \* history: two set-ups overlapped, or a run of one failed
  exempt,    \* history: addresses that were whitelisted or rate-limited
  held,      \* history: addresses whose block nobody touched since it began
  barred,    \* history: addresses the SSH scanner blocked
  uneven     \* history: addresses with a statement of a block or unblock lost,
             \* or a block and an unblock at the same time

vars == <<chains, rules, call, calls, faults, flushed, crossed, exempt, held,
          barred, uneven>>

Own == {"NKOSI_INPUT", "NKOSI_BLACKLIST", "NKOSI_WHITELIST"}
Chain == Own \cup {"INPUT", "OUTPUT"}
\* What a rule does: a jump names its chain; a verdict on one address; or it
\* accepts established connections, or loopback.
Rule == [do : Own \cup {"DROP", "ACCEPT", "RATE", "ESTABLISHED", "LO"},
         ip : Ips \cup {None}, note : Notes \cup {None}]
Fixed(do) == [do |-> do, ip |-> None, note |-> None]
Drop(ip, note) == [do |-> "DROP", ip |-> ip, note |-> note]
Accept(ip, note) == [do |-> "ACCEPT", ip |-> ip, note |-> note]
Rate(ip) == [do |-> "RATE", ip |-> ip, note |-> None]

Op == {"init", "block", "unblock", "flush", "whitelist", "unwhitelist", "rate", "ssh"}
Call == [op : Op, ip : Ips \cup {None}, note : Notes \cup {None},
         at : {"check", "add", "run"}, n : 1..8, clean : BOOLEAN]
ASSUME NoCallAssumption == None \notin Call

TypeOK ==
  /\ chains \subseteq Own
  /\ rules \in [Chain -> Seq(Rule)]
  /\ call \in [Callers -> Call \cup {None}]
  /\ calls \in 0..MaxCalls /\ faults \in 0..MaxFaults
  /\ flushed \in BOOLEAN /\ crossed \in BOOLEAN
  /\ exempt \subseteq Ips /\ held \subseteq Ips
  /\ barred \subseteq Ips /\ uneven \subseteq Ips
  \* Rules are only in chains that exist.
  /\ \A c \in Own \ chains : rules[c] = <<>>

Init ==
  /\ chains = {} /\ rules = [c \in Chain |-> <<>>]
  /\ call = [c \in Callers |-> None]
  /\ calls = 0 /\ faults = 0
  /\ flushed = FALSE /\ crossed = FALSE
  /\ exempt = {} /\ held = {} /\ barred = {} /\ uneven = {}

---------------------------------------------------------------------------
(* iptables                                                                *)

Fault == faults < MaxFaults /\ faults' = faults + 1
Exists(ch) == ch \in chains \cup {"INPUT", "OUTPUT"}
\* -A and -I fail when the chain is not there.
AddLast(ch, r) == Exists(ch) /\ rules' = [rules EXCEPT ![ch] = Append(@, r)]
AddFirst(ch, r) == Exists(ch) /\ rules' = [rules EXCEPT ![ch] = <<r>> \o @]
\* -D: the first rule that is the same in everything, its comment too.
Delete(ch, r) == rules' = [rules EXCEPT ![ch] = RemoveFirst(@, r)]

---------------------------------------------------------------------------
(* Calls                                                                   *)

Goes(c, at, n) == call' = [call EXCEPT ![c].at = at, ![c].n = n]
Ends(c) == call' = [call EXCEPT ![c] = None]
At(c, op, n) == call[c] # None /\ call[c].op = op /\ call[c].at = "run" /\ call[c].n = n
InSetup(c) == call[c] # None /\ call[c].at \in {"check", "add"}
\* Another call of this operation on the same address.
Meets(c, op) == \E d \in Callers \ {c} :
                  call[d] # None /\ call[d].op = op /\ call[d].ip = call[c].ip

WithAddress == Op \ {"init", "flush"}
Commented == {"block", "whitelist"}

\* A command, a request, or a detection of the agent.
Begin(c, op, ip, note) ==
  LET setup == op \in {"init", "block"}
  IN /\ call[c] = None /\ calls < MaxCalls
     /\ calls' = calls + 1
     /\ call' = [call EXCEPT ![c] = [op |-> op, ip |-> ip, note |-> note, n |-> 1,
                   at |-> IF setup THEN "check" ELSE "run", clean |-> TRUE]]
     /\ crossed' = (crossed \/ (setup /\ \E d \in Callers : InSetup(d)))
     /\ UNCHANGED <<chains, rules, faults, flushed, exempt, held, barred, uneven>>

BeginAny(c) ==
  \E op \in Op : \E ip \in IF op \in WithAddress THEN Ips ELSE {None} :
    \E note \in IF op \in Commented THEN Notes \cup {None} ELSE {None} : Begin(c, op, ip, note)

\* The caller is killed between two runs.
Kill(c) ==
  /\ call[c] # None
  /\ Fault
  /\ Ends(c)
  /\ uneven' = uneven \cup ({call[c].ip} \ {None})
  /\ UNCHANGED <<chains, rules, calls, flushed, crossed, exempt, held, barred>>

---------------------------------------------------------------------------
(* init_chains                                                             *)

NEW_CHAIN == "NEW"

\* Mutant of Setup: the whitelist comes first.
SetupWhitelistFirst ==
         << <<"NKOSI_INPUT", NEW_CHAIN>>, <<"INPUT", "NKOSI_INPUT">>,
            <<"NKOSI_WHITELIST", NEW_CHAIN>>, <<"NKOSI_INPUT", "NKOSI_WHITELIST">>,
            <<"NKOSI_BLACKLIST", NEW_CHAIN>>, <<"NKOSI_INPUT", "NKOSI_BLACKLIST">>,
            <<"NKOSI_INPUT", "ESTABLISHED">>, <<"NKOSI_INPUT", "LO">> >>

\* What it makes sure of, in order: a chain (-N), or a rule.
Setup == << <<"NKOSI_INPUT", NEW_CHAIN>>,
            <<"INPUT", "NKOSI_INPUT">>,
            <<"NKOSI_BLACKLIST", NEW_CHAIN>>,
            <<"NKOSI_INPUT", "NKOSI_BLACKLIST">>,
            <<"NKOSI_WHITELIST", NEW_CHAIN>>,
            <<"NKOSI_INPUT", "NKOSI_WHITELIST">>,
            <<"NKOSI_INPUT", "ESTABLISHED">>,
            <<"NKOSI_INPUT", "LO">> >>

\* Mutant of Present: a chain that exists is taken to have its rules.
PresentWithChain(item) ==
  item[1] \in chains \/ Fixed(item[2]) \in Range(rules[item[1]])

\* Mutant of Present: the rules are not looked for.
PresentChain(item) == item[2] = NEW_CHAIN /\ item[1] \in chains

Present(item) ==
  IF item[2] = NEW_CHAIN THEN item[1] \in chains
  ELSE Fixed(item[2]) \in Range(rules[item[1]])

\* Mutant of Then: one item too far.
ThenPast(c) == IF call[c].n <= 8 THEN Goes(c, "check", call[c].n + 1)
               ELSE IF call[c].op = "init" THEN Ends(c) ELSE Goes(c, "run", 1)

Then(c) == IF call[c].n < 8 THEN Goes(c, "check", call[c].n + 1)
           ELSE IF call[c].op = "init" THEN Ends(c) ELSE Goes(c, "run", 1)

\* -L and -C: a run that fails says that it is not there.
Check(c) ==
  /\ InSetup(c) /\ call[c].at = "check"
  /\ \/ /\ IF Present(Setup[call[c].n]) THEN Then(c) ELSE Goes(c, "add", call[c].n)
        /\ UNCHANGED <<faults, crossed>>
     \/ /\ Fault /\ Goes(c, "add", call[c].n)
        /\ crossed' = TRUE
  /\ UNCHANGED <<chains, rules, calls, flushed, exempt, held, barred, uneven>>

\* -N of a chain that exists fails, and so does the call; -I puts the jump to
\* NKOSI_INPUT first; -A.
Create(ch) == ch \notin chains /\ chains' = chains \cup {ch} /\ UNCHANGED rules
Add(c) ==
  LET ch == Setup[call[c].n][1]
      do == Setup[call[c].n][2]
      possible == IF do = NEW_CHAIN THEN ch \notin chains ELSE Exists(ch)
  IN /\ InSetup(c) /\ call[c].at = "add"
     /\ \/ /\ possible /\ Then(c)
           /\ CASE do = NEW_CHAIN -> Create(ch)
                [] ch = "INPUT" -> AddFirst(ch, Fixed(do)) /\ UNCHANGED chains
                [] OTHER -> AddLast(ch, Fixed(do)) /\ UNCHANGED chains
           /\ UNCHANGED faults
        \/ /\ Fault \/ (~possible /\ UNCHANGED faults)
           /\ Ends(c) /\ UNCHANGED <<chains, rules>>
     /\ UNCHANGED <<calls, flushed, crossed, exempt, held, barred, uneven>>

---------------------------------------------------------------------------
(* The operations                                                          *)

\* One run: it does what it should, or fails and changes nothing.
Runs(change) == (change /\ UNCHANGED faults) \/ (Fault /\ UNCHANGED rules)
Mixed(c, op) == IF Meets(c, op) THEN {call[c].ip} ELSE {}

\* block_ip: the rule of the blacklist is required ...
BlockIn(c) ==
  LET ip == call[c].ip
      r == Drop(ip, call[c].note)
  IN /\ At(c, "block", 1)
     /\ \/ AddLast("NKOSI_BLACKLIST", r) /\ Goes(c, "run", 2) /\ UNCHANGED faults
        \/ Fault /\ Ends(c) /\ UNCHANGED rules
     /\ uneven' = uneven \cup Mixed(c, "unblock")
     /\ UNCHANGED <<chains, calls, flushed, crossed, exempt, held, barred>>

\* ... the rule of OUTPUT is not, and Ok is returned in any case.
BlockOut(c) ==
  LET ip == call[c].ip
  IN /\ At(c, "block", 2)
     /\ Runs(AddLast("OUTPUT", Drop(ip, call[c].note)))
     /\ Ends(c)
     /\ held' = IF call[c].clean THEN held \cup {ip} ELSE held
     /\ uneven' = uneven \cup Mixed(c, "unblock") \cup (IF faults' # faults THEN {ip} ELSE {})
     /\ UNCHANGED <<chains, calls, flushed, crossed, exempt, barred>>

\* The calls under way that no longer know what their block is worth.
Spoil(S) == [d \in Callers |->
                  IF call[d] # None /\ call[d].ip \in S THEN [call[d] EXCEPT !.clean = FALSE]
                  ELSE call[d]]

\* Mutant of Unblock: only the blacklist is cleaned.
UnblockIn(c) ==
  LET ip == call[c].ip
  IN /\ At(c, "unblock", 1)
     /\ Runs(Delete("NKOSI_BLACKLIST", Drop(ip, None)))
     /\ call' = [Spoil({ip}) EXCEPT ![c] = None]
     /\ held' = held \ {ip}
     /\ uneven' = uneven \cup Mixed(c, "block") \cup (IF faults' # faults THEN {ip} ELSE {})
     /\ UNCHANGED <<chains, calls, flushed, crossed, exempt, barred>>

\* unblock_ip deletes the rule without a comment from both chains, if it is
\* there, and returns Ok.
Unblock(c) ==
  LET ip == call[c].ip
      n == call[c].n
      from == IF n = 1 THEN "NKOSI_BLACKLIST" ELSE "OUTPUT"
      spoilt == Spoil({ip})
  IN /\ At(c, "unblock", n) /\ n \in 1..2
     /\ Runs(Delete(from, Drop(ip, None)))
     /\ call' = [spoilt EXCEPT ![c] = IF n = 1 THEN [@ EXCEPT !.n = 2] ELSE None]
     /\ held' = held \ {ip}
     /\ uneven' = uneven \cup Mixed(c, "block") \cup (IF faults' # faults THEN {ip} ELSE {})
     /\ UNCHANGED <<chains, calls, flushed, crossed, exempt, barred>>

\* flush empties the three chains one after the other: the jump from INPUT, the
\* chains themselves and the rules of OUTPUT stay.
FlushOrder == <<"NKOSI_INPUT", "NKOSI_BLACKLIST", "NKOSI_WHITELIST">>
Flush(c) ==
  LET n == call[c].n
  IN /\ At(c, "flush", n) /\ n \in 1..3
     /\ Runs(rules' = [rules EXCEPT ![FlushOrder[n]] = <<>>])
     /\ call' = [Spoil(Ips) EXCEPT ![c] = IF n < 3 THEN [@ EXCEPT !.n = n + 1] ELSE None]
     /\ flushed' = TRUE
     /\ held' = {}
     /\ UNCHANGED <<chains, calls, crossed, exempt, barred, uneven>>

\* whitelist_ip fails before the first set-up; remove_whitelist does not mind.
Whitelist(c) ==
  /\ At(c, "whitelist", 1)
  /\ \/ AddFirst("NKOSI_WHITELIST", Accept(call[c].ip, call[c].note)) /\ UNCHANGED faults
     \/ ~Exists("NKOSI_WHITELIST") /\ UNCHANGED <<rules, faults>>
     \/ Fault /\ UNCHANGED rules
  /\ Ends(c)
  /\ exempt' = exempt \cup {call[c].ip}
  /\ UNCHANGED <<chains, calls, flushed, crossed, held, barred, uneven>>

Unwhitelist(c) ==
  /\ At(c, "unwhitelist", 1)
  /\ Runs(Delete("NKOSI_WHITELIST", Accept(call[c].ip, None)))
  /\ Ends(c)
  /\ UNCHANGED <<chains, calls, flushed, crossed, exempt, held, barred, uneven>>

\* add_rate_limit: the first of its two rules accepts every new connection of
\* the address, so that the second, which drops, never meets one.
RateLimit(c) ==
  /\ At(c, "rate", 1)
  /\ \/ AddLast("NKOSI_INPUT", Rate(call[c].ip)) /\ UNCHANGED faults
     \/ ~Exists("NKOSI_INPUT") /\ UNCHANGED <<rules, faults>>
     \/ Fault /\ UNCHANGED rules
  /\ Ends(c)
  /\ exempt' = exempt \cup {call[c].ip}
  /\ UNCHANGED <<chains, calls, flushed, crossed, held, barred, uneven>>

\* The block of the SSH scanner: the last rule of INPUT.
SshBlock(c) ==
  LET ip == call[c].ip
  IN /\ At(c, "ssh", 1)
     /\ Runs(AddLast("INPUT", Drop(ip, None)))
     /\ Ends(c)
     /\ barred' = IF faults' = faults THEN barred \cup {ip} ELSE barred
     /\ UNCHANGED <<chains, calls, flushed, crossed, exempt, held, uneven>>

Next == \E c \in Callers :
  \/ BeginAny(c) \/ Kill(c) \/ Check(c) \/ Add(c)
  \/ BlockIn(c) \/ BlockOut(c) \/ Unblock(c) \/ Flush(c)
  \/ Whitelist(c) \/ Unwhitelist(c) \/ RateLimit(c) \/ SshBlock(c)

Spec == Init /\ [][Next]_vars

---------------------------------------------------------------------------
(* What a packet meets                                                     *)

\* The first verdict of a sequence of verdicts; None where a rule has none.
First(s) ==
  LET given == {i \in DOMAIN s : s[i] # None}
  IN IF given = {} THEN None ELSE s[Min(given)]
\* What a rule, and what a chain of rules, say about a packet of a new connection
\* that comes from an address: the first rule about the address decides, and a
\* jump says what its chain says.
About(ip, r) == IF r.ip = ip THEN r.do ELSE None
Listed(ip, ch) == First([i \in DOMAIN rules[ch] |-> About(ip, rules[ch][i])])
Chained(ip) ==
  First([i \in DOMAIN rules["NKOSI_INPUT"] |->
           LET r == rules["NKOSI_INPUT"][i]
           IN IF r.do \in Own THEN Listed(ip, r.do) ELSE About(ip, r)])
Verdict(ip) ==
  First([i \in DOMAIN rules["INPUT"] |->
           LET r == rules["INPUT"][i]
           IN IF r.do = "NKOSI_INPUT" THEN Chained(ip) ELSE About(ip, r)])
Dropped(ip) == Verdict(ip) = "DROP"

\* A block that was reported done holds until someone unblocks the address or
\* flushes the chains, and a block of the SSH scanner for good, whatever set-ups,
\* blocks and flushes of other callers came before or run at the same time; an
\* address that was once whitelisted or rate-limited is excepted, because the
\* order of those rules depends on the past (block_ip, init_chains, flush).
BlockHolds ==
  \A ip \in (held \cup barred) \ exempt : Dropped(ip)

\* Until the first flush nothing but a rate limit comes before the blacklist,
\* however the set-ups of several callers are interleaved or broken off
\* (init_chains, add_rate_limit).
BlacklistFirst ==
  ~flushed =>
    \A i \in DOMAIN rules["NKOSI_INPUT"] :
      rules["NKOSI_INPUT"][i].do \notin {"RATE", "NKOSI_BLACKLIST"} =>
        \E j \in 1..i - 1 : rules["NKOSI_INPUT"][j].do = "NKOSI_BLACKLIST"

\* The set-up leaves no rule twice, across any sequence of calls, kills and
\* flushes, unless two set-ups overlapped or a look failed (init_chains).
NoDoubles ==
  ~crossed =>
    \A ch \in {"INPUT", "NKOSI_INPUT"} : \A i, j \in DOMAIN rules[ch] :
      (rules[ch][i] = rules[ch][j] /\ rules[ch][i].ip = None) => i = j

Bans(ch, ip, note) == Cardinality({i \in DOMAIN rules[ch] : rules[ch][i] = Drop(ip, note)})
\* An address is banned as many times on the way out as on the way in, unless a
\* statement of its calls was lost, a block met an unblock, or there was a flush,
\* which leaves OUTPUT as it is (block_ip, unblock_ip).
InOut ==
  \A ip \in Ips \ uneven :
    (~flushed /\ \A c \in Callers : call[c] = None \/ call[c].ip # ip) =>
      \A note \in Notes \cup {None} :
        Bans("NKOSI_BLACKLIST", ip, note) = Bans("OUTPUT", ip, note)

=============================================================================
