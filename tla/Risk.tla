-------------------------------- MODULE Risk --------------------------------
(***************************************************************************)
(* What the detection engines say of a content, and the verdict of          *)
(* RiskEngine::evaluate.  A detection is [engine, rule, score, conf], its    *)
(* confidence in percent; f32 products that the code truncates to u32 are    *)
(* integer divisions here.                                                  *)
(***************************************************************************)
EXTENDS Integers, FiniteSetsExt

CONSTANTS
  Contents,      \* what a file may hold
  Hits,          \* content -> the rules of the yara engine it matches
  Features,      \* content -> how often each feature of the static analyser occurs
  LowAt, SuspiciousAt, MaliciousAt   \* the thresholds of [risk]

Severity == [Critical |-> 90, High |-> 70, Medium |-> 50, Low |-> 30, Info |-> 10]
Rule ==
  [Y1  |-> [severity |-> "Medium",   conf |-> 60],
   Y2  |-> [severity |-> "High",     conf |-> 80],
   Y3  |-> [severity |-> "Critical", conf |-> 90],
   Y4  |-> [severity |-> "High",     conf |-> 85],
   EXT |-> [severity |-> "Medium",   conf |-> 70]]

\* The default rules, then those of the directory.
RuleOrder == <<"Y1", "Y2", "Y3", "Y4", "EXT">>

ASSUME RiskAssumption ==
  /\ Hits \in [Contents -> SUBSET DOMAIN Rule]
  /\ Features \in [Contents -> [{"exec", "suid", "strings", "urls", "ips", "commands", "binary"} -> Nat]]
  /\ {LowAt, SuspiciousAt, MaliciousAt} \subseteq Nat

---------------------------------------------------------------------------
(* The engines                                                             *)

\* The confidence counts here and again in Weighted.
RuleScore(r) == (Severity[Rule[r].severity] * Rule[r].conf) \div 100

FoundBy(r) == [engine |-> "Yara", rule |-> r, score |-> RuleScore(r), conf |-> Rule[r].conf]
ScanRules(c) == {FoundBy(r) : r \in Hits[c]}

StaticPoints(f) ==
  5 * f.exec + 20 * f.suid + 5 * f.strings + 3 * f.urls + 4 * f.ips + 8 * f.commands + 10 * f.binary

StaticScore(c) == Min({StaticPoints(Features[c]), 100})

Static(c) ==
  IF StaticScore(c) > 0
  THEN {[engine |-> "StaticAnalysis", rule |-> "STATIC-RISK", score |-> StaticScore(c), conf |-> 50]}
  ELSE {}

KnownHash == [engine |-> "Hash", rule |-> "HASH-MALWARE", score |-> 100, conf |-> 100]

---------------------------------------------------------------------------
(* The verdict                                                             *)

Weight == [Hash |-> 80, Yara |-> 40, StaticAnalysis |-> 20, Behavior |-> 30, Network |-> 50,
           ThreatIntel |-> 100]

Weighted(d) == (((d.score * d.conf) \div 100) * Weight[d.engine]) \div 100

\* A weighted average: one more detection may well lower it.
Evaluate(ds) ==
  LET total == MapThenSumSet(LAMBDA d : Weight[d.engine], ds)
  IN IF total = 0 THEN 0 ELSE (MapThenSumSet(Weighted, ds) * 100) \div total

Level(ds) ==
  LET score == Evaluate(ds)
  IN IF score >= MaliciousAt THEN "Malicious"
     ELSE IF score >= SuspiciousAt THEN "Suspicious"
     ELSE IF score >= LowAt THEN "Low" ELSE "Clean"

Action == [Clean |-> "Allow", Low |-> "Alert", Suspicious |-> "Alert", Malicious |-> "Quarantine"]
=============================================================================
