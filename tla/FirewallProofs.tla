--------------------------- MODULE FirewallProofs ---------------------------
(***************************************************************************)
(* Safety of Firewall for any number of callers, addresses and calls.       *)
(***************************************************************************)
EXTENDS Firewall, SequenceTheorems, FiniteSetTheorems, WellFoundedInduction, TLAPS

---------------------------------------------------------------------------
(* Sequences                                                               *)

\* A set of numbers has a smallest one.
LEMMA SmallestNumber ==
  ASSUME NEW I, I \subseteq Nat, I # {}
  PROVE  Min(I) \in I
<1>1. PICK x \in I : \A y \in I : ~ (<<y, x>> \in OpToRel(<, Nat))
  BY NatLessThanWellFounded, WFMin
<1>2. \A y \in I : x <= y
  <2>1. SUFFICES ASSUME NEW y \in I PROVE x <= y
    OBVIOUS
  <2>2. x \in Nat /\ y \in Nat
    OBVIOUS
  <2>3. ~(y < x)
    BY <1>1, <2>2 DEF OpToRel
  <2> QED BY <2>2, <2>3
<1> QED BY <1>2 DEF Min

LEMMA RemoveFirstEffect ==
  ASSUME NEW S, NEW s \in Seq(S), NEW e
  PROVE  /\ RemoveFirst(s, e) \in Seq(S)
         /\ s = <<>> => RemoveFirst(s, e) = <<>>
<1>1. CASE \E i \in 1..Len(s) : s[i] = e
  <2> DEFINE I == {i \in 1..Len(s) : s[i] = e}
             k == Min(I)
  <2>1. I # {} /\ I \subseteq Nat /\ Len(s) \in Nat
    BY <1>1
  <2>2. k \in I
    BY <2>1, SmallestNumber
  <2>3. SelectInSeq(s, LAMBDA v : v = e) = k
    BY <2>1 DEF SelectInSeq
  <2>4. RemoveFirst(s, e) = SubSeq(s, 1, k - 1) \o SubSeq(s, k + 1, Len(s))
    BY <1>1, <2>3 DEF RemoveFirst, RemoveAt
  <2> HIDE DEF k
  <2>5. k \in 1..Len(s)
    BY <2>2
  <2>6. SubSeq(s, 1, k - 1) \in Seq(S) /\ SubSeq(s, k + 1, Len(s)) \in Seq(S)
    BY <2>5
  <2> QED BY <2>4, <2>5, <2>6
<1>2. CASE ~ \E i \in 1..Len(s) : s[i] = e
  BY <1>2 DEF RemoveFirst
<1> QED BY <1>1, <1>2

---------------------------------------------------------------------------
(* What the parts of an action do                                          *)

\* A call that has an address has one.
Addressed ==
  \A c \in Callers : (call[c] # None /\ call[c].op \in WithAddress) => call[c].ip \in Ips
Typed == TypeOK /\ Addressed

RulesTyped(r, chs) ==
  r \in [Chain -> Seq(Rule)] /\ \A c \in Own \ chs : r[c] = <<>>

\* rules' differs from rules at most in ch.
OnlyIn(ch) == \A x \in Chain \ {ch} : rules'[x] = rules[x]

LEMMA AddLastEffect ==
  ASSUME Typed, NEW ch \in Chain, NEW r \in Rule, AddLast(ch, r)
  PROVE  /\ RulesTyped(rules', chains) /\ OnlyIn(ch)
         /\ rules'[ch] = Append(rules[ch], r)
<1>1. RulesTyped(rules, chains) /\ rules' = [rules EXCEPT ![ch] = Append(rules[ch], r)]
  BY DEF Typed, TypeOK, RulesTyped, AddLast
<1>2. ch \notin Own \ chains
  BY DEF AddLast, Exists, Own
<1>3. Append(rules[ch], r) \in Seq(Rule)
  BY <1>1 DEF RulesTyped
<1>4. rules' \in [Chain -> Seq(Rule)]
  BY <1>1, <1>3 DEF RulesTyped
<1>5. \A x \in Chain : rules'[x] = IF x = ch THEN Append(rules[ch], r) ELSE rules[x]
  BY <1>1 DEF RulesTyped
<1> QED BY <1>1, <1>2, <1>4, <1>5 DEF RulesTyped, OnlyIn, Chain

LEMMA AddFirstEffect ==
  ASSUME Typed, NEW ch \in Chain, NEW r \in Rule, AddFirst(ch, r)
  PROVE  /\ RulesTyped(rules', chains) /\ OnlyIn(ch)
         /\ rules'[ch] = <<r>> \o rules[ch]
<1>1. RulesTyped(rules, chains) /\ rules' = [rules EXCEPT ![ch] = <<r>> \o rules[ch]]
  BY DEF Typed, TypeOK, RulesTyped, AddFirst
<1>2. ch \notin Own \ chains
  BY DEF AddFirst, Exists, Own
<1>3. <<r>> \o rules[ch] \in Seq(Rule)
  BY <1>1 DEF RulesTyped
<1>4. rules' \in [Chain -> Seq(Rule)]
  BY <1>1, <1>3 DEF RulesTyped
<1>5. \A x \in Chain : rules'[x] = IF x = ch THEN <<r>> \o rules[ch] ELSE rules[x]
  BY <1>1 DEF RulesTyped
<1> QED BY <1>1, <1>2, <1>4, <1>5 DEF RulesTyped, OnlyIn, Chain

LEMMA DeleteEffect ==
  ASSUME Typed, NEW ch \in Chain, NEW r, Delete(ch, r)
  PROVE  RulesTyped(rules', chains) /\ OnlyIn(ch)
<1> DEFINE t == RemoveFirst(rules[ch], r)
<1>1. RulesTyped(rules, chains) /\ rules' = [rules EXCEPT ![ch] = t]
  BY DEF Typed, TypeOK, RulesTyped, Delete
<1>2. t \in Seq(Rule) /\ (rules[ch] = <<>> => t = <<>>)
  BY <1>1, RemoveFirstEffect DEF RulesTyped
<1> HIDE DEF t
<1>3. rules' \in [Chain -> Seq(Rule)]
  BY <1>1, <1>2 DEF RulesTyped
<1>4. \A x \in Chain : rules'[x] = IF x = ch THEN t ELSE rules[x]
  BY <1>1 DEF RulesTyped
<1> QED BY <1>1, <1>2, <1>3, <1>4 DEF RulesTyped, OnlyIn, Chain

LEMMA ClearEffect ==
  ASSUME Typed, NEW ch \in Chain, rules' = [rules EXCEPT ![ch] = <<>>]
  PROVE  RulesTyped(rules', chains) /\ OnlyIn(ch) /\ rules'[ch] = <<>>
<1>1. RulesTyped(rules, chains)
  BY DEF Typed, TypeOK, RulesTyped
<1>2. rules' \in [Chain -> Seq(Rule)]
  BY <1>1 DEF RulesTyped
<1>3. \A x \in Chain : rules'[x] = IF x = ch THEN <<>> ELSE rules[x]
  BY <1>1 DEF RulesTyped
<1> QED BY <1>1, <1>2, <1>3 DEF RulesTyped, OnlyIn, Chain

\* The calls of a step of c: nothing begins, and the others stay where they are.
Proceeds(c) ==
  /\ call' \in [Callers -> Call \cup {None}]
  /\ \A d \in Callers : call'[d] # None =>
       /\ call[d] # None /\ call'[d].op = call[d].op /\ call'[d].ip = call[d].ip
       /\ d # c => call'[d].at = call[d].at /\ call'[d].n = call[d].n

LEMMA CallIsTyped ==
  ASSUME Typed, NEW c \in Callers, call[c] # None
  PROVE  call[c] \in Call /\ call \in [Callers -> Call \cup {None}]
BY DEF Typed, TypeOK

LEMMA GoesEffect ==
  ASSUME Typed, NEW c \in Callers, call[c] # None,
         NEW at \in {"check", "add", "run"}, NEW n \in 1..8, Goes(c, at, n)
  PROVE  /\ Proceeds(c)
         /\ call'[c] = None \/ (call'[c].at = at /\ call'[c].n = n)
<1>1. call[c] \in Call /\ call \in [Callers -> Call \cup {None}]
  BY CallIsTyped
<1> DEFINE k == [call[c] EXCEPT !.at = at, !.n = n]
<1>2. k \in Call /\ k.at = at /\ k.n = n /\ k.op = call[c].op /\ k.ip = call[c].ip
  BY <1>1 DEF Call
<1>3. call' = [call EXCEPT ![c] = k]
  BY <1>1 DEF Goes, Call
<1> HIDE DEF k
<1> QED BY <1>1, <1>2, <1>3 DEF Proceeds

LEMMA EndsEffect ==
  ASSUME Typed, NEW c \in Callers, Ends(c)
  PROVE  Proceeds(c) /\ call'[c] = None
<1>1. call \in [Callers -> Call \cup {None}]
  BY DEF Typed, TypeOK
<1> QED BY <1>1 DEF Ends, Proceeds

\* Flush and Unblock: some calls are spoilt, c moves to m or ends.
LEMMA SpoilEffect ==
  ASSUME Typed, NEW c \in Callers, call[c] # None, NEW S, NEW m \in 1..8,
         \/ call' = [Spoil(S) EXCEPT ![c] = [@ EXCEPT !.n = m]]
         \/ call' = [Spoil(S) EXCEPT ![c] = None]
  PROVE  /\ Proceeds(c)
         /\ call'[c] = None \/ call'[c].at = call[c].at
<1>1. call[c] \in Call /\ call \in [Callers -> Call \cup {None}]
  BY CallIsTyped
<1>2. \A d \in Callers : call[d] # None =>
        /\ [call[d] EXCEPT !.clean = FALSE] \in Call
        /\ [call[d] EXCEPT !.clean = FALSE].op = call[d].op
        /\ [call[d] EXCEPT !.clean = FALSE].ip = call[d].ip
        /\ [call[d] EXCEPT !.clean = FALSE].at = call[d].at
        /\ [call[d] EXCEPT !.clean = FALSE].n = call[d].n
  BY <1>1 DEF Call
<1>3. /\ Spoil(S) \in [Callers -> Call \cup {None}]
      /\ \A d \in Callers : (Spoil(S)[d] = None /\ call[d] = None) \/
           /\ call[d] # None /\ Spoil(S)[d] \in Call
           /\ Spoil(S)[d].op = call[d].op /\ Spoil(S)[d].ip = call[d].ip
           /\ Spoil(S)[d].at = call[d].at /\ Spoil(S)[d].n = call[d].n
  BY <1>1, <1>2 DEF Spoil
<1> DEFINE k == [Spoil(S)[c] EXCEPT !.n = m]
<1>4. /\ k \in Call /\ k.op = call[c].op /\ k.ip = call[c].ip /\ k.at = call[c].at
  BY <1>3 DEF Call
<1>5. call' = [Spoil(S) EXCEPT ![c] = k] \/ call' = [Spoil(S) EXCEPT ![c] = None]
  OBVIOUS
<1> HIDE DEF k
<1> QED BY <1>3, <1>4, <1>5 DEF Proceeds

---------------------------------------------------------------------------
(* The steps of the operations                                             *)

\* What the steps of the operations, and a kill, have in common: c is not in a
\* set-up then, and the chains of the set-up get no rule without an address.
Outer == {"INPUT", "NKOSI_INPUT"}
AddsRule(ch) ==
  \E r \in Rule : /\ r.ip # None
                  /\ ch = "NKOSI_INPUT" => r.do = "RATE"
                  /\ rules'[ch] = Append(rules[ch], r)
Operates(c) ==
  /\ Proceeds(c) /\ ~InSetup(c)'
  /\ UNCHANGED <<chains, crossed, calls>>
  /\ RulesTyped(rules', chains)
  /\ faults' \in 0..MaxFaults
  /\ flushed' \in BOOLEAN /\ (flushed => flushed')
  /\ {exempt', held', barred', uneven'} \subseteq SUBSET Ips
  /\ \A ch \in Outer : \/ rules'[ch] = rules[ch]
                       \/ flushed' /\ rules'[ch] = <<>>
                       \/ AddsRule(ch)

LEMMA FaultEffect == ASSUME Typed, faults' = faults \/ Fault PROVE faults' \in 0..MaxFaults
BY FirewallAssumption DEF Typed, TypeOK, Fault, FirewallAssumption

LEMMA Histories ==
  ASSUME Typed
  PROVE  /\ RulesTyped(rules, chains)
         /\ {exempt, held, barred, uneven} \subseteq SUBSET Ips
         /\ flushed \in BOOLEAN
BY DEF Typed, TypeOK, RulesTyped

LEMMA AtEffect ==
  ASSUME Typed, NEW c \in Callers, NEW op \in WithAddress, NEW n, At(c, op, n)
  PROVE  /\ call[c] # None /\ call[c].op = op /\ call[c].at = "run" /\ call[c].n = n
         /\ call[c].ip \in Ips /\ call[c].note \in Notes \cup {None}
         /\ Drop(call[c].ip, call[c].note) \in Rule
         /\ Drop(call[c].ip, None) \in Rule
         /\ Accept(call[c].ip, call[c].note) \in Rule
         /\ Rate(call[c].ip) \in Rule
         /\ Rate(call[c].ip).do = "RATE"
         /\ Rate(call[c].ip).ip = call[c].ip /\ Drop(call[c].ip, None).ip = call[c].ip
<1>1. call[c] # None /\ call[c].op = op /\ call[c].at = "run" /\ call[c].n = n
  BY DEF At
<1>2. call[c].ip \in Ips /\ call[c].note \in Notes \cup {None}
  BY <1>1, CallIsTyped DEF Typed, Addressed, Call
<1> QED BY <1>1, <1>2 DEF Drop, Accept, Rate, Rule

LEMMA IpIsNotNone == ASSUME NEW ip \in Ips PROVE ip # None
BY FirewallAssumption DEF FirewallAssumption

LEMMA MixedEffect ==
  ASSUME NEW c \in Callers, call[c].ip \in Ips, NEW op
  PROVE  Mixed(c, op) \subseteq Ips
BY DEF Mixed

LEMMA KillOperates == ASSUME Typed, NEW c \in Callers, Kill(c) PROVE Operates(c)
<1>1. Proceeds(c) /\ call'[c] = None
  BY EndsEffect DEF Kill
<1>2. call[c] \in Call
  BY CallIsTyped DEF Kill
<1>3. uneven' \in SUBSET Ips
  BY <1>2, Histories DEF Kill, Call
<1>4. faults' \in 0..MaxFaults
  BY FaultEffect DEF Kill
<1> QED BY <1>1, <1>3, <1>4, Histories DEF Kill, Operates, InSetup, Outer

LEMMA BlockInOperates == ASSUME Typed, NEW c \in Callers, BlockIn(c) PROVE Operates(c)
<1> DEFINE r == Drop(call[c].ip, call[c].note)
<1>1. /\ call[c] # None /\ call[c].ip \in Ips /\ r \in Rule
  BY AtEffect DEF BlockIn, WithAddress, Op
<1>2. Proceeds(c) /\ ~InSetup(c)'
  <2>1. CASE Goes(c, "run", 2)
    BY <2>1, <1>1, GoesEffect DEF InSetup
  <2>2. CASE Ends(c)
    BY <2>2, EndsEffect DEF InSetup
  <2> QED BY <2>1, <2>2 DEF BlockIn
<1>3. RulesTyped(rules', chains) /\ \A ch \in Outer : rules'[ch] = rules[ch]
  <2>1. CASE AddLast("NKOSI_BLACKLIST", r)
    BY <2>1, <1>1, AddLastEffect DEF OnlyIn, Chain, Own, Outer
  <2>2. CASE UNCHANGED rules
    BY <2>2, Histories
  <2> QED BY <2>1, <2>2 DEF BlockIn
<1>4. faults' \in 0..MaxFaults
  BY FaultEffect DEF BlockIn
<1>5. uneven' \in SUBSET Ips
  BY <1>1, Histories, MixedEffect DEF BlockIn
<1> QED BY <1>2, <1>3, <1>4, <1>5, Histories DEF BlockIn, Operates

LEMMA BlockOutOperates == ASSUME Typed, NEW c \in Callers, BlockOut(c) PROVE Operates(c)
<1> DEFINE r == Drop(call[c].ip, call[c].note)
<1>1. call[c] # None /\ call[c].ip \in Ips /\ r \in Rule
  BY AtEffect DEF BlockOut, WithAddress, Op
<1>2. Proceeds(c) /\ ~InSetup(c)'
  BY EndsEffect DEF BlockOut, InSetup
<1>3. RulesTyped(rules', chains) /\ \A ch \in Outer : rules'[ch] = rules[ch]
  <2>1. CASE AddLast("OUTPUT", r)
    BY <2>1, <1>1, AddLastEffect DEF OnlyIn, Chain, Own, Outer
  <2>2. CASE UNCHANGED rules
    BY <2>2, Histories
  <2> QED BY <2>1, <2>2 DEF BlockOut, Runs
<1>4. faults' \in 0..MaxFaults
  BY FaultEffect DEF BlockOut, Runs
<1>5. uneven' \in SUBSET Ips /\ held' \in SUBSET Ips
  BY <1>1, Histories, MixedEffect DEF BlockOut
<1> QED BY <1>2, <1>3, <1>4, <1>5, Histories DEF BlockOut, Operates

LEMMA UnblockOperates == ASSUME Typed, NEW c \in Callers, Unblock(c) PROVE Operates(c)
<1> DEFINE from == IF call[c].n = 1 THEN "NKOSI_BLACKLIST" ELSE "OUTPUT"
           r == Drop(call[c].ip, None)
<1>1. call[c] # None /\ call[c].ip \in Ips /\ call[c].at = "run"
  BY AtEffect DEF Unblock, WithAddress, Op
<1>2. Proceeds(c) /\ ~InSetup(c)'
  <2>1. \/ call' = [Spoil({call[c].ip}) EXCEPT ![c] = [@ EXCEPT !.n = 2]]
        \/ call' = [Spoil({call[c].ip}) EXCEPT ![c] = None]
    BY DEF Unblock
  <2> QED BY <2>1, <1>1, SpoilEffect DEF InSetup
<1>3. RulesTyped(rules', chains) /\ \A ch \in Outer : rules'[ch] = rules[ch]
  <2>1. CASE Delete(from, r)
    BY <2>1, DeleteEffect DEF OnlyIn, Chain, Own, Outer
  <2>2. CASE UNCHANGED rules
    BY <2>2, Histories
  <2> QED BY <2>1, <2>2 DEF Unblock, Runs
<1>4. faults' \in 0..MaxFaults
  BY FaultEffect DEF Unblock, Runs
<1>5. uneven' \in SUBSET Ips /\ held' \in SUBSET Ips
  BY <1>1, Histories, MixedEffect DEF Unblock
<1> QED BY <1>2, <1>3, <1>4, <1>5, Histories DEF Unblock, Operates

LEMMA FlushOperates == ASSUME Typed, NEW c \in Callers, Flush(c) PROVE Operates(c)
<1>1. call[c] # None /\ call[c].at = "run" /\ call[c].n \in 1..3
  BY DEF Flush, At
<1>2. Proceeds(c) /\ ~InSetup(c)'
  <2>1. \/ call' = [Spoil(Ips) EXCEPT ![c] = [@ EXCEPT !.n = call[c].n + 1]]
        \/ call' = [Spoil(Ips) EXCEPT ![c] = None]
    BY DEF Flush
  <2>2. call[c].n + 1 \in 1..8
    BY <1>1
  <2> QED BY <2>1, <2>2, <1>1, SpoilEffect DEF InSetup
<1>3. /\ RulesTyped(rules', chains)
      /\ \A ch \in Outer : rules'[ch] = rules[ch] \/ rules'[ch] = <<>>
  <2>1. CASE rules' = [rules EXCEPT ![FlushOrder[call[c].n]] = <<>>]
    <3> DEFINE x == FlushOrder[call[c].n]
    <3>1. x \in Chain
      <4>1. call[c].n = 1 \/ call[c].n = 2 \/ call[c].n = 3
        BY <1>1
      <4> QED BY <4>1 DEF FlushOrder, Chain, Own
    <3>2. RulesTyped(rules', chains) /\ OnlyIn(x) /\ rules'[x] = <<>>
      BY <2>1, <3>1, ClearEffect
    <3> HIDE DEF x
    <3> QED BY <3>2 DEF OnlyIn, Outer, Chain, Own
  <2>2. CASE UNCHANGED rules
    BY <2>2, Histories
  <2> QED BY <2>1, <2>2 DEF Flush, Runs
<1>4. faults' \in 0..MaxFaults
  BY FaultEffect DEF Flush, Runs
<1> QED BY <1>2, <1>3, <1>4, Histories DEF Flush, Operates

LEMMA WhitelistOperates == ASSUME Typed, NEW c \in Callers, Whitelist(c) PROVE Operates(c)
<1> DEFINE r == Accept(call[c].ip, call[c].note)
<1>1. call[c].ip \in Ips /\ r \in Rule
  BY AtEffect DEF Whitelist, WithAddress, Op
<1>2. Proceeds(c) /\ ~InSetup(c)'
  BY EndsEffect DEF Whitelist, InSetup
<1>3. RulesTyped(rules', chains) /\ \A ch \in Outer : rules'[ch] = rules[ch]
  <2>1. CASE AddFirst("NKOSI_WHITELIST", r)
    BY <2>1, <1>1, AddFirstEffect DEF OnlyIn, Chain, Own, Outer
  <2>2. CASE UNCHANGED rules
    BY <2>2, Histories
  <2> QED BY <2>1, <2>2 DEF Whitelist
<1>4. faults' \in 0..MaxFaults
  BY FaultEffect DEF Whitelist
<1>5. exempt' \in SUBSET Ips
  BY <1>1, Histories DEF Whitelist
<1> QED BY <1>2, <1>3, <1>4, <1>5, Histories DEF Whitelist, Operates

LEMMA UnwhitelistOperates == ASSUME Typed, NEW c \in Callers, Unwhitelist(c) PROVE Operates(c)
<1>1. Proceeds(c) /\ ~InSetup(c)'
  BY EndsEffect DEF Unwhitelist, InSetup
<1>2. RulesTyped(rules', chains) /\ \A ch \in Outer : rules'[ch] = rules[ch]
  <2>1. CASE Delete("NKOSI_WHITELIST", Accept(call[c].ip, None))
    BY <2>1, DeleteEffect DEF OnlyIn, Chain, Own, Outer
  <2>2. CASE UNCHANGED rules
    BY <2>2, Histories
  <2> QED BY <2>1, <2>2 DEF Unwhitelist, Runs
<1>3. faults' \in 0..MaxFaults
  BY FaultEffect DEF Unwhitelist, Runs
<1> QED BY <1>1, <1>2, <1>3, Histories DEF Unwhitelist, Operates

LEMMA RateLimitOperates == ASSUME Typed, NEW c \in Callers, RateLimit(c) PROVE Operates(c)
<1> DEFINE r == Rate(call[c].ip)
<1>1. call[c].ip \in Ips /\ r \in Rule /\ r.do = "RATE" /\ r.ip = call[c].ip
  BY AtEffect DEF RateLimit, WithAddress, Op
<1>2. Proceeds(c) /\ ~InSetup(c)'
  BY EndsEffect DEF RateLimit, InSetup
<1>3. RulesTyped(rules', chains) /\ \A ch \in Outer : rules'[ch] = rules[ch] \/ AddsRule(ch)
  <2>1. CASE AddLast("NKOSI_INPUT", r)
    <3> HIDE DEF r
    <3>1. RulesTyped(rules', chains) /\ OnlyIn("NKOSI_INPUT")
          /\ rules'["NKOSI_INPUT"] = Append(rules["NKOSI_INPUT"], r)
      BY <2>1, <1>1, AddLastEffect DEF Chain, Own
    <3>2. r.ip # None
      BY <1>1, IpIsNotNone
    <3>3. AddsRule("NKOSI_INPUT")
      BY <1>1, <3>1, <3>2 DEF AddsRule
    <3> QED BY <3>1, <3>3 DEF OnlyIn, Outer, Chain
  <2>2. CASE UNCHANGED rules
    BY <2>2, Histories
  <2> QED BY <2>1, <2>2 DEF RateLimit
<1>4. faults' \in 0..MaxFaults
  BY FaultEffect DEF RateLimit
<1>5. exempt' \in SUBSET Ips
  BY <1>1, Histories DEF RateLimit
<1> QED BY <1>2, <1>3, <1>4, <1>5, Histories DEF RateLimit, Operates

LEMMA SshBlockOperates == ASSUME Typed, NEW c \in Callers, SshBlock(c) PROVE Operates(c)
<1> DEFINE r == Drop(call[c].ip, None)
<1>1. call[c].ip \in Ips /\ r \in Rule /\ r.ip = call[c].ip
  BY AtEffect DEF SshBlock, WithAddress, Op
<1>2. Proceeds(c) /\ ~InSetup(c)'
  BY EndsEffect DEF SshBlock, InSetup
<1>3. RulesTyped(rules', chains) /\ \A ch \in Outer : rules'[ch] = rules[ch] \/ AddsRule(ch)
  <2>1. CASE AddLast("INPUT", r)
    <3> HIDE DEF r
    <3>1. RulesTyped(rules', chains) /\ OnlyIn("INPUT")
          /\ rules'["INPUT"] = Append(rules["INPUT"], r)
      BY <2>1, <1>1, AddLastEffect DEF Chain
    <3>2. r.ip # None
      BY <1>1, IpIsNotNone
    <3>3. AddsRule("INPUT")
      BY <1>1, <3>1, <3>2 DEF AddsRule
    <3> QED BY <3>1, <3>3 DEF OnlyIn, Outer, Chain, Own
  <2>2. CASE UNCHANGED rules
    BY <2>2, Histories
  <2> QED BY <2>1, <2>2 DEF SshBlock, Runs
<1>4. faults' \in 0..MaxFaults
  BY FaultEffect DEF SshBlock, Runs
<1>5. barred' \in SUBSET Ips
  BY <1>1, Histories DEF SshBlock
<1> QED BY <1>2, <1>3, <1>4, <1>5, Histories DEF SshBlock, Operates

---------------------------------------------------------------------------
(* The steps of a set-up                                                   *)

LEMMA SetupTable ==
  /\ \A n \in 1..8 :
       /\ Setup[n][2] = NEW_CHAIN => Setup[n][1] \in Own
       /\ Setup[n][2] # NEW_CHAIN =>
            /\ Setup[n][1] \in Outer /\ Fixed(Setup[n][2]) \in Rule
            /\ Fixed(Setup[n][2]).ip = None /\ Fixed(Setup[n][2]).do = Setup[n][2]
            /\ Setup[n][1] = "NKOSI_INPUT" => n >= 4
  /\ Setup[4] = <<"NKOSI_INPUT", "NKOSI_BLACKLIST">>
<1>1. ASSUME NEW do \in {"NKOSI_INPUT", "NKOSI_BLACKLIST", "NKOSI_WHITELIST", "ESTABLISHED", "LO"}
      PROVE  Fixed(do) \in Rule /\ Fixed(do).ip = None /\ Fixed(do).do = do /\ do # NEW_CHAIN
  BY DEF Fixed, Rule, Own, NEW_CHAIN
<1>2. Setup[1] = <<"NKOSI_INPUT", NEW_CHAIN>> /\ Setup[2] = <<"INPUT", "NKOSI_INPUT">>
      /\ Setup[3] = <<"NKOSI_BLACKLIST", NEW_CHAIN>>
      /\ Setup[4] = <<"NKOSI_INPUT", "NKOSI_BLACKLIST">>
  BY DEF Setup
<1>3. Setup[5] = <<"NKOSI_WHITELIST", NEW_CHAIN>>
      /\ Setup[6] = <<"NKOSI_INPUT", "NKOSI_WHITELIST">>
      /\ Setup[7] = <<"NKOSI_INPUT", "ESTABLISHED">> /\ Setup[8] = <<"NKOSI_INPUT", "LO">>
  BY DEF Setup
<1>4. \A n \in 1..8 : n = 1 \/ n = 2 \/ n = 3 \/ n = 4 \/ n = 5 \/ n = 6 \/ n = 7 \/ n = 8
  OBVIOUS
<1> QED BY <1>1, <1>2, <1>3, <1>4 DEF Own, Outer

\* c has done with an item: the next one, or the end of the set-up.
Advances(c) ==
  /\ Proceeds(c)
  /\ \/ ~InSetup(c)'
     \/ call'[c] # None /\ call'[c].at = "check" /\ call'[c].n = call[c].n + 1

LEMMA SetupIsTyped ==
  ASSUME Typed, NEW c \in Callers, InSetup(c)
  PROVE  call[c] # None /\ call[c].n \in 1..8
BY CallIsTyped DEF InSetup, Call

LEMMA ThenEffect ==
  ASSUME Typed, NEW c \in Callers, InSetup(c), Then(c)
  PROVE  Advances(c)
<1>1. call[c] # None /\ call[c].n \in 1..8
  BY SetupIsTyped
<1>2. CASE call[c].n < 8
  <2>1. call[c].n + 1 \in 1..8 /\ Goes(c, "check", call[c].n + 1)
    BY <1>1, <1>2 DEF Then
  <2> QED BY <2>1, <1>1, GoesEffect DEF Advances, InSetup
<1>3. CASE ~(call[c].n < 8) /\ call[c].op = "init"
  BY <1>3, EndsEffect DEF Then, Advances, InSetup
<1>4. CASE ~(call[c].n < 8) /\ call[c].op # "init"
  BY <1>1, <1>4, GoesEffect DEF Then, Advances, InSetup
<1> QED BY <1>2, <1>3, <1>4

\* A rule of the set-up is new in its chain: the last, or the first of INPUT.
Joins(ch, r) ==
  /\ OnlyIn(ch)
  /\ \/ rules'[ch] = Append(rules[ch], r)
     \/ ch = "INPUT" /\ rules'[ch] = <<r>> \o rules[ch]

\* What a step of c at its item of the set-up does.
ItemThere(c) == rules' = rules /\ chains' = chains /\ Present(Setup[call[c].n])
ItemMade(c) ==
  LET item == Setup[call[c].n]
  IN \/ rules' = rules /\ item[2] = NEW_CHAIN /\ chains' = chains \cup {item[1]}
     \/ item[2] # NEW_CHAIN /\ chains' = chains /\ Joins(item[1], Fixed(item[2]))
SetsUp(c) ==
  /\ InSetup(c)
  /\ RulesTyped(rules', chains') /\ chains' \subseteq Own
  /\ faults' \in 0..MaxFaults
  /\ UNCHANGED <<calls, flushed, exempt, held, barred, uneven>>
  /\ \/ call[c].at = "check" /\ Advances(c) /\ ItemThere(c) /\ UNCHANGED crossed
     \/ /\ call[c].at = "check" /\ Proceeds(c) /\ rules' = rules /\ chains' = chains
        /\ call'[c] = None \/ (call'[c].at = "add" /\ call'[c].n = call[c].n)
        /\ crossed' = TRUE \/ (crossed' = crossed /\ ~Present(Setup[call[c].n]))
     \/ call[c].at = "add" /\ Advances(c) /\ ItemMade(c) /\ UNCHANGED crossed
     \/ /\ call[c].at = "add" /\ Proceeds(c) /\ call'[c] = None
        /\ UNCHANGED <<rules, chains, crossed>>

LEMMA CheckSetsUp == ASSUME Typed, NEW c \in Callers, Check(c) PROVE SetsUp(c)
<1>1. InSetup(c) /\ call[c].at = "check" /\ call[c] # None /\ call[c].n \in 1..8
  BY SetupIsTyped DEF Check
<1>2. faults' \in 0..MaxFaults
  BY FaultEffect DEF Check
<1>3. rules' = rules /\ chains' = chains /\ chains' \subseteq Own /\ RulesTyped(rules', chains')
  BY Histories DEF Check, Typed, TypeOK
<1>4. CASE Present(Setup[call[c].n]) /\ Then(c) /\ UNCHANGED crossed
  <2>1. Advances(c) /\ ItemThere(c)
    BY <1>1, <1>3, <1>4, ThenEffect DEF ItemThere
  <2> QED BY <1>1, <1>2, <1>3, <1>4, <2>1 DEF SetsUp, Check
<1>5. CASE /\ Goes(c, "add", call[c].n)
           /\ crossed' = TRUE \/ (UNCHANGED crossed /\ ~Present(Setup[call[c].n]))
  <2>1. Proceeds(c) /\ (call'[c] = None \/ (call'[c].at = "add" /\ call'[c].n = call[c].n))
    BY <1>1, <1>5, GoesEffect
  <2> QED BY <1>1, <1>2, <1>3, <1>5, <2>1 DEF SetsUp, Check
<1> QED BY <1>4, <1>5 DEF Check

LEMMA AddSetsUp == ASSUME Typed, NEW c \in Callers, Add(c) PROVE SetsUp(c)
<1> DEFINE ch == Setup[call[c].n][1]
           do == Setup[call[c].n][2]
<1>1. InSetup(c) /\ call[c].at = "add" /\ call[c] # None /\ call[c].n \in 1..8
  BY SetupIsTyped DEF Add
<1>2. faults' \in 0..MaxFaults
  BY FaultEffect DEF Add
<1>3. RulesTyped(rules, chains) /\ chains \subseteq Own
  BY Histories DEF Typed, TypeOK
<1>4. CASE Ends(c) /\ UNCHANGED <<chains, rules>>
  <2>1. Proceeds(c) /\ call'[c] = None
    BY <1>4, EndsEffect
  <2> QED BY <1>1, <1>2, <1>3, <1>4, <2>1 DEF SetsUp, Add
<1>5. CASE Then(c) /\ do = NEW_CHAIN /\ Create(ch)
  <2>1. Advances(c)
    BY <1>1, <1>5, ThenEffect
  <2>2. ch \in Own
    BY <1>1, <1>5, SetupTable
  <2>3. chains' = chains \cup {ch} /\ rules' = rules
    BY <1>5 DEF Create
  <2>4. RulesTyped(rules', chains') /\ chains' \subseteq Own
    BY <1>3, <2>2, <2>3 DEF RulesTyped
  <2> QED BY <1>1, <1>2, <1>5, <2>1, <2>3, <2>4 DEF SetsUp, Add, ItemMade
<1>6. CASE /\ Then(c) /\ do # NEW_CHAIN /\ UNCHANGED chains
           /\ \/ ch = "INPUT" /\ AddFirst(ch, Fixed(do))
              \/ AddLast(ch, Fixed(do))
  <2>1. Advances(c)
    BY <1>1, <1>6, ThenEffect
  <2>2. ch \in Chain /\ Fixed(do) \in Rule
    BY <1>1, <1>6, SetupTable DEF Outer, Chain, Own
  <2>3. RulesTyped(rules', chains) /\ Joins(ch, Fixed(do))
    BY <1>6, <2>2, AddFirstEffect, AddLastEffect DEF Joins
  <2> QED BY <1>1, <1>2, <1>3, <1>6, <2>1, <2>3 DEF SetsUp, Add, ItemMade
<1>7. CASE do = NEW_CHAIN
  <2>1. ch # "INPUT"
    BY <1>1, <1>7, SetupTable DEF Own
  <2> QED BY <1>4, <1>5, <1>7, <2>1 DEF Add
<1>8. CASE do # NEW_CHAIN /\ ch = "INPUT"
  BY <1>4, <1>6, <1>8 DEF Add
<1>9. CASE do # NEW_CHAIN /\ ch # "INPUT"
  BY <1>4, <1>6, <1>9 DEF Add
<1> QED BY <1>7, <1>8, <1>9

---------------------------------------------------------------------------
(* Types                                                                   *)

\* A step is the beginning of a call, a step of a set-up, or one of an operation.
LEMMA Steps ==
  ASSUME Typed, Next
  PROVE  \E c \in Callers : BeginAny(c) \/ SetsUp(c) \/ Operates(c)
BY CheckSetsUp, AddSetsUp, KillOperates, BlockInOperates, BlockOutOperates, UnblockOperates,
   FlushOperates, WhitelistOperates, UnwhitelistOperates, RateLimitOperates, SshBlockOperates
   DEF Next

LEMMA BeginEffect ==
  ASSUME Typed, NEW c \in Callers, BeginAny(c)
  PROVE  /\ call' \in [Callers -> Call \cup {None}]
         /\ \A d \in Callers \ {c} : call'[d] = call[d]
         /\ call'[c].op \in WithAddress => call'[c].ip \in Ips
         /\ call'[c].at \in {"check", "run"} /\ call'[c].n = 1
         /\ calls' \in 0..MaxCalls
         /\ crossed' \in BOOLEAN
         /\ crossed' = FALSE => crossed = FALSE
              /\ (call'[c].at = "check" => \A d \in Callers : ~InSetup(d))
         /\ UNCHANGED <<chains, rules, faults, flushed, exempt, held, barred, uneven>>
<1>a. PICK op \in Op : \E ip \in IF op \in WithAddress THEN Ips ELSE {None} :
        \E note \in IF op \in Commented THEN Notes \cup {None} ELSE {None} : Begin(c, op, ip, note)
  BY DEF BeginAny
<1>b. PICK ip \in IF op \in WithAddress THEN Ips ELSE {None} :
        \E note \in IF op \in Commented THEN Notes \cup {None} ELSE {None} : Begin(c, op, ip, note)
  BY <1>a
<1>c. PICK note \in IF op \in Commented THEN Notes \cup {None} ELSE {None} : Begin(c, op, ip, note)
  BY <1>b
<1>1. /\ ip \in IF op \in WithAddress THEN Ips ELSE {None}
      /\ note \in IF op \in Commented THEN Notes \cup {None} ELSE {None}
      /\ Begin(c, op, ip, note)
  BY <1>b, <1>c
<1> DEFINE setup == op \in {"init", "block"}
           k == [op |-> op, ip |-> ip, note |-> note, n |-> 1,
                 at |-> IF setup THEN "check" ELSE "run", clean |-> TRUE]
<1>2. /\ k \in Call /\ k.op = op /\ k.ip = ip /\ k.at \in {"check", "run"} /\ k.n = 1
      /\ k.at = "check" => setup
  <2>1. ip \in Ips \cup {None} /\ note \in Notes \cup {None}
    BY <1>1
  <2> QED BY <2>1 DEF Call
<1>3. call' = [call EXCEPT ![c] = k] /\ call \in [Callers -> Call \cup {None}]
  BY <1>1 DEF Begin, Typed, TypeOK
<1>4. /\ crossed' = (crossed \/ (setup /\ \E d \in Callers : InSetup(d)))
      /\ crossed \in BOOLEAN
  BY <1>1 DEF Begin, Typed, TypeOK
<1>5. calls' \in 0..MaxCalls
  BY <1>1, FirewallAssumption DEF Begin, Typed, TypeOK, FirewallAssumption
<1>6. op \in WithAddress => ip \in Ips
  BY <1>1
<1>7. UNCHANGED <<chains, rules, faults, flushed, exempt, held, barred, uneven>>
  BY <1>1 DEF Begin
<1> HIDE DEF k
<1>8. call'[c] = k /\ call' \in [Callers -> Call \cup {None}] /\ \A d \in Callers \ {c} : call'[d] = call[d]
  BY <1>2, <1>3
<1> QED BY <1>2, <1>4, <1>5, <1>6, <1>7, <1>8

LEMMA TypedStep == ASSUME Typed, Next PROVE Typed'
<1>1. PICK c \in Callers : BeginAny(c) \/ SetsUp(c) \/ Operates(c)
  BY Steps
<1>2. /\ calls \in 0..MaxCalls /\ faults \in 0..MaxFaults /\ crossed \in BOOLEAN /\ chains \subseteq Own
      /\ RulesTyped(rules, chains)
  BY DEF Typed, TypeOK, RulesTyped
<1>3. CASE BeginAny(c)
  <2>1. Addressed'
    BY <1>3, BeginEffect DEF Addressed, Typed
  <2>2. TypeOK'
    BY <1>3, BeginEffect DEF TypeOK, Typed
  <2> QED BY <2>1, <2>2 DEF Typed
<1>4. ASSUME Proceeds(c) PROVE Addressed'
  BY <1>4 DEF Proceeds, Addressed, Typed
<1>5. CASE SetsUp(c)
  <2>1. Proceeds(c) /\ call' \in [Callers -> Call \cup {None}]
    BY <1>5 DEF SetsUp, Advances, Proceeds
  <2>2. RulesTyped(rules', chains') /\ chains' \subseteq Own /\ faults' \in 0..MaxFaults
        /\ UNCHANGED <<calls, flushed, exempt, held, barred, uneven>>
        /\ crossed' \in BOOLEAN
    BY <1>2, <1>5 DEF SetsUp
  <2>3. TypeOK'
    BY <2>1, <2>2 DEF TypeOK, Typed, RulesTyped
  <2> QED BY <1>4, <2>1, <2>3 DEF Typed
<1>6. CASE Operates(c)
  <2>1. Proceeds(c) /\ call' \in [Callers -> Call \cup {None}]
    BY <1>6 DEF Operates, Proceeds
  <2>2. /\ RulesTyped(rules', chains) /\ faults' \in 0..MaxFaults /\ flushed' \in BOOLEAN
        /\ exempt' \subseteq Ips /\ held' \subseteq Ips /\ barred' \subseteq Ips /\ uneven' \subseteq Ips
        /\ chains' = chains /\ crossed' = crossed /\ calls' = calls
    BY <1>6 DEF Operates
  <2>3. TypeOK'
    BY <1>2, <2>1, <2>2 DEF TypeOK, RulesTyped
  <2> QED BY <1>4, <2>1, <2>3 DEF Typed
<1> QED BY <1>1, <1>3, <1>5, <1>6

LEMMA InitTyped == Init => Typed
<1> SUFFICES ASSUME Init PROVE Typed
  OBVIOUS
<1>1. rules \in [Chain -> Seq(Rule)] /\ \A c \in Own \ chains : rules[c] = <<>>
  BY DEF Init, Chain
<1>2. call \in [Callers -> Call \cup {None}] /\ \A c \in Callers : call[c] = None
  BY DEF Init
<1>3. calls \in 0..MaxCalls /\ faults \in 0..MaxFaults
  BY FirewallAssumption DEF Init, FirewallAssumption
<1>4. /\ chains \subseteq Own /\ flushed \in BOOLEAN /\ crossed \in BOOLEAN
      /\ exempt \subseteq Ips /\ held \subseteq Ips /\ barred \subseteq Ips /\ uneven \subseteq Ips
  BY DEF Init
<1> QED BY <1>1, <1>2, <1>3, <1>4 DEF Typed, TypeOK, Addressed

\* The type invariant of Firewall holds for any callers, addresses and bounds, in
\* every chain that iptables commands build (FirewallManager).
THEOREM FirewallTypes == Spec => []TypeOK
<1>1. Init => Typed
  BY InitTyped
<1>2. Typed /\ [Next]_vars => Typed'
  <2>1. Typed /\ UNCHANGED vars => Typed'
    BY DEF Typed, TypeOK, Addressed, vars
  <2> QED BY <2>1, TypedStep
<1>3. Typed => TypeOK
  BY DEF Typed
<1> QED BY <1>1, <1>2, <1>3, PTL DEF Spec

---------------------------------------------------------------------------
(* The order of the chains                                                 *)

HasJump == \E i \in DOMAIN rules["NKOSI_INPUT"] : rules["NKOSI_INPUT"][i].do = "NKOSI_BLACKLIST"
\* A set-up that is past its fourth item has seen or made the jump.
Led == ~flushed => \A c \in Callers : (InSetup(c) /\ call[c].n >= 5) => HasJump
Ordered == Led /\ BlacklistFirst

\* A chain in which nothing but rate limits comes before the jump.
Leads(s) ==
  \A i \in DOMAIN s : s[i].do \notin {"RATE", "NKOSI_BLACKLIST"} =>
    \E j \in 1..i - 1 : s[j].do = "NKOSI_BLACKLIST"

LEMMA LeadsAppend ==
  ASSUME NEW s \in Seq(Rule), NEW r \in Rule, Leads(s),
         r.do \in {"RATE", "NKOSI_BLACKLIST"} \/ \E i \in DOMAIN s : s[i].do = "NKOSI_BLACKLIST"
  PROVE  /\ Leads(Append(s, r))
         /\ \A i \in DOMAIN s : i \in DOMAIN Append(s, r) /\ Append(s, r)[i] = s[i]
         /\ \E i \in DOMAIN Append(s, r) : Append(s, r)[i] = r
<1>1. Len(s) \in Nat /\ DOMAIN s = 1..Len(s) /\ DOMAIN Append(s, r) = 1..(Len(s) + 1)
  OBVIOUS
<1>2. \A i \in 1..Len(s) : Append(s, r)[i] = s[i]
  OBVIOUS
<1>3. Append(s, r)[Len(s) + 1] = r
  OBVIOUS
<1>4. ASSUME NEW i \in 1..(Len(s) + 1), Append(s, r)[i].do \notin {"RATE", "NKOSI_BLACKLIST"}
      PROVE  \E j \in 1..i - 1 : Append(s, r)[j].do = "NKOSI_BLACKLIST"
  <2>1. CASE i \in 1..Len(s)
    <3>1. PICK j \in 1..i - 1 : s[j].do = "NKOSI_BLACKLIST"
      BY <1>1, <1>2, <1>4, <2>1 DEF Leads
    <3>2. j \in 1..Len(s)
      BY <1>1, <2>1, <3>1
    <3> QED BY <1>2, <3>1, <3>2
  <2>2. CASE i = Len(s) + 1
    <3>1. PICK j \in 1..Len(s) : s[j].do = "NKOSI_BLACKLIST"
      BY <1>1, <1>3, <1>4, <2>2
    <3> QED BY <1>1, <1>2, <2>2, <3>1
  <2> QED BY <1>1, <2>1, <2>2
<1> QED BY <1>1, <1>2, <1>3, <1>4 DEF Leads

\* What a step does to the chain: nothing, or one more rule at its end.
LEMMA JumpStep ==
  ASSUME Typed, Ordered, Next, ~flushed'
  PROVE  BlacklistFirst' /\ (HasJump => HasJump')
<1> DEFINE s == rules["NKOSI_INPUT"]
           t == rules'["NKOSI_INPUT"]
<1>1. PICK c \in Callers : BeginAny(c) \/ SetsUp(c) \/ Operates(c)
  BY Steps
<1>2. s \in Seq(Rule) /\ "NKOSI_INPUT" \in Chain /\ "NKOSI_INPUT" \in Outer
  BY DEF Typed, TypeOK, Chain, Own, Outer
<1>3. ~flushed /\ Leads(s)
  <2>1. ~flushed
    BY <1>1, BeginEffect, Histories DEF SetsUp, Operates
  <2> QED BY <2>1 DEF Ordered, BlacklistFirst, Leads
<1>4. \/ t = s
      \/ \E r \in Rule : /\ t = Append(s, r)
                         /\ r.do \in {"RATE", "NKOSI_BLACKLIST"} \/ HasJump
  <2>1. CASE BeginAny(c)
    BY <2>1, BeginEffect
  <2>2. CASE Operates(c)
    BY <1>2, <2>2 DEF Operates, AddsRule
  <2>3. CASE SetsUp(c)
    <3>1. call[c].n \in 1..8 /\ InSetup(c)
      BY <2>3, SetupIsTyped DEF SetsUp
    <3>2. CASE rules' = rules
      BY <3>2
    <3>3. CASE ItemMade(c) /\ rules' # rules
      <4> DEFINE ch == Setup[call[c].n][1]
                 r == Fixed(Setup[call[c].n][2])
      <4>1. Setup[call[c].n][2] # NEW_CHAIN /\ Joins(ch, r)
        BY <3>3 DEF ItemMade
      <4>2. ch \in Outer /\ r \in Rule /\ r.do = Setup[call[c].n][2]
            /\ (ch = "NKOSI_INPUT" => call[c].n >= 4)
        BY <3>1, <4>1, SetupTable
      <4>3. CASE ch # "NKOSI_INPUT"
        BY <1>2, <4>1, <4>3 DEF Joins, OnlyIn
      <4>4. CASE ch = "NKOSI_INPUT"
        <5>1. t = Append(s, r)
          BY <4>1, <4>4 DEF Joins
        <5>2. r.do = "NKOSI_BLACKLIST" \/ HasJump
          <6>1. CASE call[c].n = 4
            BY <4>2, <6>1, SetupTable
          <6>2. CASE call[c].n >= 5
            BY <1>3, <3>1, <6>2 DEF Ordered, Led
          <6> QED BY <3>1, <4>2, <4>4, <6>1, <6>2
        <5> QED BY <4>2, <5>1, <5>2
      <4> QED BY <4>3, <4>4
    <3> QED BY <2>3, <3>2, <3>3 DEF SetsUp, ItemThere
  <2> QED BY <1>1, <2>1, <2>2, <2>3
<1>5. CASE t = s
  BY <1>3, <1>5 DEF BlacklistFirst, Leads, HasJump
<1>6. ASSUME NEW r \in Rule, t = Append(s, r), r.do \in {"RATE", "NKOSI_BLACKLIST"} \/ HasJump
      PROVE  BlacklistFirst' /\ (HasJump => HasJump')
  <2>1. r.do \in {"RATE", "NKOSI_BLACKLIST"} \/ \E i \in DOMAIN s : s[i].do = "NKOSI_BLACKLIST"
    BY <1>6 DEF HasJump
  <2>2. /\ Leads(t)
        /\ \A i \in DOMAIN s : i \in DOMAIN t /\ t[i] = s[i]
    BY <1>2, <1>3, <1>6, <2>1, LeadsAppend
  <2> QED BY <2>2 DEF BlacklistFirst, Leads, HasJump
<1> QED BY <1>4, <1>5, <1>6

\* The others keep their place in the set-up.
LEMMA OthersStay ==
  ASSUME NEW c \in Callers, Proceeds(c), NEW d \in Callers \ {c}, InSetup(d)'
  PROVE  InSetup(d) /\ call'[d].at = call[d].at /\ call'[d].n = call[d].n
BY DEF Proceeds, InSetup

LEMMA LedStep ==
  ASSUME Typed, Ordered, Next
  PROVE  Led'
<1> SUFFICES ASSUME ~flushed', NEW d \in Callers, InSetup(d)', call'[d].n >= 5
             PROVE  HasJump'
  BY DEF Led
<1>1. PICK c \in Callers : BeginAny(c) \/ SetsUp(c) \/ Operates(c)
  BY Steps
<1>2. ~flushed
  BY <1>1, BeginEffect, Histories DEF SetsUp, Operates
<1>3. HasJump => HasJump'
  BY JumpStep
<1>4. (InSetup(d) /\ call[d].n >= 5) => HasJump
  BY <1>2 DEF Ordered, Led
<1>5. CASE BeginAny(c)
  <2>1. d # c
    <3>1. call'[c].n = 1
      BY <1>5, BeginEffect
    <3> QED BY <3>1
  <2>2. call'[d] = call[d]
    BY <1>5, <2>1, BeginEffect
  <2>3. InSetup(d) /\ call[d].n >= 5
    BY <2>2 DEF InSetup
  <2> QED BY <1>3, <1>4, <2>3
<1>6. CASE Operates(c)
  BY <1>3, <1>4, <1>6, OthersStay DEF Operates
<1>7. CASE SetsUp(c) /\ d # c
  BY <1>3, <1>4, <1>7, OthersStay DEF SetsUp, Advances
<1>8. CASE SetsUp(c) /\ d = c
  <2>1. InSetup(c) /\ call[c].n \in 1..8 /\ call'[c] # None
    BY <1>8, SetupIsTyped DEF SetsUp, InSetup
  <2>2. CASE call[c].n >= 5
    BY <1>3, <1>4, <1>8, <2>1, <2>2
  <2>3. CASE call[c].n <= 4
    <3>1. call[c].n = 4 /\ (ItemThere(c) \/ ItemMade(c))
      BY <1>8, <2>1, <2>3 DEF SetsUp, Advances
    <3>2. CASE ItemThere(c)
      <4>1. Fixed("NKOSI_BLACKLIST") \in Range(rules["NKOSI_INPUT"])
        BY <3>1, <3>2, SetupTable DEF ItemThere, Present, NEW_CHAIN
      <4>2. HasJump
        BY <4>1 DEF Range, HasJump, Fixed
      <4> QED BY <4>2, <1>3
    <3>3. CASE ItemMade(c)
      <4>1. Joins("NKOSI_INPUT", Fixed("NKOSI_BLACKLIST"))
        BY <3>1, <3>3, SetupTable DEF ItemMade, NEW_CHAIN
      <4>2. rules'["NKOSI_INPUT"] = Append(rules["NKOSI_INPUT"], Fixed("NKOSI_BLACKLIST"))
        BY <4>1 DEF Joins
      <4>3. rules["NKOSI_INPUT"] \in Seq(Rule)
        BY DEF Typed, TypeOK, Chain, Own
      <4>4. /\ Len(rules["NKOSI_INPUT"]) + 1 \in DOMAIN rules'["NKOSI_INPUT"]
            /\ rules'["NKOSI_INPUT"][Len(rules["NKOSI_INPUT"]) + 1] = Fixed("NKOSI_BLACKLIST")
        BY <4>2, <4>3
      <4> QED BY <4>4 DEF HasJump, Fixed
    <3> QED BY <3>1, <3>2, <3>3
  <2> QED BY <2>1, <2>2, <2>3
<1> QED BY <1>1, <1>5, <1>6, <1>7, <1>8

\* However many callers set the chains up at once, are killed, fail or meet blocks and
\* whitelists, nothing but a rate limit comes before the blacklist until the first
\* flush (init_chains).
THEOREM BlacklistComesFirst == Spec => []BlacklistFirst
<1>1. Init => Typed /\ Ordered
  <2>1. Init => Typed
    BY InitTyped
  <2>2. Init => Ordered
    BY DEF Init, Ordered, Led, BlacklistFirst, InSetup, Chain, Own
  <2> QED BY <2>1, <2>2
<1>2. Typed /\ Ordered /\ [Next]_vars => Typed' /\ Ordered'
  <2>1. ASSUME Typed, Ordered, Next PROVE Typed' /\ Ordered'
    <3>1. BlacklistFirst'
      <4>1. CASE flushed'
        BY <4>1 DEF BlacklistFirst
      <4>2. CASE ~flushed'
        BY <2>1, <4>2, JumpStep
      <4> QED BY <4>1, <4>2
    <3> QED BY <2>1, <3>1, TypedStep, LedStep DEF Ordered
  <2>2. ASSUME Typed, Ordered, UNCHANGED vars PROVE Typed' /\ Ordered'
    BY <2>2 DEF Typed, TypeOK, Addressed, Ordered, Led, BlacklistFirst, HasJump, InSetup, vars
  <2> QED BY <2>1, <2>2
<1>3. Typed /\ Ordered => BlacklistFirst
  BY DEF Ordered
<1> QED BY <1>1, <1>2, <1>3, PTL DEF Spec

---------------------------------------------------------------------------
(* No rule of the set-up twice                                             *)

\* Without overlaps and failed looks one caller at a time sets up, and what it is
\* about to add is not there.
Solo == ~crossed => \A c, d \in Callers : (InSetup(c) /\ InSetup(d)) => c = d
Lacks(s, r) == \A i \in DOMAIN s : s[i] # r
Adding(c) == call[c] # None /\ call[c].at = "add" /\ Setup[call[c].n][2] # NEW_CHAIN
Absent ==
  ~crossed => \A c \in Callers : Adding(c) =>
    Lacks(rules[Setup[call[c].n][1]], Fixed(Setup[call[c].n][2]))
Unique == Solo /\ Absent /\ NoDoubles

\* A chain without two equal rules of the set-up.
Single(s) == \A i, j \in DOMAIN s : (s[i] = s[j] /\ s[i].ip = None) => i = j

LEMMA SingleAppend ==
  ASSUME NEW s \in Seq(Rule), NEW r \in Rule, Single(s), r.ip # None \/ Lacks(s, r)
  PROVE  Single(Append(s, r))
<1>1. Len(s) \in Nat /\ DOMAIN s = 1..Len(s) /\ DOMAIN Append(s, r) = 1..(Len(s) + 1)
  OBVIOUS
<1>2. \A i \in 1..(Len(s) + 1) : Append(s, r)[i] = IF i = Len(s) + 1 THEN r ELSE s[i]
  OBVIOUS
<1> DEFINE t == Append(s, r)
<1> HIDE DEF t
<1>3. SUFFICES ASSUME NEW i \in 1..(Len(s) + 1), NEW j \in 1..(Len(s) + 1), t[i] = t[j], t[i].ip = None
               PROVE  i = j
  BY <1>1 DEF Single, t
<1>4. CASE i \in 1..Len(s) /\ j \in 1..Len(s)
  BY <1>1, <1>2, <1>3, <1>4 DEF Single, t
<1>5. CASE i = Len(s) + 1 /\ j \in 1..Len(s)
  BY <1>1, <1>2, <1>3, <1>5 DEF Lacks, t
<1>6. CASE j = Len(s) + 1 /\ i \in 1..Len(s)
  BY <1>1, <1>2, <1>3, <1>6 DEF Lacks, t
<1> QED BY <1>1, <1>4, <1>5, <1>6

LEMMA SinglePrepend ==
  ASSUME NEW s \in Seq(Rule), NEW r \in Rule, Single(s), Lacks(s, r)
  PROVE  Single(<<r>> \o s)
<1>1. Len(s) \in Nat /\ DOMAIN s = 1..Len(s) /\ DOMAIN (<<r>> \o s) = 1..(Len(s) + 1)
  OBVIOUS
<1>2. \A i \in 1..(Len(s) + 1) : (<<r>> \o s)[i] = IF i = 1 THEN r ELSE s[i - 1]
  OBVIOUS
<1> DEFINE t == <<r>> \o s
<1> HIDE DEF t
<1>3. SUFFICES ASSUME NEW i \in 1..(Len(s) + 1), NEW j \in 1..(Len(s) + 1), t[i] = t[j], t[i].ip = None
               PROVE  i = j
  BY <1>1 DEF Single, t
<1>4. CASE i # 1 /\ j # 1
  <2>1. i - 1 \in 1..Len(s) /\ j - 1 \in 1..Len(s)
    BY <1>1, <1>4
  <2>2. t[i] = s[i - 1] /\ t[j] = s[j - 1]
    BY <1>2, <1>4 DEF t
  <2>3. i - 1 = j - 1
    BY <1>1, <1>3, <2>1, <2>2 DEF Single
  <2> QED BY <2>3
<1>5. CASE i = 1 /\ j # 1
  <2>1. j - 1 \in 1..Len(s) /\ t[j] = s[j - 1] /\ t[i] = r
    BY <1>1, <1>2, <1>5 DEF t
  <2> QED BY <1>1, <1>3, <2>1 DEF Lacks
<1>6. CASE j = 1 /\ i # 1
  <2>1. i - 1 \in 1..Len(s) /\ t[i] = s[i - 1] /\ t[j] = r
    BY <1>1, <1>2, <1>6 DEF t
  <2> QED BY <1>1, <1>3, <2>1 DEF Lacks
<1> QED BY <1>4, <1>5, <1>6

LEMMA LacksAppend ==
  ASSUME NEW s \in Seq(Rule), NEW r \in Rule, NEW q, Lacks(s, q), q # r
  PROVE  Lacks(Append(s, r), q)
<1>1. Len(s) \in Nat /\ DOMAIN s = 1..Len(s) /\ DOMAIN Append(s, r) = 1..(Len(s) + 1)
  OBVIOUS
<1>2. \A i \in 1..(Len(s) + 1) : Append(s, r)[i] = IF i = Len(s) + 1 THEN r ELSE s[i]
  OBVIOUS
<1> QED BY <1>1, <1>2 DEF Lacks

LEMMA SoloStep ==
  ASSUME Typed, Solo, Next
  PROVE  Solo'
<1> SUFFICES ASSUME ~crossed', NEW d \in Callers, NEW e \in Callers, InSetup(d)', InSetup(e)'
             PROVE  d = e
  BY DEF Solo
<1>1. PICK c \in Callers : BeginAny(c) \/ SetsUp(c) \/ Operates(c)
  BY Steps
<1>2. CASE SetsUp(c) \/ Operates(c)
  <2>1. ~crossed /\ Proceeds(c) /\ (~InSetup(c) => ~InSetup(c)')
    BY <1>2 DEF SetsUp, Operates, Advances
  <2>2. InSetup(d) /\ InSetup(e)
    BY <2>1, OthersStay
  <2> QED BY <2>1, <2>2 DEF Solo
<1>3. CASE BeginAny(c)
  <2>1. crossed' = FALSE /\ crossed = FALSE
    BY <1>3, BeginEffect
  <2>2. \A f \in Callers \ {c} : InSetup(f)' => InSetup(f)
    BY <1>3, BeginEffect DEF InSetup
  <2>3. CASE InSetup(c)'
    <3>1. call'[c].at = "check"
      BY <1>3, <2>3, BeginEffect DEF InSetup
    <3>2. \A f \in Callers : ~InSetup(f)
      BY <1>3, <2>1, <3>1, BeginEffect
    <3> QED BY <2>2, <3>2
  <2>4. CASE ~InSetup(c)'
    BY <2>1, <2>2, <2>4 DEF Solo
  <2> QED BY <2>3, <2>4
<1> QED BY <1>1, <1>2, <1>3

LEMMA UniqueStep ==
  ASSUME Typed, Unique, Next
  PROVE  Absent' /\ NoDoubles'
<1> SUFFICES ASSUME ~crossed' PROVE Absent' /\ NoDoubles'
  BY DEF Absent, NoDoubles
<1>1. PICK c \in Callers : BeginAny(c) \/ SetsUp(c) \/ Operates(c)
  BY Steps
<1>2. ~crossed
  <2>1. CASE BeginAny(c)
    BY <2>1, BeginEffect
  <2> QED BY <1>1, <2>1 DEF SetsUp, Operates
<1>3. \A ch \in Outer : rules[ch] \in Seq(Rule) /\ Single(rules[ch])
  BY <1>2 DEF Typed, TypeOK, Unique, NoDoubles, Single, Outer, Chain, Own
<1>4. \A d \in Callers : Adding(d) =>
        /\ Setup[call[d].n][1] \in Outer /\ Fixed(Setup[call[d].n][2]).ip = None
        /\ Lacks(rules[Setup[call[d].n][1]], Fixed(Setup[call[d].n][2]))
  <2>1. ASSUME NEW d \in Callers, Adding(d) PROVE call[d].n \in 1..8
    BY <2>1, CallIsTyped DEF Adding, Call
  <2> QED BY <1>2, <2>1, SetupTable DEF Unique, Absent, Adding
<1>5. ASSUME \A ch \in Outer : Single(rules'[ch])
      PROVE  NoDoubles'
  BY <1>5 DEF NoDoubles, Single, Outer
<1>6. CASE BeginAny(c)
  <2>1. rules' = rules
    BY <1>6, BeginEffect
  <2>2. \A d \in Callers : Adding(d)' => Adding(d) /\ call'[d] = call[d]
    <3>1. call'[c].at # "add" /\ \A d \in Callers \ {c} : call'[d] = call[d]
      BY <1>6, BeginEffect
    <3> QED BY <3>1 DEF Adding
  <2> QED BY <1>3, <1>4, <1>5, <2>1, <2>2 DEF Absent
<1>7. CASE Operates(c)
  <2>1. \A ch \in Outer : \/ rules'[ch] = rules[ch]
                          \/ rules'[ch] = <<>>
                          \/ AddsRule(ch)
    BY <1>7 DEF Operates
  <2>2. ASSUME NEW ch \in Outer PROVE Single(rules'[ch])
    <3>1. CASE AddsRule(ch)
      BY <1>3, <2>2, <3>1, SingleAppend DEF AddsRule
    <3>2. CASE rules'[ch] = <<>>
      BY <3>2 DEF Single
    <3> QED BY <1>3, <2>1, <3>1, <3>2
  <2>3. ASSUME NEW ch \in Outer, NEW q, q.ip = None, Lacks(rules[ch], q)
        PROVE  Lacks(rules'[ch], q)
    <3>1. CASE AddsRule(ch)
      <4>1. PICK r \in Rule : r.ip # None /\ rules'[ch] = Append(rules[ch], r)
        BY <3>1 DEF AddsRule
      <4>2. q # r
        BY <2>3, <4>1
      <4> QED BY <1>3, <2>3, <4>1, <4>2, LacksAppend
    <3>2. CASE rules'[ch] = <<>>
      BY <3>2 DEF Lacks
    <3> QED BY <2>1, <2>3, <3>1, <3>2
  <2>4. \A d \in Callers : Adding(d)' => Adding(d) /\ call'[d].n = call[d].n
    BY <1>7, OthersStay DEF Operates, Adding, InSetup
  <2>5. Absent'
    BY <1>4, <2>3, <2>4 DEF Absent
  <2> QED BY <1>5, <2>2, <2>5
<1>8. CASE SetsUp(c)
  <2>1. InSetup(c) /\ call[c] # None /\ call[c].n \in 1..8
    BY <1>8, SetupIsTyped DEF SetsUp
  <2>2. \A d \in Callers \ {c} : ~Adding(d)'
    <3>1. SUFFICES ASSUME NEW d \in Callers \ {c}, InSetup(d)' PROVE FALSE
      BY DEF Adding, InSetup
    <3>2. InSetup(d)
      BY <1>8, <3>1, OthersStay DEF SetsUp, Advances
    <3> QED BY <1>2, <2>1, <3>2 DEF Unique, Solo
  <2>3. \A ch \in Outer : Single(rules'[ch])
    <3>1. CASE rules' = rules
      BY <1>3, <3>1
    <3>2. CASE rules' # rules
      <4> DEFINE x == Setup[call[c].n][1]
                 r == Fixed(Setup[call[c].n][2])
      <4>1. Adding(c) /\ Joins(x, r)
        BY <1>8, <2>1, <3>2 DEF SetsUp, ItemThere, ItemMade, Adding
      <4>2. x \in Outer /\ r \in Rule /\ Lacks(rules[x], r)
        BY <1>4, <2>1, <4>1, SetupTable DEF Adding
      <4> HIDE DEF x, r
      <4>3. Single(rules'[x])
        BY <1>3, <4>1, <4>2, SingleAppend, SinglePrepend DEF Joins
      <4>4. \A ch \in Outer \ {x} : rules'[ch] = rules[ch]
        BY <4>1 DEF Joins, OnlyIn, Outer, Chain, Own
      <4> QED BY <1>3, <4>3, <4>4
    <3> QED BY <3>1, <3>2
  <2>4. Absent'
    <3>1. SUFFICES ASSUME Adding(c)'
                   PROVE  Lacks(rules'[Setup[call'[c].n][1]], Fixed(Setup[call'[c].n][2]))
      BY <2>2 DEF Absent
    <3>2. /\ call'[c].n = call[c].n /\ rules' = rules
          /\ ~Present(Setup[call[c].n])
      BY <1>2, <1>8, <3>1 DEF SetsUp, Adding, Advances, InSetup
    <3>3. Setup[call[c].n][2] # NEW_CHAIN
      BY <3>1, <3>2 DEF Adding
    <3>4. Fixed(Setup[call[c].n][2]) \notin Range(rules[Setup[call[c].n][1]])
      BY <3>2, <3>3 DEF Present
    <3> QED BY <3>2, <3>4 DEF Range, Lacks
  <2> QED BY <1>5, <2>3, <2>4
<1> QED BY <1>1, <1>6, <1>7, <1>8

\* A set-up leaves none of its rules twice, through any sequence of calls, failures,
\* kills and flushes, unless two set-ups overlapped or a look failed (init_chains).
THEOREM SetUpOnce == Spec => []NoDoubles
<1>1. Init => Typed /\ Unique
  <2>1. Init => Unique
    BY DEF Init, Unique, Solo, Absent, Adding, NoDoubles, InSetup, Chain, Own
  <2> QED BY <2>1, InitTyped
<1>2. Typed /\ Unique /\ [Next]_vars => Typed' /\ Unique'
  <2>1. ASSUME Typed, Unique, Next PROVE Typed' /\ Unique'
    BY <2>1, TypedStep, SoloStep, UniqueStep DEF Unique
  <2>2. ASSUME Typed, Unique, UNCHANGED vars PROVE Typed' /\ Unique'
    BY <2>2 DEF Typed, TypeOK, Addressed, Unique, Solo, Absent, Adding, Lacks, NoDoubles, InSetup, vars
  <2> QED BY <2>1, <2>2
<1>3. Typed /\ Unique => NoDoubles
  BY DEF Unique
<1> QED BY <1>1, <1>2, <1>3, PTL DEF Spec

---------------------------------------------------------------------------
(* Blocks that hold                                                        *)

\* RemoveFirst leaves out one element that equals e, if there is one.
Less(S, s, t, e) ==
  \/ t = s /\ \A i \in 1..Len(s) : s[i] # e
  \/ \E k \in 1..Len(s) :
       /\ s[k] = e
       /\ t \in Seq(S) /\ Len(t) = Len(s) - 1
       /\ \A i \in 1..Len(s) - 1 : t[i] = IF i < k THEN s[i] ELSE s[i + 1]
LEMMA RemoveFirstIs ==
  ASSUME NEW S, NEW s \in Seq(S), NEW e
  PROVE  Less(S, s, RemoveFirst(s, e), e)
<1>1. CASE \E i \in 1..Len(s) : s[i] = e
  <2> DEFINE I == {i \in 1..Len(s) : s[i] = e}
             k == Min(I)
  <2>1. I # {} /\ I \subseteq Nat /\ Len(s) \in Nat
    BY <1>1
  <2>2. k \in I
    BY <2>1, SmallestNumber
  <2>3. SelectInSeq(s, LAMBDA v : v = e) = k
    BY <2>1 DEF SelectInSeq
  <2>4. RemoveFirst(s, e) = SubSeq(s, 1, k - 1) \o SubSeq(s, k + 1, Len(s))
    BY <1>1, <2>3 DEF RemoveFirst, RemoveAt
  <2> HIDE DEF k
  <2>5. k \in 1..Len(s) /\ s[k] = e
    BY <2>2
  <2> DEFINE a == SubSeq(s, 1, k - 1)
             b == SubSeq(s, k + 1, Len(s))
  <2>6. /\ a \in Seq(S) /\ Len(a) = k - 1
        /\ \A i \in 1..k - 1 : a[i] = s[i]
    BY <2>5
  <2>7. /\ b \in Seq(S) /\ Len(b) = Len(s) - k
        /\ \A i \in 1..Len(s) - k : b[i] = s[k + i]
    BY <2>5
  <2> HIDE DEF a, b
  <2>8. /\ a \o b \in Seq(S) /\ Len(a \o b) = Len(s) - 1
        /\ \A i \in 1..Len(s) - 1 : (a \o b)[i] = IF i <= k - 1 THEN a[i] ELSE b[i - (k - 1)]
    <3>1. /\ a \o b \in Seq(S) /\ Len(a \o b) = Len(a) + Len(b)
          /\ \A i \in 1..Len(a) + Len(b) : (a \o b)[i] = IF i <= Len(a) THEN a[i] ELSE b[i - Len(a)]
      <4>1. a \in Seq(S) /\ b \in Seq(S)
        BY <2>6, <2>7
      <4> QED BY <4>1, ConcatProperties
    <3>2. Len(a) + Len(b) = Len(s) - 1
      BY <2>1, <2>5, <2>6, <2>7
    <3> QED BY <2>6, <3>1, <3>2
  <2>9. \A i \in 1..Len(s) - 1 : (a \o b)[i] = IF i < k THEN s[i] ELSE s[i + 1]
    <3>1. SUFFICES ASSUME NEW i \in 1..Len(s) - 1
                   PROVE  (a \o b)[i] = IF i < k THEN s[i] ELSE s[i + 1]
      OBVIOUS
    <3>2. CASE i < k
      BY <2>1, <2>5, <2>6, <2>8, <3>2
    <3>3. CASE ~(i < k)
      <4>1. i - (k - 1) \in 1..Len(s) - k /\ k + (i - (k - 1)) = i + 1
        BY <2>1, <2>5, <3>3
      <4> QED BY <2>1, <2>5, <2>7, <2>8, <3>3, <4>1
    <3> QED BY <3>2, <3>3
  <2> QED BY <2>4, <2>5, <2>8, <2>9 DEF a, b, Less
<1>2. CASE ~ \E i \in 1..Len(s) : s[i] = e
  BY <1>2 DEF RemoveFirst, Less
<1> QED BY <1>1, <1>2

\* Some rule of chain ch is r.
Holds(ch, r) == \E i \in DOMAIN rules[ch] : rules[ch][i] = r
\* Chain ch keeps the rules it has, those that are not r.
KeepsBut(ch, r) == \A q : (q # r /\ Holds(ch, q)) => Holds(ch, q)'
Keeps(ch) == \A q : Holds(ch, q) => Holds(ch, q)'
\* Every rule of ch is an old one, or about nobody, or drops, or about an exempt address.
GainsDrops(ch) ==
  \A i \in DOMAIN rules'[ch] :
    \/ Holds(ch, rules'[ch][i])
    \/ rules'[ch][i].ip \in exempt' \cup {None}
    \/ rules'[ch][i].do = "DROP"
LEMMA SameRules ==
  ASSUME Typed, NEW ch \in Chain, rules'[ch] = rules[ch]
  PROVE  Keeps(ch) /\ GainsDrops(ch)
BY DEF Keeps, GainsDrops, Holds

LEMMA LongerRules ==
  ASSUME Typed, NEW ch \in Chain, NEW r \in Rule,
         rules'[ch] = Append(rules[ch], r) \/ rules'[ch] = <<r>> \o rules[ch],
         r.ip \in exempt' \cup {None} \/ r.do = "DROP"
  PROVE  Keeps(ch) /\ GainsDrops(ch) /\ Holds(ch, r)'
<1> DEFINE s == rules[ch]
           t == rules'[ch]
<1>1. s \in Seq(Rule)
  BY DEF Typed, TypeOK
<1>2. /\ \A i \in DOMAIN s : \E j \in DOMAIN t : t[j] = s[i]
      /\ \A j \in DOMAIN t : t[j] = r \/ \E i \in DOMAIN s : t[j] = s[i]
      /\ \E j \in DOMAIN t : t[j] = r
  <2>1. Len(s) \in Nat /\ DOMAIN s = 1..Len(s)
    BY <1>1
  <2>2. CASE t = Append(s, r)
    <3>1. /\ DOMAIN t = 1..(Len(s) + 1)
          /\ \A i \in 1..(Len(s) + 1) : t[i] = IF i = Len(s) + 1 THEN r ELSE s[i]
      BY <1>1, <2>2
    <3>2. \A i \in 1..Len(s) : i \in 1..(Len(s) + 1) /\ t[i] = s[i]
      BY <2>1, <3>1
    <3>3. \A j \in 1..(Len(s) + 1) : j = Len(s) + 1 \/ j \in 1..Len(s)
      BY <2>1
    <3>4. Len(s) + 1 \in 1..(Len(s) + 1)
      BY <2>1
    <3> HIDE DEF s, t
    <3> QED BY <2>1, <3>1, <3>2, <3>3, <3>4
  <2>3. CASE t = <<r>> \o s
    <3>1. /\ DOMAIN t = 1..(Len(s) + 1)
          /\ \A i \in 1..(Len(s) + 1) : t[i] = IF i = 1 THEN r ELSE s[i - 1]
      BY <1>1, <2>3
    <3>2. \A i \in 1..Len(s) : i + 1 \in 1..(Len(s) + 1) /\ i + 1 # 1 /\ (i + 1) - 1 = i
      BY <2>1
    <3>3. \A j \in 1..(Len(s) + 1) : j = 1 \/ j - 1 \in 1..Len(s)
      BY <2>1
    <3>4. 1 \in 1..(Len(s) + 1)
      BY <2>1
    <3>5. \A i \in 1..Len(s) : t[i + 1] = s[i]
      BY <3>1, <3>2
    <3> HIDE DEF s, t
    <3> QED BY <2>1, <3>1, <3>2, <3>3, <3>4, <3>5
  <2> QED BY <2>2, <2>3
<1> HIDE DEF s, t
<1>3. \A q : Holds(ch, q) <=> \E i \in DOMAIN s : s[i] = q
  BY DEF Holds, s
<1>4. \A q : Holds(ch, q)' <=> \E i \in DOMAIN t : t[i] = q
  BY DEF Holds, t
<1>5. Keeps(ch) /\ Holds(ch, r)'
  BY <1>2, <1>3, <1>4 DEF Keeps
<1>6. GainsDrops(ch)
  <2>1. SUFFICES ASSUME NEW j \in DOMAIN t
                 PROVE  Holds(ch, t[j]) \/ t[j].ip \in exempt' \cup {None} \/ t[j].do = "DROP"
    BY DEF GainsDrops, t
  <2> QED BY <1>2, <1>3
<1> QED BY <1>5, <1>6

LEMMA ShorterRules ==
  ASSUME Typed, NEW ch \in Chain, NEW r, rules'[ch] = RemoveFirst(rules[ch], r)
  PROVE  KeepsBut(ch, r) /\ GainsDrops(ch)
<1> DEFINE s == rules[ch]
           t == rules'[ch]
<1>1. s \in Seq(Rule) /\ Len(s) \in Nat /\ DOMAIN s = 1..Len(s)
  BY DEF Typed, TypeOK
<1>2. /\ \A i \in DOMAIN s : s[i] # r => \E j \in DOMAIN t : t[j] = s[i]
      /\ \A j \in DOMAIN t : \E i \in DOMAIN s : t[j] = s[i]
  <2>1. CASE t = s
    BY <2>1
  <2>2. CASE \E k \in 1..Len(s) :
              /\ s[k] = r
              /\ t \in Seq(Rule) /\ Len(t) = Len(s) - 1
              /\ \A i \in 1..Len(s) - 1 : t[i] = IF i < k THEN s[i] ELSE s[i + 1]
    <3>1. PICK k \in 1..Len(s) :
              /\ s[k] = r
              /\ t \in Seq(Rule) /\ Len(t) = Len(s) - 1
              /\ \A i \in 1..Len(s) - 1 : t[i] = IF i < k THEN s[i] ELSE s[i + 1]
      BY <2>2
    <3>2. DOMAIN t = 1..Len(s) - 1
      BY <3>1
    <3> HIDE DEF s, t
    <3>3. ASSUME NEW i \in DOMAIN s, s[i] # r PROVE \E j \in DOMAIN t : t[j] = s[i]
      <4>1. CASE i < k
        <5>1. i \in 1..Len(s) - 1
          BY <1>1, <3>3, <4>1
        <5> QED BY <3>1, <3>2, <4>1, <5>1
      <4>2. CASE i > k
        <5>1. i - 1 \in 1..Len(s) - 1 /\ ~(i - 1 < k) /\ (i - 1) + 1 = i
          BY <1>1, <3>3, <4>2
        <5> QED BY <3>1, <3>2, <5>1
      <4> QED BY <1>1, <3>1, <3>3, <4>1, <4>2
    <3>4. ASSUME NEW j \in DOMAIN t PROVE \E i \in DOMAIN s : t[j] = s[i]
      <4>1. j \in DOMAIN s /\ j + 1 \in DOMAIN s
        BY <1>1, <3>2
      <4> QED BY <3>1, <3>2, <4>1
    <3> QED BY <3>3, <3>4
  <2>3. Less(Rule, s, t, r)
    BY <1>1, RemoveFirstIs
  <2> QED BY <2>1, <2>2, <2>3 DEF Less
<1> HIDE DEF s, t
<1>3. \A q : Holds(ch, q) <=> \E i \in DOMAIN s : s[i] = q
  BY DEF Holds, s
<1>4. \A q : Holds(ch, q)' <=> \E i \in DOMAIN t : t[i] = q
  BY DEF Holds, t
<1>5. KeepsBut(ch, r)
  BY <1>2, <1>3, <1>4 DEF KeepsBut
<1>6. GainsDrops(ch)
  <2>1. SUFFICES ASSUME NEW j \in DOMAIN t
                 PROVE  Holds(ch, t[j])
    BY DEF GainsDrops, t
  <2> QED BY <1>2, <1>3
<1> QED BY <1>5, <1>6

\* Every rule about an address that was never excepted drops.
OnlyDrops ==
  \A ch \in Chain : \A i \in DOMAIN rules[ch] :
    rules[ch][i].ip \notin exempt \cup {None} => rules[ch][i].do = "DROP"
\* What a call has seen to, if no unblock or flush came in between.
Protects(c) ==
  call[c] # None =>
    /\ (InSetup(c) /\ call[c].n >= 3) \/ (call[c].op = "block" /\ call[c].at = "run")
         => Holds("INPUT", Fixed("NKOSI_INPUT"))
    /\ (call[c].op = "block" /\ call[c].clean) =>
         /\ (InSetup(c) /\ call[c].n >= 5) \/ call[c].at = "run"
              => Holds("NKOSI_INPUT", Fixed("NKOSI_BLACKLIST"))
         /\ (call[c].at = "run" /\ call[c].n = 2)
              => Holds("NKOSI_BLACKLIST", Drop(call[c].ip, call[c].note))
\* The rules that stop a blocked address.
Secure(ip) ==
  /\ Holds("INPUT", Fixed("NKOSI_INPUT"))
  /\ Holds("NKOSI_INPUT", Fixed("NKOSI_BLACKLIST"))
  /\ \E note \in Notes \cup {None} : Holds("NKOSI_BLACKLIST", Drop(ip, note))
Secured ==
  /\ OnlyDrops
  /\ \A c \in Callers : Protects(c)
  /\ \A ip \in held : Secure(ip)
  /\ \A ip \in barred : Holds("INPUT", Drop(ip, None))

---------------------------------------------------------------------------
(* What stops a packet                                                     *)

LEMMA FirstDrops ==
  ASSUME NEW s, DOMAIN s \subseteq Nat, \A i \in DOMAIN s : s[i] \in {None, "DROP"},
         \E i \in DOMAIN s : s[i] = "DROP"
  PROVE  First(s) = "DROP"
<1> DEFINE given == {i \in DOMAIN s : s[i] # None}
<1>1. CASE given = {}
  BY <1>1 DEF First
<1>2. CASE given # {}
  <2>1. Min(given) \in given
    BY <1>2, SmallestNumber
  <2>2. First(s) = s[Min(given)]
    BY <1>2 DEF First
  <2> HIDE DEF given
  <2>3. Min(given) \in DOMAIN s /\ s[Min(given)] # None
    BY <2>1 DEF given
  <2> QED BY <2>2, <2>3
<1> QED BY <1>1, <1>2

LEMMA FirstIsGiven ==
  ASSUME NEW s, DOMAIN s \subseteq Nat, \A i \in DOMAIN s : s[i] \in {None, "DROP"}
  PROVE  First(s) \in {None, "DROP"}
<1>1. CASE \E i \in DOMAIN s : s[i] = "DROP"
  BY <1>1, FirstDrops
<1>2. CASE ~ \E i \in DOMAIN s : s[i] = "DROP"
  BY <1>2 DEF First
<1> QED BY <1>1, <1>2

LEMMA AboutIsGiven ==
  ASSUME Typed, OnlyDrops, NEW ch \in Chain, NEW i \in DOMAIN rules[ch],
         NEW ip \in Ips, ip \notin exempt
  PROVE  /\ About(ip, rules[ch][i]) \in {None, "DROP"}
         /\ rules[ch][i].ip = ip => About(ip, rules[ch][i]) = "DROP"
<1>1. ip # None
  BY IpIsNotNone
<1> QED BY <1>1 DEF OnlyDrops, About

LEMMA ListedIsGiven ==
  ASSUME Typed, OnlyDrops, NEW ch \in Chain, NEW ip \in Ips, ip \notin exempt
  PROVE  /\ Listed(ip, ch) \in {None, "DROP"}
         /\ \A note : Holds(ch, Drop(ip, note)) => Listed(ip, ch) = "DROP"
<1> DEFINE s == [i \in DOMAIN rules[ch] |-> About(ip, rules[ch][i])]
<1>1. DOMAIN s \subseteq Nat /\ DOMAIN s = DOMAIN rules[ch]
  BY DEF Typed, TypeOK
<1>2. \A i \in DOMAIN s : s[i] \in {None, "DROP"} /\ (rules[ch][i].ip = ip => s[i] = "DROP")
  BY AboutIsGiven
<1>3. Listed(ip, ch) = First(s)
  BY DEF Listed
<1> HIDE DEF s
<1>4. Listed(ip, ch) \in {None, "DROP"}
  BY <1>1, <1>2, <1>3, FirstIsGiven
<1>5. ASSUME NEW note, Holds(ch, Drop(ip, note)) PROVE Listed(ip, ch) = "DROP"
  <2>1. PICK i \in DOMAIN rules[ch] : rules[ch][i] = Drop(ip, note)
    BY <1>5 DEF Holds
  <2>2. s[i] = "DROP"
    BY <1>1, <1>2, <2>1 DEF Drop
  <2> QED BY <1>1, <1>2, <1>3, <2>1, <2>2, FirstDrops
<1> QED BY <1>4, <1>5

LEMMA ChainedIsGiven ==
  ASSUME Typed, OnlyDrops, NEW ip \in Ips, ip \notin exempt
  PROVE  /\ Chained(ip) \in {None, "DROP"}
         /\ Secure(ip) => Chained(ip) = "DROP"
<1> DEFINE R == rules["NKOSI_INPUT"]
           s == [i \in DOMAIN R |-> LET r == R[i]
                                    IN IF r.do \in Own THEN Listed(ip, r.do) ELSE About(ip, r)]
<1>1. DOMAIN s \subseteq Nat /\ DOMAIN s = DOMAIN R
  BY DEF Typed, TypeOK, Chain, Own
<1>2. \A i \in DOMAIN s :
        /\ s[i] \in {None, "DROP"}
        /\ R[i].do \in Own => s[i] = Listed(ip, R[i].do)
  BY AboutIsGiven, ListedIsGiven DEF Chain, Own
<1>3. Chained(ip) = First(s)
  BY DEF Chained
<1> HIDE DEF s
<1>4. Chained(ip) \in {None, "DROP"}
  BY <1>1, <1>2, <1>3, FirstIsGiven
<1>5. ASSUME Secure(ip) PROVE Chained(ip) = "DROP"
  <2>1. PICK i \in DOMAIN R : R[i] = Fixed("NKOSI_BLACKLIST")
    BY <1>5 DEF Secure, Holds
  <2>2. Listed(ip, "NKOSI_BLACKLIST") = "DROP"
    BY <1>5, ListedIsGiven DEF Secure, Chain, Own
  <2>3. s[i] = "DROP"
    BY <1>1, <1>2, <2>1, <2>2 DEF Fixed, Own
  <2> QED BY <1>1, <1>2, <1>3, <2>1, <2>3, FirstDrops
<1> QED BY <1>4, <1>5

LEMMA SecuredDrops ==
  ASSUME Typed, Secured
  PROVE  BlockHolds
<1>1. SUFFICES ASSUME NEW ip \in Ips, ip \notin exempt, ip \in held \cup barred
               PROVE  Verdict(ip) = "DROP"
  BY DEF BlockHolds, Dropped, Typed, TypeOK
<1> DEFINE R == rules["INPUT"]
           s == [i \in DOMAIN R |-> LET r == R[i]
                                    IN IF r.do = "NKOSI_INPUT" THEN Chained(ip) ELSE About(ip, r)]
<1>2. DOMAIN s \subseteq Nat /\ DOMAIN s = DOMAIN R
  BY DEF Typed, TypeOK, Chain
<1>3. OnlyDrops
  BY DEF Secured
<1>4. \A i \in DOMAIN s :
        /\ s[i] \in {None, "DROP"}
        /\ R[i].do = "NKOSI_INPUT" => s[i] = Chained(ip)
        /\ (R[i].do # "NKOSI_INPUT" /\ R[i].ip = ip) => s[i] = "DROP"
  BY <1>1, <1>3, AboutIsGiven, ChainedIsGiven DEF Chain
<1>5. Verdict(ip) = First(s)
  BY DEF Verdict
<1> HIDE DEF s
<1>6. \E i \in DOMAIN R : s[i] = "DROP"
  <2>1. CASE ip \in held
    <3>1. Secure(ip)
      BY <2>1 DEF Secured
    <3>2. PICK i \in DOMAIN R : R[i] = Fixed("NKOSI_INPUT")
      BY <3>1 DEF Secure, Holds
    <3> QED BY <1>1, <1>2, <1>3, <1>4, <3>1, <3>2, ChainedIsGiven DEF Fixed
  <2>2. CASE ip \in barred
    <3>1. PICK i \in DOMAIN R : R[i] = Drop(ip, None)
      BY <2>2 DEF Secured, Holds
    <3> QED BY <1>2, <1>4, <3>1 DEF Drop
  <2> QED BY <1>1, <2>1, <2>2
<1> QED BY <1>2, <1>4, <1>5, <1>6, FirstDrops

---------------------------------------------------------------------------
(* What each step does to the rules that stop a blocked address             *)

Guards == {"INPUT", "NKOSI_INPUT", "NKOSI_BLACKLIST"}
\* No rule of these chains goes, and no other call notices the step.
Calm(c) ==
  /\ \A ch \in Chain : GainsDrops(ch)
  /\ \A ch \in Guards : Keeps(ch)
  /\ exempt \subseteq exempt'
  /\ \A d \in Callers \ {c} : call'[d] = call[d]

LEMMA DropsStep ==
  ASSUME OnlyDrops, \A ch \in Chain : GainsDrops(ch), exempt \subseteq exempt'
  PROVE  OnlyDrops'
<1> SUFFICES ASSUME NEW ch \in Chain, NEW i \in DOMAIN rules'[ch],
                    rules'[ch][i].ip \notin exempt' \cup {None}
             PROVE  rules'[ch][i].do = "DROP"
  BY DEF OnlyDrops
<1>1. CASE Holds(ch, rules'[ch][i])
  <2>1. PICK j \in DOMAIN rules[ch] : rules[ch][j] = rules'[ch][i]
    BY <1>1 DEF Holds
  <2> QED BY <2>1 DEF OnlyDrops
<1> QED BY <1>1 DEF GainsDrops

LEMMA SecureStays ==
  ASSUME \A ch \in Guards : Keeps(ch)
  PROVE  /\ \A ip : Secure(ip) => Secure(ip)'
         /\ \A ip : Holds("INPUT", Drop(ip, None)) => Holds("INPUT", Drop(ip, None))'
BY DEF Guards, Keeps, Secure

LEMMA ProtectsStays ==
  ASSUME \A ch \in Guards : Keeps(ch), NEW d, call'[d] = call[d], Protects(d)
  PROVE  Protects(d)'
BY DEF Guards, Keeps, Protects, InSetup

LEMMA CalmStep ==
  ASSUME Typed, Secured, NEW c \in Callers, Calm(c), Protects(c)',
         \A ip \in held' \ held : Secure(ip),
         \A ip \in barred' \ barred : Holds("INPUT", Drop(ip, None))'
  PROVE  Secured'
<1>1. OnlyDrops'
  BY DropsStep DEF Calm, Secured
<1>2. \A d \in Callers : Protects(d)'
  BY ProtectsStays DEF Calm, Secured
<1>3. \A ip \in held' : Secure(ip)'
  BY SecureStays DEF Calm, Secured
<1>4. \A ip \in barred' : Holds("INPUT", Drop(ip, None))'
  BY SecureStays DEF Calm, Secured
<1> QED BY <1>1, <1>2, <1>3, <1>4 DEF Secured

\* A rule about nobody or an exempt address, or one that drops, is added to ch or is not.
LEMMA GrowsCalmly ==
  ASSUME Typed, NEW ch \in Chain, NEW r \in Rule,
         \/ rules' = rules
         \/ /\ OnlyIn(ch)
            /\ rules'[ch] = Append(rules[ch], r) \/ rules'[ch] = <<r>> \o rules[ch],
         r.ip \in exempt' \cup {None} \/ r.do = "DROP"
  PROVE  /\ \A x \in Chain : GainsDrops(x)
         /\ \A x \in Guards : Keeps(x)
         /\ rules' # rules => Holds(ch, r)'
<1>1. Guards \subseteq Chain
  BY DEF Guards, Chain, Own
<1>2. CASE rules' = rules
  BY <1>1, <1>2, SameRules
<1>3. CASE rules' # rules
  <2>1. Keeps(ch) /\ GainsDrops(ch) /\ Holds(ch, r)'
    BY <1>3, LongerRules
  <2>2. \A x \in Chain \ {ch} : Keeps(x) /\ GainsDrops(x)
    BY <1>3, SameRules DEF OnlyIn
  <2> QED BY <1>1, <2>1, <2>2
<1> QED BY <1>2, <1>3

\* c goes on or ends, the rest of its call and the others stay as they are.
Moves(c) ==
  /\ \A d \in Callers \ {c} : call'[d] = call[d]
  /\ call'[c] # None =>
       /\ call[c] # None /\ call'[c].op = call[c].op /\ call'[c].ip = call[c].ip
       /\ call'[c].note = call[c].note /\ call'[c].clean = call[c].clean

LEMMA GoesMoves ==
  ASSUME Typed, NEW c \in Callers, call[c] # None,
         NEW at \in {"check", "add", "run"}, NEW n \in 1..8, Goes(c, at, n)
  PROVE  Moves(c) /\ call'[c] # None /\ call'[c].at = at /\ call'[c].n = n
<1>1. call[c] \in Call /\ call \in [Callers -> Call \cup {None}]
  BY CallIsTyped
<1> DEFINE k == [call[c] EXCEPT !.at = at, !.n = n]
<1>2. /\ k.at = at /\ k.n = n /\ k.op = call[c].op /\ k.ip = call[c].ip
      /\ k.note = call[c].note /\ k.clean = call[c].clean /\ k \in Call
  BY <1>1 DEF Call
<1>3. call' = [call EXCEPT ![c] = k]
  BY <1>1 DEF Goes, Call
<1> HIDE DEF k
<1> QED BY <1>1, <1>2, <1>3, NoCallAssumption DEF Moves, NoCallAssumption

LEMMA EndsMoves ==
  ASSUME Typed, NEW c \in Callers, Ends(c)
  PROVE  Moves(c) /\ call'[c] = None
<1>1. call \in [Callers -> Call \cup {None}]
  BY DEF Typed, TypeOK
<1> QED BY <1>1 DEF Ends, Moves

LEMMA ThenMoves ==
  ASSUME Typed, NEW c \in Callers, InSetup(c), Then(c)
  PROVE  /\ Moves(c)
         /\ \/ call'[c] = None
            \/ call[c].n < 8 /\ call'[c].at = "check" /\ call'[c].n = call[c].n + 1
            \/ call[c].n = 8 /\ call'[c].at = "run" /\ call'[c].n = 1
<1>1. call[c] # None /\ call[c].n \in 1..8
  BY SetupIsTyped
<1>2. CASE call[c].n < 8
  <2>1. call[c].n + 1 \in 1..8 /\ Goes(c, "check", call[c].n + 1)
    BY <1>1, <1>2 DEF Then
  <2> QED BY <2>1, <1>1, <1>2, GoesMoves
<1>3. CASE ~(call[c].n < 8) /\ call[c].op = "init"
  BY <1>3, EndsMoves DEF Then
<1>4. CASE ~(call[c].n < 8) /\ call[c].op # "init"
  BY <1>1, <1>4, GoesMoves DEF Then
<1> QED BY <1>2, <1>3, <1>4

LEMMA BeginSecures ==
  ASSUME Typed, Secured, NEW c \in Callers, BeginAny(c)
  PROVE  Secured'
<1>1. /\ \A d \in Callers \ {c} : call'[d] = call[d]
      /\ call'[c].at \in {"check", "run"} /\ call'[c].n = 1
      /\ UNCHANGED <<rules, exempt, held, barred>>
  BY BeginEffect
<1>2. call'[c].at = "run" => call'[c].op # "block"
  <2>1. PICK op \in Op : \E ip, note :
          call' = [call EXCEPT ![c] = [op |-> op, ip |-> ip, note |-> note, n |-> 1,
                   at |-> IF op \in {"init", "block"} THEN "check" ELSE "run", clean |-> TRUE]]
    BY DEF BeginAny, Begin
  <2>2. call \in [Callers -> Call \cup {None}]
    BY DEF Typed, TypeOK
  <2> QED BY <2>1, <2>2
<1>3. Protects(c)'
  BY <1>1, <1>2 DEF Protects, InSetup
<1>4. Calm(c)
  BY <1>1, SameRules DEF Calm, Guards, Chain, Own
<1> QED BY <1>1, <1>3, <1>4, CalmStep

LEMMA SetupRules ==
  ASSUME Typed, NEW c \in Callers, SetsUp(c)
  PROVE  /\ \A x \in Chain : GainsDrops(x)
         /\ \A x \in Guards : Keeps(x)
         /\ \A n \in 1..8 :
              (n = call[c].n /\ ItemMade(c) /\ Setup[n][2] # NEW_CHAIN) =>
                Holds(Setup[n][1], Fixed(Setup[n][2]))'
<1>1. call[c].n \in 1..8
  BY SetupIsTyped DEF SetsUp
<1>0. PICK n \in 1..8 : n = call[c].n
  BY <1>1
<1>a. PICK ch : ch = Setup[n][1]
  OBVIOUS
<1>b. PICK r : r = Fixed(Setup[n][2])
  OBVIOUS
<1>2. CASE Setup[n][2] # NEW_CHAIN /\ Joins(ch, r)
  <2>1. ch \in Chain /\ r \in Rule /\ r.ip = None
    BY <1>a, <1>b, <1>2, SetupTable DEF Outer, Chain, Own
  <2>2. /\ OnlyIn(ch)
        /\ rules'[ch] = Append(rules[ch], r) \/ rules'[ch] = <<r>> \o rules[ch]
    BY <1>2 DEF Joins
  <2>3. Keeps(ch) /\ GainsDrops(ch) /\ Holds(ch, r)'
    BY <2>1, <2>2, LongerRules
  <2>4. \A x \in Chain \ {ch} : Keeps(x) /\ GainsDrops(x)
    BY <2>2, SameRules DEF OnlyIn
  <2>5. Guards \subseteq Chain
    BY DEF Guards, Chain, Own
  <2> QED BY <1>0, <1>a, <1>b, <2>3, <2>4, <2>5
<1>3. CASE rules' = rules /\ ~(ItemMade(c) /\ Setup[n][2] # NEW_CHAIN)
  <2>1. \A x \in Chain : Keeps(x) /\ GainsDrops(x)
    BY <1>3, SameRules
  <2> QED BY <1>0, <1>3, <2>1 DEF Guards, Chain, Own
<1> QED BY <1>0, <1>a, <1>b, <1>2, <1>3 DEF SetsUp, ItemThere, ItemMade

LEMMA SetupSecures ==
  ASSUME Typed, Secured, NEW c \in Callers, Check(c) \/ Add(c)
  PROVE  Secured'
<1>1. SetsUp(c) /\ InSetup(c) /\ call[c] # None /\ call[c].n \in 1..8
  BY CheckSetsUp, AddSetsUp, SetupIsTyped DEF SetsUp
<1>2. UNCHANGED <<exempt, held, barred>>
  BY <1>1 DEF SetsUp
<1>3. /\ \A x \in Chain : GainsDrops(x)
      /\ \A x \in Guards : Keeps(x)
  BY <1>1, SetupRules
\* c stays at its item, or is done with it.
<1>4. /\ Moves(c)
      /\ \/ call'[c] = None
         \/ call'[c].at = "add" /\ call'[c].n = call[c].n
         \/ /\ Then(c) /\ (ItemThere(c) \/ ItemMade(c))
            /\ \/ call[c].n < 8 /\ call'[c].at = "check" /\ call'[c].n = call[c].n + 1
               \/ call[c].n = 8 /\ call'[c].at = "run" /\ call'[c].n = 1
  <2>1. CASE Goes(c, "add", call[c].n)
    BY <1>1, <2>1, GoesMoves
  <2>2. CASE Ends(c)
    BY <2>2, EndsMoves
  <2>3. CASE Then(c) /\ (ItemThere(c) \/ ItemMade(c))
    BY <1>1, <2>3, ThenMoves
  <2>4. CASE Check(c)
    BY <2>1, <2>3, <2>4 DEF Check, ItemThere
  <2>5. CASE Add(c)
    <3>1. CASE Then(c) /\ ~(ItemThere(c) \/ ItemMade(c))
      <4>1. Moves(c) /\ (call'[c] = None \/ call'[c] # None)
        BY <1>1, <3>1, ThenMoves
      <4>2. call[c].at = "add"
        BY <2>5 DEF Add
      <4>3. call'[c] = None
        BY <1>1, <3>1, <4>2 DEF SetsUp
      <4> QED BY <4>1, <4>3
    <3> QED BY <2>2, <2>3, <2>5, <3>1 DEF Add
  <2> QED BY <2>4, <2>5
<1>5. Calm(c)
  BY <1>2, <1>3, <1>4 DEF Calm, Moves
<1>6. ASSUME NEW n \in {2, 4}, call[c].n = n, ItemThere(c) \/ ItemMade(c)
      PROVE  Holds(Setup[n][1], Fixed(Setup[n][2]))'
  <2>1. Setup[n][2] # NEW_CHAIN /\ Setup[n][1] \in Guards
    BY DEF Setup, NEW_CHAIN, Guards
  <2>2. CASE ItemThere(c)
    <3>1. Holds(Setup[n][1], Fixed(Setup[n][2]))
      BY <1>6, <2>1, <2>2 DEF ItemThere, Present, Range, Holds
    <3> QED BY <1>3, <2>1, <3>1 DEF Keeps
  <2>3. CASE ItemMade(c)
    BY <1>1, <1>6, <2>1, <2>3, SetupRules
  <2> QED BY <1>6, <2>2, <2>3
<1>7. Protects(c)'
  <2>1. Protects(c) /\ Keeps("INPUT") /\ Keeps("NKOSI_INPUT")
    BY <1>3 DEF Secured, Guards
  <2>2. CASE call'[c] = None
    BY <2>2 DEF Protects
  <2>3. CASE call'[c] # None /\ call'[c].at = "add" /\ call'[c].n = call[c].n
    BY <1>1, <1>4, <2>1, <2>3 DEF Protects, InSetup, Moves, Keeps
  <2>4. CASE /\ call'[c] # None /\ (ItemThere(c) \/ ItemMade(c))
             /\ \/ call[c].n < 8 /\ call'[c].at = "check" /\ call'[c].n = call[c].n + 1
                \/ call[c].n = 8 /\ call'[c].at = "run" /\ call'[c].n = 1
    <3>1. call[c].n >= 2 => Holds("INPUT", Fixed("NKOSI_INPUT"))'
      <4>1. CASE call[c].n = 2
        BY <1>6, <2>4, <4>1 DEF Setup
      <4>2. CASE call[c].n >= 3
        BY <1>1, <2>1, <4>2 DEF Protects, Keeps
      <4> QED BY <1>1, <4>1, <4>2
    <3>2. (call[c].n >= 4 /\ call[c].op = "block" /\ call[c].clean)
             => Holds("NKOSI_INPUT", Fixed("NKOSI_BLACKLIST"))'
      <4>1. CASE call[c].n = 4
        BY <1>6, <2>4, <4>1 DEF Setup
      <4>2. CASE call[c].n >= 5
        BY <1>1, <2>1, <4>2 DEF Protects, Keeps
      <4> QED BY <1>1, <4>1, <4>2
    <3>3. call'[c].op = call[c].op /\ call'[c].clean = call[c].clean
      BY <1>4, <2>4 DEF Moves
    <3>4. ~(call'[c].at = "run" /\ call'[c].n = 2)
      BY <2>4
    <3>5. /\ (InSetup(c)' /\ call'[c].n >= 3) => call[c].n >= 2
          /\ (InSetup(c)' /\ call'[c].n >= 5) => call[c].n >= 4
          /\ call'[c].at = "run" => call[c].n = 8
      BY <1>1, <2>4 DEF InSetup
    <3> QED BY <1>1, <2>4, <3>1, <3>2, <3>3, <3>4, <3>5 DEF Protects
  <2> QED BY <1>4, <2>2, <2>3, <2>4
<1> QED BY <1>2, <1>5, <1>7, CalmStep

\* A call that leaves the guarding chains alone and ends.
LEMMA EndsSecures ==
  ASSUME Typed, Secured, NEW c \in Callers, Ends(c),
         \A ch \in Chain : GainsDrops(ch), \A ch \in Guards : Keeps(ch),
         exempt \subseteq exempt',
         \A ip \in held' \ held : Secure(ip),
         \A ip \in barred' \ barred : Holds("INPUT", Drop(ip, None))'
  PROVE  Secured'
<1>1. Moves(c) /\ call'[c] = None
  BY EndsMoves
<1>2. Calm(c)
  BY <1>1 DEF Calm, Moves
<1>3. Protects(c)'
  BY <1>1 DEF Protects
<1> QED BY <1>2, <1>3, CalmStep

LEMMA KillSecures == ASSUME Typed, Secured, NEW c \in Callers, Kill(c) PROVE Secured'
<1>1. /\ \A ch \in Chain : GainsDrops(ch)
      /\ \A ch \in Guards : Keeps(ch)
  BY SameRules DEF Kill, Guards, Chain, Own
<1> QED BY <1>1, EndsSecures DEF Kill

LEMMA BlockInSecures == ASSUME Typed, Secured, NEW c \in Callers, BlockIn(c) PROVE Secured'
<1>1. PICK r : r = Drop(call[c].ip, call[c].note)
  OBVIOUS
<1>2. /\ call[c] # None /\ call[c].op = "block" /\ call[c].at = "run" /\ call[c].n = 1
      /\ r \in Rule /\ r.do = "DROP"
  <2>1. r.do = "DROP"
    BY <1>1 DEF Drop
  <2>2. At(c, "block", 1) /\ "block" \in WithAddress
    BY DEF BlockIn, WithAddress, Op
  <2> QED BY <1>1, <2>1, <2>2, AtEffect
<1>3. /\ rules' # rules => /\ OnlyIn("NKOSI_BLACKLIST")
                           /\ rules'["NKOSI_BLACKLIST"] = Append(rules["NKOSI_BLACKLIST"], r)
      /\ UNCHANGED <<exempt, held, barred>>
  BY <1>1, <1>2, AddLastEffect DEF BlockIn, Chain, Own
<1>4. /\ \A x \in Chain : GainsDrops(x)
      /\ \A x \in Guards : Keeps(x)
  BY <1>2, <1>3, GrowsCalmly DEF Chain, Own
<1>5. CASE Ends(c)
  BY <1>3, <1>4, <1>5, EndsSecures
<1>6. CASE AddLast("NKOSI_BLACKLIST", r) /\ Goes(c, "run", 2)
  <2>1. Moves(c) /\ call'[c].at = "run" /\ call'[c].n = 2
    BY <1>2, <1>6, GoesMoves
  <2>2. Holds("NKOSI_BLACKLIST", r)'
    BY <1>2, <1>6, AddLastEffect, LongerRules DEF Chain, Own
  <2>3. Calm(c)
    BY <1>3, <1>4, <2>1 DEF Calm, Moves
  <2>4. Protects(c)'
    <3>1. Protects(c) /\ Keeps("INPUT") /\ Keeps("NKOSI_INPUT")
      BY <1>4 DEF Secured, Guards
    <3>2. CASE call'[c] = None
      BY <3>2 DEF Protects
    <3>3. CASE call'[c] # None
      <4>1. /\ call'[c].op = "block" /\ call'[c].clean = call[c].clean
            /\ Drop(call'[c].ip, call'[c].note) = r
        BY <1>1, <1>2, <2>1, <3>3 DEF Moves
      <4>2. Holds("INPUT", Fixed("NKOSI_INPUT"))'
        BY <1>2, <3>1 DEF Protects, Keeps
      <4>3. call[c].clean => Holds("NKOSI_INPUT", Fixed("NKOSI_BLACKLIST"))'
        BY <1>2, <3>1 DEF Protects, Keeps
      <4>4. Holds("NKOSI_BLACKLIST", Drop(call[c].ip, call[c].note))'
             <=> Holds("NKOSI_BLACKLIST", r)'
        BY <4>1
      <4> QED BY <2>1, <2>2, <4>1, <4>2, <4>3, <4>4 DEF Protects, InSetup
    <3> QED BY <3>2, <3>3
  <2> QED BY <1>3, <2>3, <2>4, CalmStep
<1> QED BY <1>1, <1>5, <1>6 DEF BlockIn

LEMMA BlockOutSecures == ASSUME Typed, Secured, NEW c \in Callers, BlockOut(c) PROVE Secured'
<1>1. PICK r : r = Drop(call[c].ip, call[c].note)
  OBVIOUS
<1>2. /\ call[c] # None /\ call[c].op = "block" /\ call[c].at = "run" /\ call[c].n = 2
      /\ r \in Rule /\ r.do = "DROP" /\ call[c].note \in Notes \cup {None}
  <2>1. r.do = "DROP"
    BY <1>1 DEF Drop
  <2>2. At(c, "block", 2) /\ "block" \in WithAddress
    BY DEF BlockOut, WithAddress, Op
  <2> QED BY <1>1, <2>1, <2>2, AtEffect
<1>3. /\ rules' # rules => OnlyIn("OUTPUT") /\ rules'["OUTPUT"] = Append(rules["OUTPUT"], r)
      /\ UNCHANGED <<exempt, barred>> /\ Ends(c)
  BY <1>1, <1>2, AddLastEffect DEF BlockOut, Runs, Chain
<1>4. /\ \A x \in Chain : GainsDrops(x)
      /\ \A x \in Guards : Keeps(x)
  BY <1>2, <1>3, GrowsCalmly DEF Chain
<1>5. \A ip \in held' \ held : Secure(ip)
  <2>1. \A ip \in held' \ held : call[c].clean /\ ip = call[c].ip
    BY DEF BlockOut
  <2>2. Protects(c)
    BY DEF Secured
  <2>3. call[c].clean => Secure(call[c].ip)
    BY <1>2, <2>2 DEF Protects, Secure
  <2> QED BY <2>1, <2>3
<1> QED BY <1>3, <1>4, <1>5, EndsSecures

LEMMA WhitelistSecures == ASSUME Typed, Secured, NEW c \in Callers, Whitelist(c) PROVE Secured'
<1>1. PICK r : r = Accept(call[c].ip, call[c].note)
  OBVIOUS
<1>2. r \in Rule /\ r.ip \in exempt'
  BY <1>1, AtEffect DEF Whitelist, WithAddress, Op, Accept
<1>3. /\ rules' # rules => /\ OnlyIn("NKOSI_WHITELIST")
                           /\ rules'["NKOSI_WHITELIST"] = <<r>> \o rules["NKOSI_WHITELIST"]
      /\ UNCHANGED <<held, barred>> /\ Ends(c) /\ exempt \subseteq exempt'
  BY <1>1, <1>2, AddFirstEffect DEF Whitelist, Chain, Own
<1>4. /\ \A x \in Chain : GainsDrops(x)
      /\ \A x \in Guards : Keeps(x)
  BY <1>2, <1>3, GrowsCalmly DEF Chain, Own
<1> QED BY <1>3, <1>4, EndsSecures

LEMMA UnwhitelistSecures == ASSUME Typed, Secured, NEW c \in Callers, Unwhitelist(c) PROVE Secured'
<1> DEFINE w == "NKOSI_WHITELIST"
<1>1. PICK r : r = Accept(call[c].ip, None)
  OBVIOUS
<1>2. /\ UNCHANGED <<exempt, held, barred>> /\ Ends(c)
      /\ Delete(w, r) \/ rules' = rules
  BY <1>1 DEF Unwhitelist, Runs
<1>3. \A x \in Chain \ {w} : rules'[x] = rules[x]
  BY <1>2, DeleteEffect DEF OnlyIn, Chain, Own
<1>4. rules'[w] = RemoveFirst(rules[w], r) \/ rules'[w] = rules[w]
  <2>1. rules \in [Chain -> Seq(Rule)] /\ w \in Chain
    BY DEF Typed, TypeOK, Chain, Own
  <2> QED BY <1>2, <2>1 DEF Delete
<1>5. GainsDrops(w)
  BY <1>4, ShorterRules, SameRules DEF Chain, Own
<1>6. \A x \in Chain \ {w} : GainsDrops(x) /\ Keeps(x)
  BY <1>3, SameRules
<1>7. w \notin Guards /\ Guards \subseteq Chain
  BY DEF Guards, Chain, Own
<1> HIDE DEF w
<1>8. /\ \A x \in Chain : GainsDrops(x)
      /\ \A x \in Guards : Keeps(x)
  BY <1>5, <1>6, <1>7
<1> QED BY <1>2, <1>8, EndsSecures

LEMMA RateLimitSecures == ASSUME Typed, Secured, NEW c \in Callers, RateLimit(c) PROVE Secured'
<1>1. PICK r : r = Rate(call[c].ip)
  OBVIOUS
<1>2. r \in Rule /\ r.ip \in exempt'
  BY <1>1, AtEffect DEF RateLimit, WithAddress, Op
<1>3. /\ rules' # rules => /\ OnlyIn("NKOSI_INPUT")
                           /\ rules'["NKOSI_INPUT"] = Append(rules["NKOSI_INPUT"], r)
      /\ UNCHANGED <<held, barred>> /\ Ends(c) /\ exempt \subseteq exempt'
  BY <1>1, <1>2, AddLastEffect DEF RateLimit, Chain, Own
<1>4. /\ \A x \in Chain : GainsDrops(x)
      /\ \A x \in Guards : Keeps(x)
  BY <1>2, <1>3, GrowsCalmly DEF Chain, Own
<1> QED BY <1>3, <1>4, EndsSecures

LEMMA SshBlockSecures == ASSUME Typed, Secured, NEW c \in Callers, SshBlock(c) PROVE Secured'
<1>1. PICK r : r = Drop(call[c].ip, None)
  OBVIOUS
<1>2. r \in Rule /\ r.do = "DROP"
  BY <1>1, AtEffect DEF SshBlock, WithAddress, Op, Drop
<1>3. /\ rules' # rules => OnlyIn("INPUT") /\ rules'["INPUT"] = Append(rules["INPUT"], r)
      /\ UNCHANGED <<exempt, held>> /\ Ends(c)
  BY <1>1, <1>2, AddLastEffect DEF SshBlock, Runs, Chain
<1>4. /\ \A x \in Chain : GainsDrops(x)
      /\ \A x \in Guards : Keeps(x)
  BY <1>2, <1>3, GrowsCalmly DEF Chain
\* The address is barred only if the rule was added.
<1>5. \A ip \in barred' \ barred : Holds("INPUT", Drop(ip, None))'
  <2>1. SUFFICES ASSUME NEW ip \in barred' \ barred PROVE Holds("INPUT", Drop(ip, None))'
    OBVIOUS
  <2>2. ip = call[c].ip /\ faults' = faults
    BY <2>1 DEF SshBlock
  <2>3. faults \in Nat
    BY DEF Typed, TypeOK
  <2>4. AddLast("INPUT", r)
    BY <1>1, <2>2, <2>3 DEF SshBlock, Runs, Fault
  <2>5. Holds("INPUT", r)'
    BY <1>2, <2>4, AddLastEffect, LongerRules DEF Chain
  <2> QED BY <1>1, <2>2, <2>5
<1> QED BY <1>3, <1>4, <1>5, EndsSecures

\* What spoiling leaves of the calls: a clean call, and the place of each.
LEMMA SpoilLeaves ==
  ASSUME Typed, NEW c \in Callers, call[c] # None, NEW S, NEW m \in 1..8,
         \/ call' = [Spoil(S) EXCEPT ![c] = [@ EXCEPT !.n = m]]
         \/ call' = [Spoil(S) EXCEPT ![c] = None]
  PROVE  \A d \in Callers \ {c} : call'[d] # None =>
           /\ call[d] # None /\ call'[d].op = call[d].op /\ call'[d].at = call[d].at
           /\ call'[d].n = call[d].n /\ call'[d].ip = call[d].ip
           /\ call'[d].note = call[d].note
           /\ call'[d].clean => call'[d] = call[d] /\ call[d].ip \notin S
<1>1. call \in [Callers -> Call \cup {None}]
  BY CallIsTyped
<1>2. SUFFICES ASSUME NEW d \in Callers \ {c}, call'[d] # None
               PROVE  /\ call[d] # None /\ call'[d].op = call[d].op /\ call'[d].at = call[d].at
                      /\ call'[d].n = call[d].n /\ call'[d].ip = call[d].ip
                      /\ call'[d].note = call[d].note
                      /\ call'[d].clean => call'[d] = call[d] /\ call[d].ip \notin S
  OBVIOUS
<1>3. call'[d] = Spoil(S)[d]
  BY DEF Spoil
<1>4. call'[d] = IF call[d] # None /\ call[d].ip \in S THEN [call[d] EXCEPT !.clean = FALSE]
                 ELSE call[d]
  BY <1>3 DEF Spoil
<1>5. CASE call[d] # None /\ call[d].ip \in S
  <2>1. call[d] \in Call
    BY <1>1, <1>5
  <2> QED BY <1>4, <1>5, <2>1 DEF Call
<1> QED BY <1>2, <1>4, <1>5

LEMMA UnblockSecures == ASSUME Typed, Secured, NEW c \in Callers, Unblock(c) PROVE Secured'
<1>1. PICK ip : ip = call[c].ip
  OBVIOUS
<1>2. PICK from : from = IF call[c].n = 1 THEN "NKOSI_BLACKLIST" ELSE "OUTPUT"
  OBVIOUS
<1> DEFINE r == Drop(ip, None)
<1>3. /\ call[c] # None /\ call[c].op = "unblock" /\ call[c].at = "run"
      /\ from \in {"NKOSI_BLACKLIST", "OUTPUT"} /\ from \in Chain
      /\ Delete(from, r) \/ rules' = rules
      /\ held' = held \ {ip} /\ UNCHANGED <<exempt, barred>>
  BY <1>1, <1>2 DEF Unblock, At, Runs, Chain, Own
<1>4. \A x \in Chain \ {from} : rules'[x] = rules[x]
  BY <1>3, DeleteEffect DEF OnlyIn
<1>5. rules'[from] = RemoveFirst(rules[from], r) \/ rules'[from] = rules[from]
  BY <1>3 DEF Delete, Typed, TypeOK
<1>6. KeepsBut(from, r) /\ GainsDrops(from)
  BY <1>3, <1>5, ShorterRules, SameRules DEF KeepsBut, Keeps
<1>7. \A x \in Chain \ {from} : GainsDrops(x) /\ Keeps(x)
  BY <1>4, SameRules
<1>8. /\ \A x \in Chain : GainsDrops(x)
      /\ Keeps("INPUT") /\ Keeps("NKOSI_INPUT")
      /\ \A q : (q # r /\ Holds("NKOSI_BLACKLIST", q)) => Holds("NKOSI_BLACKLIST", q)'
  BY <1>3, <1>6, <1>7 DEF Chain, Own, Keeps, KeepsBut
<1>9. \A x, note : x # ip => Drop(x, note) # r
  BY DEF Drop
<1> HIDE DEF r
<1>10. OnlyDrops'
  BY <1>3, <1>8, DropsStep DEF Secured
<1>11. ASSUME NEW x \in held' PROVE Secure(x)'
  <2>1. Secure(x) /\ x # ip
    BY <1>3, <1>11 DEF Secured
  <2>2. PICK note \in Notes \cup {None} : Holds("NKOSI_BLACKLIST", Drop(x, note))
    BY <2>1 DEF Secure
  <2>3. Holds("NKOSI_BLACKLIST", Drop(x, note))'
    BY <1>8, <1>9, <2>1, <2>2
  <2> QED BY <1>8, <2>1, <2>3 DEF Secure, Keeps
<1>12. \A x \in barred' : Holds("INPUT", Drop(x, None))'
  BY <1>3, <1>8 DEF Secured, Keeps
<1>13. ASSUME NEW d \in Callers PROVE Protects(d)'
  <2>1. \/ call' = [Spoil({ip}) EXCEPT ![c] = [@ EXCEPT !.n = 2]]
        \/ call' = [Spoil({ip}) EXCEPT ![c] = None]
    BY <1>1 DEF Unblock
  <2>0. 2 \in 1..8
    OBVIOUS
  <2>2. CASE d = c
    <3>1. call'[c] = None \/ (call'[c].op = "unblock" /\ call'[c].at = "run")
      BY <1>3, <2>0, <2>1, SpoilEffect DEF Proceeds
    <3> QED BY <2>2, <3>1 DEF Protects, InSetup
  <2>3. CASE d # c /\ call'[d] # None
    <3>1. /\ call[d] # None /\ call'[d].op = call[d].op /\ call'[d].at = call[d].at
          /\ call'[d].n = call[d].n /\ call'[d].ip = call[d].ip
          /\ call'[d].clean => call'[d] = call[d] /\ call[d].ip # ip
      <4>1. /\ call[d] # None /\ call'[d].op = call[d].op /\ call'[d].at = call[d].at
            /\ call'[d].n = call[d].n /\ call'[d].ip = call[d].ip
            /\ call'[d].note = call[d].note
            /\ call'[d].clean => call'[d] = call[d] /\ call[d].ip \notin {ip}
        BY <1>3, <2>0, <2>1, <2>3, SpoilLeaves
      <4> QED BY <4>1
    <3>2. Protects(d)
      BY DEF Secured
    <3>3. (InSetup(d)' <=> InSetup(d))
      BY <2>3, <3>1 DEF InSetup
    <3>4. (InSetup(d)' /\ call'[d].n >= 3) \/ (call'[d].op = "block" /\ call'[d].at = "run")
            => Holds("INPUT", Fixed("NKOSI_INPUT"))'
      BY <1>8, <3>1, <3>2, <3>3 DEF Protects, Keeps
    <3>5. CASE ~(call'[d].op = "block" /\ call'[d].clean)
      BY <3>4, <3>5 DEF Protects
    <3>6. CASE call'[d].op = "block" /\ call'[d].clean
      <4>1. call'[d] = call[d] /\ call[d].ip # ip
        BY <3>1, <3>6
      <4>2. (InSetup(d)' /\ call'[d].n >= 5) \/ call'[d].at = "run"
              => Holds("NKOSI_INPUT", Fixed("NKOSI_BLACKLIST"))'
        BY <1>8, <3>2, <3>3, <3>1, <3>6, <4>1 DEF Protects, Keeps
      <4>3. PICK q : q = Drop(call[d].ip, call[d].note)
        OBVIOUS
      <4>4. q # r
        BY <1>9, <4>1, <4>3
      <4>5. (call'[d].at = "run" /\ call'[d].n = 2) => Holds("NKOSI_BLACKLIST", q)'
        BY <1>8, <3>1, <3>2, <3>6, <4>1, <4>3, <4>4 DEF Protects
      <4>6. Drop(call'[d].ip, call'[d].note) = q
        BY <4>1, <4>3
      <4> QED BY <3>4, <4>2, <4>5, <4>6 DEF Protects
    <3> QED BY <3>5, <3>6
  <2> QED BY <2>2, <2>3 DEF Protects
<1> QED BY <1>10, <1>11, <1>12, <1>13 DEF Secured

LEMMA FlushSecures == ASSUME Typed, Secured, NEW c \in Callers, Flush(c) PROVE Secured'
<1>1. /\ call[c] # None /\ call[c].op = "flush" /\ call[c].at = "run" /\ call[c].n \in 1..3
      /\ held' = {} /\ UNCHANGED <<exempt, barred>>
  BY DEF Flush, At
<1>2. PICK x \in Own : \A ch \in Chain : ch # x => rules'[ch] = rules[ch]
  <2>1. CASE rules' = rules
    BY <2>1 DEF Own
  <2>2. CASE rules' = [rules EXCEPT ![FlushOrder[call[c].n]] = <<>>]
    <3>1. FlushOrder[call[c].n] \in Own
      <4>1. call[c].n = 1 \/ call[c].n = 2 \/ call[c].n = 3
        BY <1>1
      <4> QED BY <4>1 DEF FlushOrder, Own
    <3> QED BY <2>2, <3>1, ClearEffect DEF OnlyIn, Chain
  <2> QED BY <2>1, <2>2 DEF Flush, Runs
<1>3. rules'[x] = <<>> \/ rules' = rules \/ rules'[x] = rules[x]
  <2>1. rules \in [Chain -> Seq(Rule)] /\ x \in Chain
    BY DEF Typed, TypeOK, Chain
  <2> QED BY <2>1 DEF Flush, Runs
<1>4. GainsDrops(x) /\ x # "INPUT"
  <2>1. rules'[x] = <<>> => GainsDrops(x)
    BY DEF GainsDrops
  <2> QED BY <1>3, <2>1, SameRules DEF Chain, Own
<1>5. /\ \A ch \in Chain : GainsDrops(ch)
      /\ Keeps("INPUT")
  BY <1>2, <1>4, SameRules DEF Chain
<1>6. OnlyDrops'
  BY <1>1, <1>5, DropsStep DEF Secured
<1>7. \A y \in barred' : Holds("INPUT", Drop(y, None))'
  BY <1>1, <1>5 DEF Secured, Keeps
<1>8. ASSUME NEW d \in Callers PROVE Protects(d)'
  <2>1. \/ call' = [Spoil(Ips) EXCEPT ![c] = [@ EXCEPT !.n = call[c].n + 1]]
        \/ call' = [Spoil(Ips) EXCEPT ![c] = None]
    BY DEF Flush
  <2>2. call[c].n + 1 \in 1..8
    BY <1>1
  <2>3. CASE d = c
    <3>1. call'[c] = None \/ (call'[c].op = "flush" /\ call'[c].at = "run")
      BY <1>1, <2>1, <2>2, SpoilEffect DEF Proceeds
    <3> QED BY <2>3, <3>1 DEF Protects, InSetup
  <2>4. CASE d # c /\ call'[d] # None
    <3>1. /\ call[d] # None /\ call'[d].op = call[d].op /\ call'[d].at = call[d].at
          /\ call'[d].n = call[d].n
          /\ call'[d].clean => call[d].ip \notin Ips
      BY <1>1, <2>1, <2>2, <2>4, SpoilLeaves
    <3>2. ~(call'[d].op = "block" /\ call'[d].clean)
      BY <3>1 DEF Typed, Addressed, WithAddress, Op
    <3>3. Protects(d) /\ (InSetup(d)' <=> InSetup(d))
      BY <2>4, <3>1 DEF Secured, InSetup
    <3> QED BY <1>5, <3>1, <3>2, <3>3 DEF Protects, Keeps
  <2> QED BY <2>3, <2>4 DEF Protects
<1> QED BY <1>1, <1>6, <1>7, <1>8 DEF Secured

\* For any callers, addresses and bounds, a block that was reported done holds until
\* someone unblocks its address or flushes the chains, and a block of the SSH scanner
\* for good, however the set-ups, blocks, unblocks, kills and failures of the callers
\* are interleaved; addresses once whitelisted or rate-limited excepted (block_ip,
\* init_chains, flush).
THEOREM BlocksHold == Spec => []BlockHolds
<1>1. Init => Typed /\ Secured
  <2>1. Init => Secured
    <3>1. Init => \A ch \in Chain : DOMAIN rules[ch] = {}
      BY DEF Init
    <3> QED BY <3>1 DEF Init, Secured, OnlyDrops, Protects
  <2> QED BY <2>1, InitTyped
<1>2. Typed /\ Secured /\ [Next]_vars => Typed' /\ Secured'
  <2>1. ASSUME Typed, Secured, Next PROVE Secured'
    BY <2>1, BeginSecures, SetupSecures, KillSecures, BlockInSecures, BlockOutSecures,
       UnblockSecures, FlushSecures, WhitelistSecures, UnwhitelistSecures, RateLimitSecures,
       SshBlockSecures DEF Next
  <2>2. ASSUME Typed, Secured, UNCHANGED vars PROVE Typed' /\ Secured'
    BY <2>2 DEF Typed, TypeOK, Addressed, Secured, OnlyDrops, Protects, Secure, Holds, InSetup, vars
  <2> QED BY <2>1, <2>2, TypedStep
<1>3. Typed /\ Secured => BlockHolds
  BY SecuredDrops
<1> QED BY <1>1, <1>2, <1>3, PTL DEF Spec

---------------------------------------------------------------------------
(* As many bans on the way out as on the way in                            *)

\* How many elements of a sequence are q.
CountOf(s, q) == Cardinality({i \in DOMAIN s : s[i] = q})

LEMMA CountIsNatural ==
  ASSUME NEW S, NEW s \in Seq(S), NEW q
  PROVE  IsFiniteSet({i \in DOMAIN s : s[i] = q}) /\ CountOf(s, q) \in Nat
<1>1. DOMAIN s = 1..Len(s) /\ 1 \in Int /\ Len(s) \in Int
  OBVIOUS
<1>2. IsFiniteSet(DOMAIN s)
  BY <1>1, FS_Interval
<1>3. IsFiniteSet({i \in DOMAIN s : s[i] = q})
  BY <1>2, FS_Subset
<1> QED BY <1>3, FS_CardinalityType DEF CountOf

LEMMA CountAppend ==
  ASSUME NEW S, NEW s \in Seq(S), NEW r \in S, NEW q
  PROVE  CountOf(Append(s, r), q) = CountOf(s, q) + (IF q = r THEN 1 ELSE 0)
<1> DEFINE t == Append(s, r)
           I == {i \in DOMAIN s : s[i] = q}
           J == {i \in DOMAIN t : t[i] = q}
           n == Len(s) + 1
<1>1. /\ DOMAIN s = 1..Len(s) /\ DOMAIN t = 1..n /\ Len(s) \in Nat
      /\ \A i \in 1..n : t[i] = IF i = n THEN r ELSE s[i]
  OBVIOUS
<1>2. IsFiniteSet(I) /\ Cardinality(I) \in Nat
  BY CountIsNatural DEF CountOf
<1>3. n \notin I
  BY <1>1
<1>4. CASE q = r
  <2>1. J = I \cup {n}
    BY <1>1, <1>4
  <2>2. Cardinality(J) = Cardinality(I) + 1
    BY <1>2, <1>3, <2>1, FS_AddElement
  <2> QED BY <1>4, <2>2 DEF CountOf
<1>5. CASE q # r
  <2>1. J = I
    BY <1>1, <1>5
  <2>2. Cardinality(J) = Cardinality(I) + 0
    <3> HIDE DEF I, J
    <3> QED BY <1>2, <2>1
  <2> QED BY <1>5, <2>2 DEF CountOf
<1> QED BY <1>4, <1>5

LEMMA CountLess ==
  ASSUME NEW S, NEW s \in Seq(S), NEW t, NEW e, NEW q, Less(S, s, t, e)
  PROVE  CountOf(t, q) = IF q = e /\ CountOf(s, q) > 0 THEN CountOf(s, q) - 1 ELSE CountOf(s, q)
<1> DEFINE I == {i \in DOMAIN s : s[i] = q}
           J == {i \in DOMAIN t : t[i] = q}
<1>1. DOMAIN s = 1..Len(s) /\ Len(s) \in Nat
  OBVIOUS
<1>2. IsFiniteSet(I) /\ Cardinality(I) \in Nat
  BY CountIsNatural DEF CountOf
<1>3. CASE t = s /\ \A i \in 1..Len(s) : s[i] # e
  <2>1. q = e => I = {}
    BY <1>1, <1>3
  <2>2. q = e => Cardinality(I) = 0
    BY <2>1, FS_EmptySet
  <2> QED BY <1>3, <2>2 DEF CountOf
<1>4. CASE \E k \in 1..Len(s) :
             /\ s[k] = e
             /\ t \in Seq(S) /\ Len(t) = Len(s) - 1
             /\ \A i \in 1..Len(s) - 1 : t[i] = IF i < k THEN s[i] ELSE s[i + 1]
  <2>1. PICK k \in 1..Len(s) :
             /\ s[k] = e
             /\ t \in Seq(S) /\ Len(t) = Len(s) - 1
             /\ \A i \in 1..Len(s) - 1 : t[i] = IF i < k THEN s[i] ELSE s[i + 1]
    BY <1>4
  <2>2. DOMAIN t = 1..Len(s) - 1
    BY <2>1
  <2> DEFINE f == [i \in J |-> IF i < k THEN i ELSE i + 1]
             K == I \ {k}
  <2>3. f \in Bijection(J, K)
    <3>1. ASSUME NEW i \in J PROVE f[i] \in K
      <4>1. i \in 1..Len(s) - 1 /\ t[i] = q
        BY <2>2
      <4>2. CASE i < k
        BY <1>1, <2>1, <4>1, <4>2
      <4>3. CASE ~(i < k)
        <5>1. i + 1 \in 1..Len(s) /\ s[i + 1] = q /\ i + 1 # k
          BY <1>1, <2>1, <4>1, <4>3
        <5> QED BY <1>1, <4>3, <5>1
      <4> QED BY <4>2, <4>3
    <3>2. f \in [J -> K]
      BY <3>1
    <3>3. \A i, j \in J : f[i] = f[j] => i = j
      <4>1. J \subseteq Nat
        BY <2>2
      <4> QED BY <1>1, <4>1
    <3>4. ASSUME NEW m \in K PROVE \E i \in J : f[i] = m
      <4>1. m \in 1..Len(s) /\ s[m] = q /\ m # k
        BY <1>1
      <4>2. CASE m < k
        <5>1. m \in 1..Len(s) - 1 /\ t[m] = q
          BY <1>1, <2>1, <4>1, <4>2
        <5> QED BY <2>2, <4>2, <5>1
      <4>3. CASE m > k
        <5>1. m - 1 \in 1..Len(s) - 1 /\ ~(m - 1 < k) /\ (m - 1) + 1 = m
          BY <1>1, <4>1, <4>3
        <5>2. t[m - 1] = q
          BY <2>1, <4>1, <5>1
        <5> QED BY <2>2, <5>1, <5>2
      <4> QED BY <1>1, <4>1, <4>2, <4>3
    <3> HIDE DEF f, J, K
    <3> QED BY <3>2, <3>3, <3>4 DEF Bijection, Injection, Surjection, IsInjective
  <2>4. IsFiniteSet(K) /\ Cardinality(K) = IF k \in I THEN Cardinality(I) - 1 ELSE Cardinality(I)
    BY <1>2, FS_RemoveElement
  <2>5. IsFiniteSet(J)
    <3>1. IsFiniteSet(1..Len(s) - 1)
      BY <1>1, FS_Interval
    <3> QED BY <2>2, <3>1, FS_Subset
  <2>6. Cardinality(J) = Cardinality(K)
    <3>1. ExistsBijection(J, K)
      BY <2>3 DEF ExistsBijection
    <3> HIDE DEF J, K
    <3> QED BY <2>5, <3>1, FS_Bijection
  <2>7. k \in I <=> q = e
    BY <1>1, <2>1
  <2>8. q = e => Cardinality(I) > 0
    <3>1. q = e => I # {}
      BY <2>7
    <3>2. Cardinality(I) = 0 <=> I = {}
      BY <1>2, FS_EmptySet
    <3> QED BY <1>2, <3>1, <3>2
  <2> QED BY <2>4, <2>6, <2>7, <2>8 DEF CountOf
<1> QED BY <1>3, <1>4 DEF Less

\* The blocks of ip that still have to ban it on the way out, and the unblocks that
\* still have to lift a ban there.
Blocking(ip, note) ==
  {c \in Callers : At(c, "block", 2) /\ call[c].ip = ip /\ call[c].note = note}
Unblocking(ip) == {c \in Callers : At(c, "unblock", 2) /\ call[c].ip = ip}
\* The bans on the way in are those on the way out, with those that blocks owe and
\* without those that unblocks will lift.
Balance(in, out, b, u) == in = IF u = 0 THEN out + b ELSE IF out > u THEN out - u ELSE 0
Lifted(ip, note) == IF note = None THEN Cardinality(Unblocking(ip)) ELSE 0
Level(ip) ==
  /\ Unblocking(ip) = {} \/ \A note \in Notes \cup {None} : Blocking(ip, note) = {}
  /\ \A note \in Notes \cup {None} :
       Balance(Bans("NKOSI_BLACKLIST", ip, note), Bans("OUTPUT", ip, note),
               Cardinality(Blocking(ip, note)), Lifted(ip, note))
Leveled == ~flushed => \A ip \in Ips \ uneven : Level(ip)

LEMMA InProgress ==
  ASSUME NEW ip, NEW note
  PROVE  /\ IsFiniteSet(Blocking(ip, note)) /\ Cardinality(Blocking(ip, note)) \in Nat
         /\ IsFiniteSet(Unblocking(ip)) /\ Cardinality(Unblocking(ip)) \in Nat
         /\ Cardinality(Blocking(ip, note)) = 0 <=> Blocking(ip, note) = {}
         /\ Cardinality(Unblocking(ip)) = 0 <=> Unblocking(ip) = {}
         /\ Lifted(ip, note) \in Nat
<1>1. Blocking(ip, note) \subseteq Callers /\ Unblocking(ip) \subseteq Callers
  BY DEF Blocking, Unblocking
<1>2. IsFiniteSet(Blocking(ip, note)) /\ IsFiniteSet(Unblocking(ip))
  BY <1>1, FirewallAssumption, FS_Subset DEF FirewallAssumption
<1> QED BY <1>2, FS_CardinalityType, FS_EmptySet DEF Lifted

LEMMA BansAreNatural ==
  ASSUME Typed, NEW ch \in Chain, NEW ip, NEW note
  PROVE  Bans(ch, ip, note) = CountOf(rules[ch], Drop(ip, note)) /\ Bans(ch, ip, note) \in Nat
<1>1. rules[ch] \in Seq(Rule)
  BY DEF Typed, TypeOK
<1>2. Bans(ch, ip, note) = CountOf(rules[ch], Drop(ip, note))
  BY DEF Bans, CountOf
<1> QED BY <1>1, <1>2, CountIsNatural

\* Without calls for an address the two chains agree about it.
LEMMA LeveledAgrees ==
  ASSUME Typed, Leveled
  PROVE  InOut
<1>1. SUFFICES ASSUME NEW ip \in Ips \ uneven, ~flushed,
                      \A c \in Callers : call[c] = None \/ call[c].ip # ip,
                      NEW note \in Notes \cup {None}
               PROVE  Bans("NKOSI_BLACKLIST", ip, note) = Bans("OUTPUT", ip, note)
  BY DEF InOut
<1>2. Blocking(ip, note) = {} /\ Unblocking(ip) = {}
  BY <1>1 DEF Blocking, Unblocking, At
<1>3. Cardinality(Blocking(ip, note)) = 0 /\ Lifted(ip, note) = 0
  BY <1>2, FS_EmptySet DEF Lifted
<1>4. Bans("OUTPUT", ip, note) \in Nat
  BY BansAreNatural DEF Chain
<1> QED BY <1>1, <1>3, <1>4 DEF Leveled, Level, Balance

\* A step that leaves the bans of ip and the calls on their second run as they are.
LEMMA LevelStays ==
  ASSUME NEW ip, Level(ip),
         \A ch \in {"NKOSI_BLACKLIST", "OUTPUT"} : \A note \in Notes \cup {None} :
           Bans(ch, ip, note)' = Bans(ch, ip, note),
         \A note \in Notes \cup {None} : Blocking(ip, note)' = Blocking(ip, note),
         Unblocking(ip)' = Unblocking(ip)
  PROVE  Level(ip)'
BY DEF Level, Lifted

\* The second runs of blocks and unblocks of ip.
Second(c, ip) == (At(c, "block", 2) \/ At(c, "unblock", 2)) /\ call[c].ip = ip

LEMMA OthersProgress ==
  ASSUME NEW ip,
         \A d \in Callers :
           \/ call'[d] = call[d]
           \/ ~Second(d, ip) /\ ~Second(d, ip)'
           \/ /\ call[d] # None /\ call'[d] # None /\ call'[d].op = call[d].op
              /\ call'[d].ip = call[d].ip /\ call'[d].note = call[d].note
              /\ call'[d].at = call[d].at /\ call'[d].n = call[d].n
  PROVE  /\ \A note : Blocking(ip, note)' = Blocking(ip, note)
         /\ Unblocking(ip)' = Unblocking(ip)
<1>1. \A d \in Callers : \A note :
        (At(d, "block", 2) /\ call[d].ip = ip /\ call[d].note = note)'
        <=> (At(d, "block", 2) /\ call[d].ip = ip /\ call[d].note = note)
  BY DEF Second, At
<1>2. \A d \in Callers : (At(d, "unblock", 2) /\ call[d].ip = ip)'
                         <=> (At(d, "unblock", 2) /\ call[d].ip = ip)
  BY DEF Second, At
<1> QED BY <1>1, <1>2 DEF Blocking, Unblocking

\* The calls of other addresses, the set-ups and the rules of other chains do not
\* matter to ip.
LEMMA SameBans ==
  ASSUME NEW ch, NEW ip, rules'[ch] = rules[ch]
  PROVE  \A note : Bans(ch, ip, note)' = Bans(ch, ip, note)
BY DEF Bans

\* A step that has nothing to do with the bans of ip.
LEMMA LevelElsewhere ==
  ASSUME Typed, NEW ip, Level(ip), NEW c \in Callers,
         rules'["NKOSI_BLACKLIST"] = rules["NKOSI_BLACKLIST"], rules'["OUTPUT"] = rules["OUTPUT"],
         \A d \in Callers \ {c} : call'[d] = call[d],
         ~Second(c, ip), ~Second(c, ip)'
  PROVE  Level(ip)'
BY LevelStays, OthersProgress, SameBans

LEMMA EndsLevel ==
  ASSUME Typed, NEW ip, Level(ip), NEW c \in Callers, Ends(c),
         rules'["NKOSI_BLACKLIST"] = rules["NKOSI_BLACKLIST"], rules'["OUTPUT"] = rules["OUTPUT"],
         ~Second(c, ip)
  PROVE  Level(ip)'
<1>1. Moves(c) /\ call'[c] = None
  BY EndsMoves
<1>2. ~Second(c, ip)'
  BY <1>1 DEF Second, At
<1> QED BY <1>1, <1>2, LevelElsewhere DEF Moves

LEMMA BeginLevel ==
  ASSUME Typed, NEW ip, Level(ip), NEW c \in Callers, BeginAny(c)
  PROVE  Level(ip)'
<1>1. /\ \A d \in Callers \ {c} : call'[d] = call[d]
      /\ call'[c].n = 1 /\ rules' = rules
  BY BeginEffect
<1>2. call[c] = None
  BY DEF BeginAny, Begin
<1>3. ~Second(c, ip) /\ ~Second(c, ip)'
  BY <1>1, <1>2 DEF Second, At
<1> QED BY <1>1, <1>3, LevelElsewhere

LEMMA SetupLevel ==
  ASSUME Typed, NEW ip, Level(ip), NEW c \in Callers, Check(c) \/ Add(c)
  PROVE  Level(ip)'
<1>1. SetsUp(c) /\ InSetup(c) /\ call[c] # None /\ call[c].n \in 1..8
  BY CheckSetsUp, AddSetsUp, SetupIsTyped DEF SetsUp
<1>2. \A x \in Chain \ Outer : rules'[x] = rules[x]
  <2>1. CASE rules' = rules
    BY <2>1
  <2>2. CASE rules' # rules
    BY <1>1, <2>2, SetupTable DEF SetsUp, ItemThere, ItemMade, Joins, OnlyIn
  <2> QED BY <2>1, <2>2
<1>3. Moves(c) /\ ~(call'[c] # None /\ call'[c].at = "run" /\ call'[c].n = 2)
  <2>1. CASE Goes(c, "add", call[c].n)
    BY <1>1, <2>1, GoesMoves
  <2>2. CASE Ends(c)
    BY <2>2, EndsMoves
  <2>3. CASE Then(c)
    BY <1>1, <2>3, ThenMoves
  <2> QED BY <2>1, <2>2, <2>3 DEF Check, Add
<1>4. ~Second(c, ip) /\ ~Second(c, ip)'
  BY <1>1, <1>3 DEF Second, At, InSetup
<1>5. {"NKOSI_BLACKLIST", "OUTPUT"} \subseteq Chain \ Outer
  BY DEF Chain, Own, Outer
<1> QED BY <1>2, <1>3, <1>4, <1>5, LevelElsewhere DEF Moves

LEMMA KillLevel ==
  ASSUME Typed, NEW ip \in Ips \ uneven', Level(ip), NEW c \in Callers, Kill(c)
  PROVE  Level(ip)'
<1>1. ip # call[c].ip
  BY IpIsNotNone DEF Kill
<1>2. ~Second(c, ip)
  BY <1>1 DEF Second
<1> QED BY <1>2, EndsLevel DEF Kill

LEMMA OtherChainsLevel ==
  ASSUME Typed, NEW ip, Level(ip), NEW c \in Callers,
         Whitelist(c) \/ Unwhitelist(c) \/ RateLimit(c) \/ SshBlock(c)
  PROVE  Level(ip)'
<1>1. ~Second(c, ip) /\ Ends(c)
  BY DEF Second, At, Whitelist, Unwhitelist, RateLimit, SshBlock
<1>2. \A x \in {"NKOSI_BLACKLIST", "OUTPUT"} : rules'[x] = rules[x]
  BY DEF Whitelist, Unwhitelist, RateLimit, SshBlock, Runs, AddFirst, AddLast, Delete, Typed,
         TypeOK, Chain, Own
<1> QED BY <1>1, <1>2, EndsLevel

\* What a run of a block or unblock does to the bans.
LEMMA BanSame ==
  ASSUME Typed, NEW ch \in Chain, NEW r \in Rule, AddLast(ch, r), NEW x \in Chain \ {ch}
  PROVE  \A ip, note : Bans(x, ip, note)' = Bans(x, ip, note)
BY AddLastEffect, SameBans DEF OnlyIn

LEMMA BanMore ==
  ASSUME Typed, NEW ch \in Chain, NEW r \in Rule, AddLast(ch, r), NEW ip, NEW note
  PROVE  Bans(ch, ip, note)' = Bans(ch, ip, note) + (IF Drop(ip, note) = r THEN 1 ELSE 0)
<1>1. rules[ch] \in Seq(Rule)
  BY DEF Typed, TypeOK
<1>2. rules'[ch] = Append(rules[ch], r)
  BY AddLastEffect
<1>3. Bans(ch, ip, note) = CountOf(rules[ch], Drop(ip, note))
      /\ Bans(ch, ip, note)' = CountOf(rules'[ch], Drop(ip, note))
  BY DEF Bans, CountOf
<1> QED BY <1>1, <1>2, <1>3, CountAppend

LEMMA BanLess ==
  ASSUME Typed, NEW ch \in Chain, NEW r, Delete(ch, r), NEW ip, NEW note
  PROVE  /\ Bans(ch, ip, note)' = IF Drop(ip, note) = r /\ Bans(ch, ip, note) > 0
                                  THEN Bans(ch, ip, note) - 1 ELSE Bans(ch, ip, note)
         /\ \A x \in Chain \ {ch} : Bans(x, ip, note)' = Bans(x, ip, note)
<1>1. rules[ch] \in Seq(Rule)
  BY DEF Typed, TypeOK
<1>2. rules'[ch] = RemoveFirst(rules[ch], r) /\ OnlyIn(ch)
  BY DeleteEffect DEF Delete, Typed, TypeOK
<1>3. Bans(ch, ip, note) = CountOf(rules[ch], Drop(ip, note))
      /\ Bans(ch, ip, note)' = CountOf(rules'[ch], Drop(ip, note))
  BY DEF Bans, CountOf
<1>4. \A x \in Chain \ {ch} : Bans(x, ip, note)' = Bans(x, ip, note)
  BY <1>2, SameBans DEF OnlyIn
<1>5. Less(Rule, rules[ch], rules'[ch], r)
  BY <1>1, <1>2, RemoveFirstIs
<1> QED BY <1>1, <1>3, <1>4, <1>5, CountLess

\* A call on another address does not matter to ip.
LEMMA BlockElsewhere ==
  ASSUME Typed, NEW ip, Level(ip), NEW c \in Callers, call[c].ip # ip,
         BlockIn(c) \/ BlockOut(c)
  PROVE  Level(ip)'
<1>1. PICK r : r = Drop(call[c].ip, call[c].note)
  OBVIOUS
<1>2. call[c] # None /\ r \in Rule
  <2>1. At(c, "block", 1) \/ At(c, "block", 2)
    BY DEF BlockIn, BlockOut
  <2> QED BY <1>1, <2>1, AtEffect DEF WithAddress, Op
<1>3. \A note : Drop(ip, note) # r
  BY <1>1 DEF Drop
<1>4. AddLast("NKOSI_BLACKLIST", r) \/ AddLast("OUTPUT", r) \/ rules' = rules
  BY <1>1 DEF BlockIn, BlockOut, Runs
<1>5. \A ch \in {"NKOSI_BLACKLIST", "OUTPUT"} : \A note : Bans(ch, ip, note)' = Bans(ch, ip, note)
  <2>1. SUFFICES ASSUME NEW ch \in {"NKOSI_BLACKLIST", "OUTPUT"}, NEW note
                 PROVE  Bans(ch, ip, note)' = Bans(ch, ip, note)
    OBVIOUS
  <2>2. ch \in Chain /\ Bans(ch, ip, note) \in Nat
    BY BansAreNatural DEF Chain, Own
  <2>3. CASE rules' = rules
    BY <2>3, SameBans
  <2>4. ASSUME NEW x \in {"NKOSI_BLACKLIST", "OUTPUT"}, AddLast(x, r)
        PROVE  Bans(ch, ip, note)' = Bans(ch, ip, note)
    <3>1. x \in Chain
      BY DEF Chain, Own
    <3>2. CASE x = ch
      <4>1. Bans(ch, ip, note)' = Bans(ch, ip, note) + 0
        BY <1>2, <1>3, <2>2, <2>4, <3>2, BanMore
      <4> QED BY <2>2, <4>1
    <3>3. CASE x # ch
      <4>1. ch \in Chain \ {x}
        BY <2>2, <3>3
      <4> QED BY <1>2, <2>4, <3>1, <4>1, BanSame
    <3> QED BY <3>2, <3>3
  <2> QED BY <1>4, <2>3, <2>4
<1>6. Moves(c)
  BY <1>2, GoesMoves, EndsMoves DEF BlockIn, BlockOut
<1>7. ~Second(c, ip) /\ ~Second(c, ip)'
  BY <1>6 DEF Second, Moves, At
<1>8. /\ \A note : Blocking(ip, note)' = Blocking(ip, note)
      /\ Unblocking(ip)' = Unblocking(ip)
  BY <1>6, <1>7, OthersProgress DEF Moves
<1> QED BY <1>5, <1>8, LevelStays

\* No unblock of the address is under way: a block adds a ban on the way in and owes
\* one on the way out, and then pays it.
LEMMA BlockLevel ==
  ASSUME Typed, NEW ip \in Ips \ uneven', Level(ip), NEW c \in Callers, call[c].ip = ip,
         BlockIn(c) \/ BlockOut(c)
  PROVE  Level(ip)'
<1>1. PICK own : own = call[c].note
  OBVIOUS
<1> DEFINE r == Drop(ip, own)
<1>2. /\ call[c] # None /\ r \in Rule /\ own \in Notes \cup {None}
      /\ call[c].op = "block" /\ call[c].at = "run"
  <2>1. At(c, "block", 1) \/ At(c, "block", 2)
    BY DEF BlockIn, BlockOut
  <2> QED BY <1>1, <2>1, AtEffect DEF WithAddress, Op
<1>3. Unblocking(ip) = {}
  <2>1. ~Meets(c, "unblock")
    BY DEF BlockIn, BlockOut, Mixed
  <2>2. ~At(c, "unblock", 2)
    BY <1>2 DEF At
  <2> QED BY <2>1, <2>2 DEF Meets, Unblocking, At
<1>4. \A note \in Notes \cup {None} :
        /\ Bans("NKOSI_BLACKLIST", ip, note) = Bans("OUTPUT", ip, note) + Cardinality(Blocking(ip, note))
        /\ {Bans("NKOSI_BLACKLIST", ip, note), Bans("OUTPUT", ip, note),
            Cardinality(Blocking(ip, note))} \subseteq Nat
        /\ IsFiniteSet(Blocking(ip, note))
  <2>1. Cardinality(Unblocking(ip)) = 0
    BY <1>3, FS_EmptySet
  <2>2. \A note : Lifted(ip, note) = 0
    BY <2>1 DEF Lifted
  <2> QED BY <2>2, InProgress, BansAreNatural DEF Level, Balance, Chain, Own
<1>5. \A note : (Drop(ip, note) = r) <=> (note = own)
  BY DEF Drop
<1>6. Moves(c)
  BY <1>2, GoesMoves, EndsMoves DEF BlockIn, BlockOut
<1>7. Unblocking(ip)' = {}
  BY <1>2, <1>3, <1>6 DEF Unblocking, Moves, At
<1>8. SUFFICES ASSUME NEW note \in Notes \cup {None}
               PROVE  Bans("NKOSI_BLACKLIST", ip, note)'
                        = Bans("OUTPUT", ip, note)' + Cardinality(Blocking(ip, note)')
  <2>1. Cardinality(Unblocking(ip)') = 0
    BY <1>7, FS_EmptySet
  <2>2. \A note : Lifted(ip, note)' = 0
    BY <2>1 DEF Lifted
  <2> QED BY <1>7, <2>2 DEF Level, Balance
<1> HIDE DEF r
<1>9. CASE BlockIn(c) /\ Ends(c) /\ rules' = rules
  <2>1. ~Second(c, ip)
    BY <1>9 DEF BlockIn, Second, At
  <2>2. call'[c] = None
    BY <1>9, EndsMoves
  <2>3. ~Second(c, ip)'
    BY <2>2 DEF Second, At
  <2>4. Blocking(ip, note)' = Blocking(ip, note)
    BY <1>6, <2>1, <2>3, OthersProgress DEF Moves
  <2> QED BY <1>4, <1>9, <2>4, SameBans
<1>10. CASE BlockIn(c) /\ AddLast("NKOSI_BLACKLIST", r) /\ Goes(c, "run", 2)
  <2>1. /\ Bans("NKOSI_BLACKLIST", ip, note)'
             = Bans("NKOSI_BLACKLIST", ip, note) + (IF note = own THEN 1 ELSE 0)
        /\ Bans("OUTPUT", ip, note)' = Bans("OUTPUT", ip, note)
    <3>1. "NKOSI_BLACKLIST" \in Chain /\ "OUTPUT" \in Chain \ {"NKOSI_BLACKLIST"}
      BY DEF Chain, Own
    <3> QED BY <1>2, <1>5, <1>10, <3>1, BanMore, BanSame
  <2>2. call[c].n = 1 /\ call'[c].at = "run" /\ call'[c].n = 2
    BY <1>2, <1>10, GoesMoves DEF BlockIn, At
  <2>3. call'[c] # None
    BY <1>2, <1>10, GoesMoves
  <2>4. Blocking(ip, note)' = IF note = own THEN Blocking(ip, note) \cup {c} ELSE Blocking(ip, note)
    BY <1>1, <1>2, <1>6, <2>2, <2>3 DEF Blocking, Moves, At
  <2>5. c \notin Blocking(ip, note)
    BY <2>2 DEF Blocking, At
  <2>6. Cardinality(Blocking(ip, note)')
          = Cardinality(Blocking(ip, note)) + (IF note = own THEN 1 ELSE 0)
    BY <1>4, <2>4, <2>5, FS_AddElement
  <2> QED BY <1>4, <2>1, <2>6
<1>11. CASE BlockOut(c) /\ AddLast("OUTPUT", r) /\ Ends(c)
  <2>1. /\ Bans("OUTPUT", ip, note)' = Bans("OUTPUT", ip, note) + (IF note = own THEN 1 ELSE 0)
        /\ Bans("NKOSI_BLACKLIST", ip, note)' = Bans("NKOSI_BLACKLIST", ip, note)
    <3>1. "OUTPUT" \in Chain /\ "NKOSI_BLACKLIST" \in Chain \ {"OUTPUT"}
      BY DEF Chain, Own
    <3> QED BY <1>2, <1>5, <1>11, <3>1, BanMore, BanSame
  <2>2. At(c, "block", 2) /\ call'[c] = None
    BY <1>11, EndsMoves DEF BlockOut
  <2>3. Blocking(ip, note)' = IF note = own THEN Blocking(ip, note) \ {c} ELSE Blocking(ip, note)
    BY <1>1, <1>6, <2>2 DEF Blocking, Moves, At
  <2>4. note = own => c \in Blocking(ip, note)
    BY <1>1, <2>2 DEF Blocking
  <2>5. Cardinality(Blocking(ip, note)')
          = IF note = own THEN Cardinality(Blocking(ip, note)) - 1 ELSE Cardinality(Blocking(ip, note))
    <3>1. CASE note = own
      <4>1. IsFiniteSet(Blocking(ip, note)) /\ c \in Blocking(ip, note)
            /\ Blocking(ip, note)' = Blocking(ip, note) \ {c}
        BY <1>4, <2>3, <2>4, <3>1
      <4>2. Cardinality(Blocking(ip, note) \ {c}) = Cardinality(Blocking(ip, note)) - 1
        BY <4>1, FS_RemoveElement
      <4> QED BY <3>1, <4>1, <4>2
    <3>2. CASE note # own
      BY <2>3, <3>2
    <3> QED BY <3>1, <3>2
  <2> QED BY <1>4, <2>1, <2>5
<1>12. BlockOut(c) => AddLast("OUTPUT", r) /\ Ends(c)
  <2>1. faults \in Nat
    BY DEF Typed, TypeOK
  <2>2. BlockOut(c) => faults' = faults
    BY DEF BlockOut
  <2> QED BY <1>1, <2>1, <2>2 DEF BlockOut, Runs, Fault, r
<1> QED BY <1>1, <1>9, <1>10, <1>11, <1>12 DEF BlockIn, r

\* A spoilt call is still the same call at the same run.
LEMMA SpoilKeeps ==
  ASSUME Typed, NEW c \in Callers, call[c] # None, NEW S,
         \/ call' = [Spoil(S) EXCEPT ![c] = [@ EXCEPT !.n = 2]]
         \/ call' = [Spoil(S) EXCEPT ![c] = None]
  PROVE  \A d \in Callers \ {c} :
           \/ call'[d] = call[d]
           \/ /\ call[d] # None /\ call'[d] # None /\ call'[d].op = call[d].op
              /\ call'[d].ip = call[d].ip /\ call'[d].note = call[d].note
              /\ call'[d].at = call[d].at /\ call'[d].n = call[d].n
<1> SUFFICES ASSUME NEW d \in Callers \ {c}, call'[d] # call[d]
             PROVE  /\ call[d] # None /\ call'[d] # None /\ call'[d].op = call[d].op
                    /\ call'[d].ip = call[d].ip /\ call'[d].note = call[d].note
                    /\ call'[d].at = call[d].at /\ call'[d].n = call[d].n
  OBVIOUS
<1>1. call \in [Callers -> Call \cup {None}]
  BY CallIsTyped
<1>2. call'[d] = Spoil(S)[d]
  BY DEF Spoil
<1>3. call[d] # None /\ call'[d] = [call[d] EXCEPT !.clean = FALSE]
  BY <1>2 DEF Spoil
<1>4. call[d] \in Call
  BY <1>1, <1>3
<1>5. [call[d] EXCEPT !.clean = FALSE] \in Call
  BY <1>4 DEF Call
<1> QED BY <1>3, <1>4, <1>5, NoCallAssumption DEF Call, NoCallAssumption

LEMMA UnblockElsewhere ==
  ASSUME Typed, NEW ip, Level(ip), NEW c \in Callers, call[c].ip # ip, Unblock(c)
  PROVE  Level(ip)'
<1>1. PICK r : r = Drop(call[c].ip, None)
  OBVIOUS
<1>2. /\ call[c] # None /\ call[c].n \in 1..2
      /\ \E x \in {"NKOSI_BLACKLIST", "OUTPUT"} : Delete(x, r) \/ rules' = rules
  BY <1>1 DEF Unblock, Runs, At
<1>3. \A note : Drop(ip, note) # r
  BY <1>1 DEF Drop
<1>4. \A ch \in {"NKOSI_BLACKLIST", "OUTPUT"} : \A note : Bans(ch, ip, note)' = Bans(ch, ip, note)
  <2>1. SUFFICES ASSUME NEW ch \in {"NKOSI_BLACKLIST", "OUTPUT"}, NEW note
                 PROVE  Bans(ch, ip, note)' = Bans(ch, ip, note)
    OBVIOUS
  <2>2. CASE rules' = rules
    BY <2>2, SameBans
  <2>3. ASSUME NEW x \in {"NKOSI_BLACKLIST", "OUTPUT"}, Delete(x, r)
        PROVE  Bans(ch, ip, note)' = Bans(ch, ip, note)
    <3>1. x \in Chain /\ ch \in Chain
      BY DEF Chain, Own
    <3> QED BY <1>3, <2>3, <3>1, BanLess
  <2> QED BY <1>2, <2>2, <2>3
<1>5. \/ call' = [Spoil({call[c].ip}) EXCEPT ![c] = [@ EXCEPT !.n = 2]]
      \/ call' = [Spoil({call[c].ip}) EXCEPT ![c] = None]
  BY DEF Unblock
<1>6. ~Second(c, ip) /\ ~Second(c, ip)'
  <2>1. 2 \in 1..8
    OBVIOUS
  <2>2. Proceeds(c)
    BY <1>2, <1>5, <2>1, SpoilEffect
  <2> QED BY <2>2 DEF Proceeds, Second, At
<1>7. /\ \A note : Blocking(ip, note)' = Blocking(ip, note)
      /\ Unblocking(ip)' = Unblocking(ip)
  BY <1>2, <1>5, <1>6, SpoilKeeps, OthersProgress
<1> QED BY <1>4, <1>7, LevelStays

\* No block of the address is under way: an unblock lifts a ban on the way in, if
\* there is one, and will lift one on the way out, and then does.
LEMMA UnblockLevel ==
  ASSUME Typed, NEW ip \in Ips \ uneven', Level(ip), NEW c \in Callers, call[c].ip = ip,
         Unblock(c)
  PROVE  Level(ip)'
<1>1. /\ call[c] # None /\ call[c].op = "unblock" /\ call[c].at = "run" /\ call[c].n \in 1..2
      /\ faults' = faults
  BY DEF Unblock, At
<1> DEFINE r == Drop(ip, None)
<1>2. Delete(IF call[c].n = 1 THEN "NKOSI_BLACKLIST" ELSE "OUTPUT", r)
  <2>1. faults \in Nat
    BY DEF Typed, TypeOK
  <2> QED BY <1>1, <2>1 DEF Unblock, Runs, Fault
<1>3. \A note : Blocking(ip, note) = {}
  <2>1. ~Meets(c, "block") /\ ~At(c, "block", 2)
    BY <1>1 DEF Unblock, Mixed, At
  <2> QED BY <2>1 DEF Meets, Blocking, At
<1>4. call' = [Spoil({ip}) EXCEPT ![c] = IF call[c].n = 1 THEN [@ EXCEPT !.n = 2] ELSE None]
  BY DEF Unblock
<1>5. \A d \in Callers \ {c} :
        \/ call'[d] = call[d]
        \/ /\ call[d] # None /\ call'[d] # None /\ call'[d].op = call[d].op
           /\ call'[d].ip = call[d].ip /\ call'[d].note = call[d].note
           /\ call'[d].at = call[d].at /\ call'[d].n = call[d].n
  BY <1>1, <1>4, SpoilKeeps
<1>6. IF call[c].n = 1
      THEN /\ call'[c] # None /\ call'[c].op = "unblock" /\ call'[c].ip = ip
           /\ call'[c].at = "run" /\ call'[c].n = 2
      ELSE call'[c] = None
  <2>1. call[c] \in Call /\ call \in [Callers -> Call \cup {None}]
    BY <1>1, CallIsTyped
  <2> DEFINE a == [call[c] EXCEPT !.clean = FALSE]
             b == [a EXCEPT !.n = 2]
  <2>2. a \in Call /\ a.op = "unblock" /\ a.ip = ip /\ a.at = "run"
    BY <1>1, <2>1 DEF Call
  <2>3. b \in Call /\ b.op = "unblock" /\ b.ip = ip /\ b.at = "run" /\ b.n = 2
    <3> HIDE DEF a
    <3> QED BY <2>2 DEF Call
  <2>4. Spoil({ip})[c] = a /\ DOMAIN Spoil({ip}) = Callers
    BY <1>1 DEF Spoil
  <2> HIDE DEF a
  <2>5. call'[c] = IF call[c].n = 1 THEN b ELSE None
    BY <1>4, <2>4
  <2> HIDE DEF b
  <2> QED BY <2>3, <2>5, NoCallAssumption DEF NoCallAssumption
<1>7. \A note : Blocking(ip, note)' = {}
  <2>1. \A d \in Callers : \A note : ~(At(d, "block", 2) /\ call[d].ip = ip /\ call[d].note = note)
    BY <1>3 DEF Blocking
  <2>2. \A d \in Callers : \A note : ~(At(d, "block", 2) /\ call[d].ip = ip /\ call[d].note = note)'
    BY <1>1, <1>5, <1>6, <2>1 DEF At
  <2> QED BY <2>2 DEF Blocking
<1>8. /\ call[c].n = 1 => c \notin Unblocking(ip) /\ Unblocking(ip)' = Unblocking(ip) \cup {c}
      /\ call[c].n = 2 => c \in Unblocking(ip) /\ Unblocking(ip)' = Unblocking(ip) \ {c}
  <2>1. \A d \in Callers \ {c} : (d \in Unblocking(ip))' <=> d \in Unblocking(ip)
    BY <1>5 DEF Unblocking, At
  <2>2. /\ call[c].n = 1 => c \notin Unblocking(ip) /\ c \in Unblocking(ip)'
        /\ call[c].n = 2 => c \in Unblocking(ip) /\ c \notin Unblocking(ip)'
    BY <1>1, <1>6 DEF Unblocking, At
  <2>3. Unblocking(ip) \subseteq Callers /\ Unblocking(ip)' \subseteq Callers
    BY DEF Unblocking
  <2> QED BY <2>1, <2>2, <2>3
<1> DEFINE u == Cardinality(Unblocking(ip))
<1>9. /\ u \in Nat
      /\ Cardinality(Unblocking(ip)') = IF call[c].n = 1 THEN u + 1 ELSE u - 1
      /\ call[c].n = 2 => u > 0
  <2>1. IsFiniteSet(Unblocking(ip)) /\ u \in Nat /\ (u = 0 <=> Unblocking(ip) = {})
    BY InProgress
  <2>2. CASE call[c].n = 1
    <3>1. Cardinality(Unblocking(ip) \cup {c}) = u + 1
      BY <1>8, <2>1, <2>2, FS_AddElement
    <3> QED BY <1>8, <2>1, <2>2, <3>1
  <2>3. CASE call[c].n = 2
    <3>1. Cardinality(Unblocking(ip) \ {c}) = u - 1
      BY <1>8, <2>1, <2>3, FS_RemoveElement
    <3> QED BY <1>8, <2>1, <2>3, <3>1
  <2> QED BY <1>1, <2>2, <2>3
<1> HIDE DEF u
<1>10. ASSUME NEW note \in Notes \cup {None}
       PROVE  Balance(Bans("NKOSI_BLACKLIST", ip, note)', Bans("OUTPUT", ip, note)',
                      Cardinality(Blocking(ip, note)'), Lifted(ip, note)')
  <2> DEFINE in == Bans("NKOSI_BLACKLIST", ip, note)
             out == Bans("OUTPUT", ip, note)
             x == Bans("NKOSI_BLACKLIST", ip, note)'
             y == Bans("OUTPUT", ip, note)'
  <2>1. in \in Nat /\ out \in Nat
    BY BansAreNatural DEF Chain, Own
  <2>2. Cardinality(Blocking(ip, note)) = 0 /\ Cardinality(Blocking(ip, note)') = 0
    BY <1>3, <1>7, FS_EmptySet
  <2>3. Balance(in, out, 0, IF note = None THEN u ELSE 0)
    BY <2>2 DEF Level, Lifted, u
  <2>4. Lifted(ip, note)' = IF note = None THEN IF call[c].n = 1 THEN u + 1 ELSE u - 1 ELSE 0
    BY <1>9 DEF Lifted
  <2>5. (Drop(ip, note) = r) <=> (note = None)
    BY DEF Drop
  <2> HIDE DEF r
  <2>6. CASE call[c].n = 1
    <3>1. x = (IF note = None /\ in > 0 THEN in - 1 ELSE in) /\ y = out
      <4>1. Delete("NKOSI_BLACKLIST", r) /\ "NKOSI_BLACKLIST" \in Chain
            /\ "OUTPUT" \in Chain \ {"NKOSI_BLACKLIST"}
        BY <1>2, <2>6 DEF Chain, Own
      <4> QED BY <2>5, <4>1, BanLess
    <3> HIDE DEF in, out, x, y
    <3>2. Balance(x, y, 0, IF note = None THEN u + 1 ELSE 0)
      BY <1>9, <2>1, <2>3, <3>1 DEF Balance
    <3> QED BY <2>2, <2>4, <2>6, <3>2 DEF x, y
  <2>7. CASE call[c].n = 2
    <3>1. y = (IF note = None /\ out > 0 THEN out - 1 ELSE out) /\ x = in
      <4>1. Delete("OUTPUT", r) /\ "OUTPUT" \in Chain
            /\ "NKOSI_BLACKLIST" \in Chain \ {"OUTPUT"}
        BY <1>2, <2>7 DEF Chain, Own
      <4> QED BY <2>5, <4>1, BanLess
    <3> HIDE DEF in, out, x, y
    <3>2. Balance(x, y, 0, IF note = None THEN u - 1 ELSE 0)
      BY <1>9, <2>1, <2>3, <2>7, <3>1 DEF Balance
    <3> QED BY <2>2, <2>4, <2>7, <3>2 DEF x, y
  <2> QED BY <1>1, <2>6, <2>7
<1> QED BY <1>7, <1>10 DEF Level

\* For any callers, addresses and bounds, an address is banned as many times on the
\* way out as on the way in whenever no call is at work on it, unless a statement of
\* its calls was lost, a block met an unblock, or there was a flush (block_ip,
\* unblock_ip).
THEOREM BansGoBothWays == Spec => []InOut
<1>1. Init => Typed /\ Leveled
  <2>1. ASSUME Init, NEW ip \in Ips PROVE Level(ip)
    <3>1. /\ \A note : Blocking(ip, note) = {}
          /\ Unblocking(ip) = {}
      BY <2>1 DEF Init, Blocking, Unblocking, At
    <3>2. \A ch \in {"NKOSI_BLACKLIST", "OUTPUT"} : \A note : Bans(ch, ip, note) = 0
      <4>1. SUFFICES ASSUME NEW ch \in {"NKOSI_BLACKLIST", "OUTPUT"}, NEW note
                     PROVE  Bans(ch, ip, note) = 0
        OBVIOUS
      <4>2. DOMAIN rules[ch] = {}
        BY <2>1 DEF Init, Chain, Own
      <4>3. {i \in DOMAIN rules[ch] : rules[ch][i] = Drop(ip, note)} = {}
        BY <4>2
      <4> QED BY <4>3, FS_EmptySet DEF Bans
    <3>3. \A note : Cardinality(Blocking(ip, note)) = 0 /\ Lifted(ip, note) = 0
      BY <3>1, FS_EmptySet DEF Lifted
    <3> QED BY <3>1, <3>2, <3>3 DEF Level, Balance
  <2> QED BY <2>1, InitTyped DEF Leveled
<1>2. Typed /\ Leveled /\ [Next]_vars => Typed' /\ Leveled'
  <2>1. ASSUME Typed, Leveled, NEW c \in Callers,
               \/ BeginAny(c) \/ Kill(c) \/ Check(c) \/ Add(c)
               \/ BlockIn(c) \/ BlockOut(c) \/ Unblock(c) \/ Flush(c)
               \/ Whitelist(c) \/ Unwhitelist(c) \/ RateLimit(c) \/ SshBlock(c)
        PROVE  Leveled'
    <3>1. SUFFICES ASSUME ~flushed', NEW ip \in Ips \ uneven' PROVE Level(ip)'
      BY DEF Leveled
    <3>2. /\ ~flushed /\ uneven \subseteq uneven' /\ ~Flush(c)
      BY <2>1, <3>1 DEF BeginAny, Begin, Kill, Check, Add, BlockIn, BlockOut, Unblock, Flush,
         Whitelist, Unwhitelist, RateLimit, SshBlock
    <3>3. Level(ip)
      BY <2>1, <3>2 DEF Leveled
    <3> QED BY <2>1, <3>2, <3>3, BeginLevel, KillLevel, SetupLevel, OtherChainsLevel, BlockLevel,
            BlockElsewhere, UnblockLevel, UnblockElsewhere
  <2>2. ASSUME Typed, Leveled, UNCHANGED vars PROVE Typed' /\ Leveled'
    <3>1. Typed'
      BY <2>2 DEF Typed, TypeOK, Addressed, vars
    <3>2. ASSUME NEW ip, Level(ip) PROVE Level(ip)'
      BY <2>2, <3>2, LevelStays, OthersProgress, SameBans DEF vars
    <3>3. Leveled'
      BY <2>2, <3>2 DEF Leveled, vars
    <3> QED BY <3>1, <3>3
  <2> QED BY <2>1, <2>2, TypedStep DEF Next
<1>3. Typed /\ Leveled => InOut
  BY LeveledAgrees
<1> QED BY <1>1, <1>2, <1>3, PTL DEF Spec

=============================================================================
