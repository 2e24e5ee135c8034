----------------------------- MODULE HostScans -----------------------------
(***************************************************************************)
(* Scans of a machine that changes: those the API runs one after the other   *)
(* for a request, and those of the command line, in processes of their own.  *)
(* The integrity scanner reads the files one by one and compares them with a  *)
(* baseline, or makes one; the file that holds it is shared, and its writing  *)
(* is not atomic.                                                           *)
(*                                                                         *)
(* The other scanners (module Scanners) read the machine in one step.        *)
(***************************************************************************)
EXTENDS Scanners

CONSTANTS
  Jobs,          \* who runs scans
  Types,         \* job -> the types of scans it is asked for
  Files, Contents,
  Machines,      \* what the stateless scanners may read, a set of records
  Threshold,     \* threshold of SshBruteforceConfig
  MaxScans, MaxChanges, MaxFaults, \* bounds: scans begun, changes, faults of writing and killed jobs
  Gone,          \* the content of no file
  Absent, Torn   \* no baseline.json; one that cannot be parsed

\* The scanners of a request or command, in their order.
ScannersOf ==
  [quick |-> <<"rootkit", "kernel", "ssh">>,
   full |-> <<"rootkit", "integrity", "kernel", "ssh">>,
   rootkit |-> <<"rootkit">>, integrity |-> <<"integrity">>, kernel |-> <<"kernel">>, ssh |-> <<"ssh">>,
   baseline |-> <<"baseline">>]

ASSUME HostScansAssumption ==
  /\ Types \in [Jobs -> SUBSET DOMAIN ScannersOf]
  /\ {Threshold, MaxScans, MaxChanges, MaxFaults} \subseteq Nat
  /\ Gone \notin Contents /\ Absent # Torn
  /\ {Absent, Torn} \cap [Files -> Contents \cup {Gone}] = {}
  /\ IsFiniteSet(Files)
  /\ \A m \in Machines : IsMachine(m)

VARIABLES
  machine, content,
  changes, scans, faults,
  baseline,      \* baseline.json: what it says of the files, Absent or Torn
  job,
  trusted,       \* history: the baseline the administrator has: the first one, or the last requested
  raced          \* history: since then two scans made one at once, or a writing was cut

scanVars == <<machine, content, changes, scans, faults, baseline, job, trusted, raced>>

State == [Files -> Contents \cup {Gone}]
\* done: how the integrity scanner ended.  expects, excused and always are
\* histories: the trusted baseline it began with, whether raced then, and what
\* was there to be found all the time.
Fresh == [pc |-> "idle", todo |-> <<>>, score |-> 0, count |-> 0, base |-> Absent, left |-> {},
          seen |-> [f \in Files |-> Gone], done |-> "no", differ |-> {}, expects |-> Absent,
          excused |-> FALSE, always |-> {}]

ScanTypeOK ==
  /\ machine \in Machines /\ content \in State
  /\ baseline \in State \cup {Absent, Torn} /\ trusted \in State \cup {Absent}
  /\ raced \in BOOLEAN
  /\ \A j \in Jobs :
       /\ job[j].pc \in {"idle", "next", "hash", "fill", "done", "failed"}
       /\ job[j].score \in 0..100 /\ job[j].count \in Nat
       /\ job[j].base \in State \cup {Absent} /\ job[j].seen \in State
       /\ job[j].left \subseteq Files /\ (job[j].left # {} => job[j].pc = "hash")

ScanInit ==
  /\ machine \in Machines
  /\ content \in State
  /\ changes = 0 /\ scans = 0 /\ faults = 0
  /\ baseline = Absent /\ trusted = Absent /\ raced = FALSE
  /\ job = [j \in Jobs |-> Fresh]

---------------------------------------------------------------------------
(* The machine                                                             *)

\* What a scanner other than the integrity scanner finds in machine m, and its score.
Found(kind, m) ==
  CASE kind = "rootkit" -> RootkitFindings(m)
    [] kind = "kernel" -> KernelFindings(m)
    [] kind = "ssh" -> Attackers(m, Threshold)
    [] OTHER -> {}
ScoreOf(kind, m) ==
  CASE kind = "rootkit" -> RootkitScore(RootkitFindings(m))
    [] kind = "kernel" -> KernelScore(KernelFindings(m))
    [] kind = "ssh" -> SshScore(m, Threshold)
AllFound(kinds, m) == UNION {{k} \X Found(k, m) : k \in kinds}
KindsOf(todo) == {todo[i] : i \in DOMAIN todo}

Change(m) ==
  /\ changes < MaxChanges /\ changes' = changes + 1
  /\ machine' = m
  /\ job' = [j \in Jobs |-> [job[j] EXCEPT !.always = {a \in @ : a[2] \in Found(a[1], m)}]]
  /\ UNCHANGED <<content, scans, faults, baseline, trusted, raced>>

Edit(f, c) ==
  /\ changes < MaxChanges /\ changes' = changes + 1
  /\ content' = [content EXCEPT ![f] = c]
  /\ UNCHANGED <<machine, scans, faults, baseline, job, trusted, raced>>

---------------------------------------------------------------------------
(* A scan                                                                  *)

Become(j, s) == job' = [job EXCEPT ![j] = s]
environment == <<machine, content, changes, scans>>
Ready(j) == job[j].pc = "next" /\ job[j].todo # <<>>
Kind(j) == Head(job[j].todo)

Begin(j, type) ==
  /\ job[j].pc \in {"idle", "done", "failed"}
  /\ scans < MaxScans /\ scans' = scans + 1
  /\ LET kinds == ScannersOf[type]
     IN Become(j, [Fresh EXCEPT !.pc = "next", !.todo = kinds,
                     !.always = AllFound(KindsOf(kinds), machine)])
  /\ UNCHANGED <<machine, content, changes, faults, baseline, trusted, raced>>

\* Mutant of Adds: the last scanner's findings only.
AddsLast(s, score, n) ==
  [s EXCEPT !.pc = "next", !.todo = Tail(@), !.score = IF score > @ THEN score ELSE @, !.count = n]

\* run_scanners: the highest score, and all findings.
Adds(s, score, n) ==
  [s EXCEPT !.pc = "next", !.todo = Tail(@), !.score = IF score > @ THEN score ELSE @, !.count = @ + n]

\* The first error is the answer: what was found before is lost.
Fails(s) == [s EXCEPT !.pc = "failed", !.todo = <<>>, !.left = {}]

ScanMachine(j) ==
  /\ Ready(j) /\ Kind(j) \in {"rootkit", "kernel", "ssh"}
  /\ Become(j, IF Kind(j) = "kernel" /\ ~machine.proc THEN Fails(job[j])
               ELSE Adds(job[j], ScoreOf(Kind(j), machine), Cardinality(Found(Kind(j), machine))))
  /\ UNCHANGED <<environment, faults, baseline, trusted, raced>>

Finish(j) ==
  /\ job[j].pc = "next" /\ job[j].todo = <<>>
  /\ Become(j, [job[j] EXCEPT !.pc = "done"])
  /\ UNCHANGED <<environment, faults, baseline, trusted, raced>>

---------------------------------------------------------------------------
(* IntegrityScanner                                                        *)

Making(j) == job[j].pc \in {"hash", "fill"} /\ job[j].base = Absent
Alone(j) == \A k \in Jobs \ {j} : ~Making(k)

\* load_baseline, where a torn file is no baseline; create_baseline does not ask.
Load(j) ==
  /\ Ready(j) /\ Kind(j) \in {"integrity", "baseline"}
  /\ LET base == IF Kind(j) = "baseline" \/ baseline = Torn THEN Absent ELSE baseline
         alone == base = Absent => Alone(j)
     IN /\ Become(j, [job[j] EXCEPT !.pc = "hash", !.left = Files, !.base = base,
                       !.expects = trusted, !.excused = raced \/ ~alone])
        /\ raced' = (raced \/ ~alone)
  /\ UNCHANGED <<environment, faults, baseline, trusted>>

\* scan_files comes to file f, if it is there.
Hash(j, f) ==
  /\ job[j].pc = "hash" /\ f \in job[j].left
  /\ Become(j, [job[j] EXCEPT !.left = @ \ {f}, !.seen[f] = content[f]])
  /\ UNCHANGED <<environment, faults, baseline, trusted, raced>>

\* compare_with_baseline: modified, deleted, new.
Severity(old, new) == IF new = Gone THEN 25 ELSE IF old = Gone THEN 10 ELSE 40
Differ(s) == {f \in Files : s.base[f] # s.seen[f]}
Compared(j) ==
  LET s == job[j]
      d == Differ(s)
  IN Adds([s EXCEPT !.done = "compared", !.differ = d],
          Capped(MapThenSumSet(LAMBDA f : Severity(s.base[f], s.seen[f]), d)), Cardinality(d))

\* Mutant of Compare: what was reported once becomes the baseline.
CompareAndSave(j) ==
  /\ job[j].pc = "hash" /\ job[j].left = {} /\ job[j].base # Absent
  /\ Become(j, Compared(j))
  /\ baseline' = job[j].seen
  /\ UNCHANGED <<environment, faults, trusted, raced>>

Compare(j) ==
  /\ job[j].pc = "hash" /\ job[j].left = {} /\ job[j].base # Absent
  /\ Become(j, Compared(j))
  /\ UNCHANGED <<environment, faults, baseline, trusted, raced>>

\* fs::write: open with O_TRUNC, ...
Truncate(j) ==
  /\ job[j].pc = "hash" /\ job[j].left = {} /\ job[j].base = Absent
  /\ Become(j, [job[j] EXCEPT !.pc = "fill"])
  /\ baseline' = Torn
  /\ UNCHANGED <<environment, faults, trusted, raced>>

\* ... and write.  Over what another scan wrote meanwhile: a shorter text leaves
\* the end of the other.
Fill(j) ==
  /\ job[j].pc = "fill"
  /\ baseline' \in {job[j].seen} \cup (IF baseline = Torn THEN {} ELSE {Torn})
  /\ LET asked == Kind(j) = "baseline"
         new == baseline' # Torn /\ (asked \/ trusted = Absent)
     IN /\ trusted' = IF new THEN job[j].seen ELSE trusted
        /\ raced' = (baseline' = Torn \/ ~Alone(j) \/ (raced /\ ~new))
        /\ Become(j, [Adds(job[j], 0, 0) EXCEPT !.done = IF asked THEN "asked" ELSE "made"])
  /\ UNCHANGED <<environment, faults>>

\* The disk is full.
FillFails(j) ==
  /\ job[j].pc = "fill"
  /\ faults < MaxFaults /\ faults' = faults + 1
  /\ Become(j, Fails(job[j]))
  /\ raced' = TRUE
  /\ UNCHANGED <<environment, baseline, trusted>>

\* The process of a job is killed.
Killed(j) ==
  /\ job[j].pc \in {"next", "hash", "fill"}
  /\ faults < MaxFaults /\ faults' = faults + 1
  /\ Become(j, Fresh)
  /\ raced' = (raced \/ job[j].pc = "fill")
  /\ UNCHANGED <<environment, baseline, trusted>>

---------------------------------------------------------------------------
Surroundings ==
  \/ \E m \in Machines \ {machine} : Change(m)
  \/ \E f \in Files, c \in Contents \cup {Gone} : content[f] # c /\ Edit(f, c)

Scan(j) ==
  \/ \E type \in Types[j] : Begin(j, type)
  \/ ScanMachine(j) \/ Finish(j)
  \/ Load(j) \/ (\E f \in Files : Hash(j, f)) \/ Compare(j) \/ Truncate(j)
  \/ Fill(j) \/ FillFails(j) \/ Killed(j)

ScanNext == Surroundings \/ \E j \in Jobs : Scan(j)
ScanSpec == ScanInit /\ [][ScanNext]_scanVars

---------------------------------------------------------------------------
\* A scan of integrity says exactly which files are not as the baseline that was
\* made first or asked for last says, however many scans and changes there were,
\* and never takes the files as they are for its baseline when there was one; but
\* one that begins after two scans have made one at once, or a writing was cut,
\* may accept changes unseen (integrity.rs:81, 124).
NothingSlips ==
  \A j \in Jobs :
    (job[j].done \in {"made", "compared"} /\ job[j].expects # Absent /\ ~job[j].excused)
      => /\ job[j].done = "compared"
         /\ job[j].differ = {f \in Files : job[j].seen[f] # job[j].expects[f]}

\* A scan that ends without an error has counted what was there from its
\* beginning to its end, each sign once for each scanner (scan.rs:141).
Counted ==
  \A j \in Jobs : job[j].pc = "done" => job[j].count >= Cardinality(job[j].always)
=============================================================================
