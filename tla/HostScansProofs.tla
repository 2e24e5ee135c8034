-------------------------- MODULE HostScansProofs --------------------------
(***************************************************************************)
(* The baseline of the integrity scanner, for any number of jobs and files.  *)
(***************************************************************************)
EXTENDS HostScans, Collections, TLAPS

Fields == {"pc", "todo", "score", "count", "base", "left", "seen", "done", "differ",
           "expects", "excused", "always"}

\* What is left of a scan that has not come to the integrity scanner, or is in it;
\* and of any other.
AtIntegrity == {<<"integrity", "kernel", "ssh">>, <<"integrity">>, <<"baseline">>}
Pending == AtIntegrity \cup {<<"rootkit", "integrity", "kernel", "ssh">>}
Rest == {<<"rootkit", "kernel", "ssh">>, <<"kernel", "ssh">>, <<"ssh">>, <<>>, <<"rootkit">>, <<"kernel">>}

\* A job s compares with what was trusted when it began, unless excused; it makes
\* a baseline only when asked, or when it has none.
Unasked(s) == s.pc \in {"hash", "fill"} /\ Head(s.todo) # "baseline"
JobTyped(s) ==
  /\ DOMAIN s = Fields
  /\ s.pc \in {"idle", "next", "hash", "fill", "done", "failed"}
  /\ s.base \in State \cup {Absent} /\ s.seen \in State
  /\ s.todo \in Pending \cup Rest
JobFaithful(s) ==
  /\ s.pc \in {"hash", "fill"} => s.todo \in AtIntegrity
  /\ s.todo \in Pending => s.done = "no"
  /\ s.pc = "fill" => s.base = Absent
  /\ (s.pc \in {"hash", "fill"} /\ Head(s.todo) = "baseline") => s.base = Absent
  /\ (Unasked(s) /\ ~s.excused /\ s.expects # Absent) => s.base = s.expects
JobSays(s) ==
  (s.done \in {"made", "compared"} /\ s.expects # Absent /\ ~s.excused)
    => /\ s.done = "compared"
       /\ s.differ = {f \in Files : s.seen[f] # s.expects[f]}
JobOk(s) == JobTyped(s) /\ JobFaithful(s) /\ JobSays(s)

FilesTyped ==
  /\ baseline \in State \cup {Absent, Torn}
  /\ trusted \in State \cup {Absent}
  /\ raced \in BOOLEAN
  /\ content \in State
JobsOk == DOMAIN job = Jobs /\ \A j \in Jobs : JobOk(job[j])
\* Without a race the file says what is trusted, except while it is written, ...
Kept ==
  (~raced /\ trusted # Absent) =>
     baseline = trusted \/ (baseline = Torn /\ \E j \in Jobs : job[j].pc = "fill")
\* ... and nobody makes a second baseline unasked.
First == ~raced => \A j \in Jobs : (Unasked(job[j]) /\ job[j].base = Absent) => trusted = Absent
Slips == FilesTyped /\ JobsOk /\ Kept /\ First

LEMMA AbsentIsNoState == Absent \notin State /\ Torn \notin State /\ Absent # Torn
<1>1. {Absent, Torn} \cap State = {} /\ Absent # Torn
  BY HostScansAssumption DEF State
<1> QED BY <1>1

LEMMA Todos ==
  /\ \A x \in Pending \cup Rest : x # <<>> =>
       /\ Tail(x) \in Pending \cup Rest
       /\ Tail(x) \in Pending => x \in Pending
       /\ Head(x) \in {"integrity", "baseline"} <=> x \in AtIntegrity
       /\ x \in AtIntegrity => Tail(x) \in Rest
  /\ Pending \cap Rest = {}
  /\ \A type \in DOMAIN ScannersOf : ScannersOf[type] \in Pending \cup Rest
<1> DEFINE t1 == <<"integrity", "kernel", "ssh">>
           t2 == <<"kernel", "ssh">>
           t3 == <<"ssh">>
<1>1. /\ Tail(t1) = t2 /\ Head(t1) = "integrity" /\ Tail(t2) = t3 /\ Head(t2) = "kernel"
      /\ Tail(t3) = <<>> /\ Head(t3) = "ssh"
  OBVIOUS
<1>2. /\ Tail(<<"integrity">>) = <<>> /\ Head(<<"integrity">>) = "integrity"
      /\ Tail(<<"baseline">>) = <<>> /\ Head(<<"baseline">>) = "baseline"
      /\ Tail(<<"rootkit">>) = <<>> /\ Head(<<"rootkit">>) = "rootkit"
      /\ Tail(<<"kernel">>) = <<>> /\ Head(<<"kernel">>) = "kernel"
  OBVIOUS
<1>3. /\ Tail(<<"rootkit", "integrity", "kernel", "ssh">>) = t1
      /\ Head(<<"rootkit", "integrity", "kernel", "ssh">>) = "rootkit"
      /\ Tail(<<"rootkit", "kernel", "ssh">>) = t2 /\ Head(<<"rootkit", "kernel", "ssh">>) = "rootkit"
  OBVIOUS
<1>4. Pending \cap Rest = {}
  <2>1. SUFFICES ASSUME NEW x \in Pending, x \in Rest PROVE FALSE
    OBVIOUS
  <2>2. x # <<>>
    BY DEF Pending, AtIntegrity
  <2>3. CASE x \in AtIntegrity
    BY <1>1, <1>2, <1>3, <2>1, <2>2, <2>3 DEF AtIntegrity, Rest
  <2>4. CASE x = <<"rootkit", "integrity", "kernel", "ssh">>
    <3>1. Len(x) = 4 /\ \A y \in Rest : Len(y) <= 3
      BY <2>4 DEF Rest
    <3> QED BY <2>1, <3>1
  <2> QED BY <2>1, <2>3, <2>4 DEF Pending
<1>5. \A type \in DOMAIN ScannersOf : ScannersOf[type] \in Pending \cup Rest
  BY DEF ScannersOf, Pending, Rest, AtIntegrity
<1>6. \A x \in Pending \cup Rest : x # <<>> =>
       /\ Tail(x) \in Pending \cup Rest
       /\ Tail(x) \in Pending => x \in Pending
       /\ Head(x) \in {"integrity", "baseline"} <=> x \in AtIntegrity
       /\ x \in AtIntegrity => Tail(x) \in Rest
  <2>1. ASSUME NEW x \in AtIntegrity
        PROVE  Tail(x) \in Rest /\ Head(x) \in {"integrity", "baseline"} /\ x \in Pending
    BY <1>1, <1>2 DEF AtIntegrity, Rest, Pending
  <2>2. ASSUME NEW x \in Rest, x # <<>>
        PROVE  Tail(x) \in Rest /\ Head(x) \notin {"integrity", "baseline"}
    BY <1>1, <1>2, <1>3, <2>2 DEF Rest
  <2>3. ASSUME NEW x, x = <<"rootkit", "integrity", "kernel", "ssh">>
        PROVE  Tail(x) \in Pending /\ Head(x) \notin {"integrity", "baseline"} /\ x \in Pending
    BY <1>3, <2>3 DEF Pending, AtIntegrity
  <2> QED BY <1>4, <2>1, <2>2, <2>3 DEF Pending
<1> QED BY <1>4, <1>5, <1>6
LEMMA IntegrityTail ==
  \A x \in AtIntegrity : Tail(x) \in Rest /\ Tail(x) \notin Pending
<1>1. \A x \in AtIntegrity : x # <<>> /\ x \in Pending
  BY DEF AtIntegrity, Pending
<1>2. \A x \in AtIntegrity : Tail(x) \in Rest
  BY <1>1, Todos
<1> QED BY <1>2, Todos

---------------------------------------------------------------------------
(* A step of one job                                                       *)

LEMMA BecomeEffect ==
  ASSUME JobsOk, NEW j \in Jobs, NEW s, Become(j, s)
  PROVE  DOMAIN job' = Jobs /\ job'[j] = s /\ \A k \in Jobs \ {j} : job'[k] = job[k]
BY DEF Become, JobsOk

\* A job that goes on, leaves the files alone and does not begin to make a baseline
\* unasked, except in a race.
LEMMA GoesOn ==
  ASSUME Slips, NEW j \in Jobs, NEW s, Become(j, s), JobOk(s),
         UNCHANGED <<baseline, trusted, content>>,
         raced' \in BOOLEAN, raced => raced',
         ~raced' => job[j].pc # "fill",
         (~raced' /\ Unasked(s) /\ s.base = Absent) => trusted = Absent
  PROVE  Slips'
<1>1. DOMAIN job' = Jobs /\ job'[j] = s /\ \A k \in Jobs \ {j} : job'[k] = job[k]
  BY BecomeEffect DEF Slips
<1>2. JobsOk'
  BY <1>1 DEF JobsOk, Slips
<1>3. FilesTyped'
  BY DEF Slips, FilesTyped
<1>4. Kept'
  <2>1. SUFFICES ASSUME ~raced', trusted # Absent, baseline # trusted
                 PROVE  baseline = Torn /\ \E k \in Jobs : job'[k].pc = "fill"
    BY DEF Kept
  <2>2. PICK k \in Jobs : baseline = Torn /\ job[k].pc = "fill"
    BY <2>1 DEF Slips, Kept
  <2>3. k # j
    BY <2>1, <2>2
  <2> QED BY <1>1, <2>2, <2>3
<1>5. First'
  BY <1>1 DEF First, Slips, Unasked
<1> QED BY <1>2, <1>3, <1>4, <1>5 DEF Slips

LEMMA BeginSlips ==
  ASSUME Slips, NEW j \in Jobs, NEW type \in Types[j], Begin(j, type)
  PROVE  Slips'
<1> DEFINE s == [Fresh EXCEPT !.pc = "next", !.todo = ScannersOf[type],
                   !.always = AllFound(KindsOf(ScannersOf[type]), machine)]
<1>1. type \in DOMAIN ScannersOf
  BY HostScansAssumption
<1>2. /\ DOMAIN s = Fields /\ s.pc = "next" /\ s.todo = ScannersOf[type] /\ s.done = "no"
      /\ s.base = Absent /\ s.seen = [f \in Files |-> Gone]
  BY DEF Fresh, Fields
<1>3. Become(j, s)
  BY DEF Begin
<1> HIDE DEF s
<1>4. JobOk(s)
  BY <1>1, <1>2, Todos DEF JobOk, JobTyped, JobFaithful, JobSays, Unasked, State
<1>5. Begin(j, type) => UNCHANGED <<baseline, trusted, raced, content>> /\ job[j].pc # "fill"
  BY DEF Begin
<1> QED BY <1>2, <1>3, <1>4, <1>5, GoesOn DEF Slips, FilesTyped, Unasked

LEMMA LoadSlips ==
  ASSUME Slips, NEW j \in Jobs, Load(j)
  PROVE  Slips'
<1> DEFINE base == IF Kind(j) = "baseline" \/ baseline = Torn THEN Absent ELSE baseline
           alone == base = Absent => Alone(j)
           s == [job[j] EXCEPT !.pc = "hash", !.left = Files, !.base = base,
                               !.expects = trusted, !.excused = raced \/ ~alone]
<1>1. job[j].pc = "next" /\ Kind(j) \in {"integrity", "baseline"} /\ job[j].todo # <<>>
      /\ JobOk(job[j])
  BY DEF Load, Ready, Slips, JobsOk
<1>2. /\ DOMAIN s = Fields /\ s.pc = "hash" /\ s.base = base /\ s.expects = trusted
      /\ s.excused = (raced \/ ~alone) /\ s.todo = job[j].todo /\ s.seen = job[j].seen
      /\ s.done = job[j].done /\ s.differ = job[j].differ
  BY <1>1 DEF JobOk, JobTyped, Fields
<1>3. Become(j, s) /\ UNCHANGED <<baseline, trusted, content>> /\ raced' = (raced \/ ~alone)
  BY DEF Load, environment
<1> HIDE DEF s
<1>4. job[j].todo \in AtIntegrity /\ job[j].done = "no"
  BY <1>1, Todos DEF JobOk, JobTyped, JobFaithful, Pending, Kind
<1>5. base \in State \cup {Absent}
  BY DEF Slips, FilesTyped
\* What is read is what is trusted, or there is a race.
<1>6. (~raced' /\ Kind(j) # "baseline" /\ trusted # Absent) => base = trusted
  <2>1. SUFFICES ASSUME ~raced', Kind(j) # "baseline", trusted # Absent, baseline = Torn
                 PROVE  FALSE
    BY <1>3 DEF Slips, Kept
  <2>2. PICK k \in Jobs : job[k].pc = "fill"
    BY <1>3, <2>1, AbsentIsNoState DEF Slips, Kept, FilesTyped
  <2>3. k # j /\ Making(k)
    BY <1>1, <2>2 DEF Making, Slips, JobsOk, JobOk, JobFaithful
  <2>4. ~Alone(j) /\ base = Absent
    BY <2>1, <2>3 DEF Alone
  <2> QED BY <1>3, <2>1, <2>4
<1>7. JobOk(s)
  <2>1. JobTyped(s)
    BY <1>1, <1>2, <1>5 DEF JobOk, JobTyped
  <2>2. JobFaithful(s)
    BY <1>2, <1>3, <1>4, <1>6 DEF JobFaithful, Unasked, Kind
  <2>3. JobSays(s)
    BY <1>2, <1>4 DEF JobSays
  <2> QED BY <2>1, <2>2, <2>3 DEF JobOk
<1>8. (~raced' /\ Unasked(s) /\ s.base = Absent) => trusted = Absent
  BY <1>2, <1>6 DEF Unasked, Kind
<1>9. raced \in BOOLEAN /\ raced' \in BOOLEAN /\ (raced => raced')
  BY <1>3 DEF Slips, FilesTyped
<1> QED BY <1>1, <1>3, <1>7, <1>8, <1>9, GoesOn

LEMMA AddsEffect ==
  ASSUME NEW s, DOMAIN s = Fields, NEW score, NEW n
  PROVE  LET r == Adds(s, score, n)
         IN /\ DOMAIN r = Fields /\ r.pc = "next" /\ r.todo = Tail(s.todo)
            /\ r.base = s.base /\ r.seen = s.seen /\ r.done = s.done /\ r.differ = s.differ
            /\ r.expects = s.expects /\ r.excused = s.excused
BY DEF Adds, Fields

LEMMA FailsEffect ==
  ASSUME NEW s, JobOk(s)
  PROVE  JobOk(Fails(s)) /\ Fails(s).pc = "failed"
<1> DEFINE r == Fails(s)
<1>1. /\ DOMAIN r = Fields /\ r.pc = "failed" /\ r.todo = <<>>
      /\ r.base = s.base /\ r.seen = s.seen /\ r.done = s.done /\ r.differ = s.differ
      /\ r.expects = s.expects /\ r.excused = s.excused
  BY DEF Fails, JobOk, JobTyped, Fields
<1> HIDE DEF r
<1>2. <<>> \in Rest /\ <<>> \notin Pending
  BY Todos DEF Rest
<1>3. JobOk(r)
  BY <1>1, <1>2 DEF JobOk, JobTyped, JobFaithful, JobSays, Unasked
<1> QED BY <1>1, <1>3 DEF r

LEMMA ScanMachineSlips ==
  ASSUME Slips, NEW j \in Jobs, ScanMachine(j)
  PROVE  Slips'
<1>1. /\ job[j].pc = "next" /\ job[j].todo # <<>> /\ Kind(j) \in {"rootkit", "kernel", "ssh"}
      /\ JobOk(job[j])
      /\ UNCHANGED <<baseline, trusted, raced, content>>
  BY DEF ScanMachine, Ready, environment, Slips, JobsOk
<1>2. raced \in BOOLEAN
  BY DEF Slips, FilesTyped
<1>3. CASE Become(j, Fails(job[j]))
  BY <1>1, <1>2, <1>3, FailsEffect, GoesOn DEF Unasked
<1>4. ASSUME NEW score, NEW n, Become(j, Adds(job[j], score, n))
      PROVE  Slips'
  <2> DEFINE r == Adds(job[j], score, n)
  <2>1. /\ DOMAIN r = Fields /\ r.pc = "next" /\ r.todo = Tail(job[j].todo)
        /\ r.base = job[j].base /\ r.seen = job[j].seen /\ r.done = job[j].done
        /\ r.differ = job[j].differ
        /\ r.expects = job[j].expects /\ r.excused = job[j].excused
    BY <1>1, AddsEffect DEF JobOk, JobTyped
  <2> HIDE DEF r
  <2>2. JobOk(r)
    BY <1>1, <2>1, Todos DEF JobOk, JobTyped, JobFaithful, JobSays, Unasked
  <2>3. Become(j, r)
    BY <1>4 DEF r
  <2> QED BY <1>1, <1>2, <2>1, <2>2, <2>3, GoesOn DEF Unasked
<1> QED BY <1>3, <1>4 DEF ScanMachine

LEMMA FinishSlips ==
  ASSUME Slips, NEW j \in Jobs, Finish(j)
  PROVE  Slips'
<1> DEFINE s == [job[j] EXCEPT !.pc = "done"]
<1>1. Become(j, s) /\ UNCHANGED <<baseline, trusted, raced, content>> /\ job[j].pc = "next"
      /\ JobOk(job[j]) /\ raced \in BOOLEAN
  BY DEF Finish, environment, Slips, JobsOk, FilesTyped
<1>2. /\ DOMAIN s = Fields /\ s.pc = "done" /\ s.todo = job[j].todo
      /\ s.base = job[j].base /\ s.seen = job[j].seen /\ s.done = job[j].done
      /\ s.differ = job[j].differ
      /\ s.expects = job[j].expects /\ s.excused = job[j].excused
  BY <1>1 DEF JobOk, JobTyped, Fields
<1> HIDE DEF s
<1>3. JobOk(s)
  BY <1>1, <1>2 DEF JobOk, JobTyped, JobFaithful, JobSays, Unasked
<1> QED BY <1>1, <1>2, <1>3, GoesOn DEF Unasked

LEMMA HashSlips ==
  ASSUME Slips, NEW j \in Jobs, NEW f \in Files, Hash(j, f)
  PROVE  Slips'
<1> DEFINE s == [job[j] EXCEPT !.left = @ \ {f}, !.seen[f] = content[f]]
<1>1. Become(j, s) /\ UNCHANGED <<baseline, trusted, raced, content>> /\ job[j].pc = "hash"
      /\ JobOk(job[j]) /\ raced \in BOOLEAN /\ content \in State
  BY DEF Hash, environment, Slips, JobsOk, FilesTyped
<1>2. /\ DOMAIN s = Fields /\ s.pc = "hash" /\ s.todo = job[j].todo
      /\ s.base = job[j].base /\ s.seen = [job[j].seen EXCEPT ![f] = content[f]]
      /\ s.done = job[j].done /\ s.differ = job[j].differ
      /\ s.expects = job[j].expects /\ s.excused = job[j].excused
  BY <1>1 DEF JobOk, JobTyped, Fields
<1> HIDE DEF s
<1>3. s.seen \in State
  BY <1>1, <1>2 DEF JobOk, JobTyped, State
<1>4. job[j].done = "no"
  BY <1>1 DEF JobOk, JobFaithful, Pending
<1>5. JobOk(s)
  BY <1>1, <1>2, <1>3, <1>4 DEF JobOk, JobTyped, JobFaithful, JobSays, Unasked
<1>6. (~raced /\ Unasked(s) /\ s.base = Absent) => trusted = Absent
  BY <1>1, <1>2 DEF Slips, First, Unasked
<1> QED BY <1>1, <1>5, <1>6, GoesOn

LEMMA CompareSlips ==
  ASSUME Slips, NEW j \in Jobs, Compare(j)
  PROVE  Slips'
<1> DEFINE d == Differ(job[j])
           s == [job[j] EXCEPT !.done = "compared", !.differ = d]
           score == Capped(MapThenSumSet(LAMBDA f : Severity(job[j].base[f], job[j].seen[f]), d))
           r == Adds(s, score, Cardinality(d))
<1>1. /\ Become(j, r) /\ UNCHANGED <<baseline, trusted, raced, content>>
      /\ job[j].pc = "hash" /\ job[j].base # Absent
      /\ JobOk(job[j]) /\ raced \in BOOLEAN
  BY DEF Compare, Compared, environment, Slips, JobsOk, FilesTyped
<1>2. /\ DOMAIN s = Fields /\ s.todo = job[j].todo
      /\ s.base = job[j].base /\ s.seen = job[j].seen /\ s.done = "compared" /\ s.differ = d
      /\ s.expects = job[j].expects /\ s.excused = job[j].excused
  BY <1>1 DEF JobOk, JobTyped, Fields
<1> HIDE DEF s, d, score
<1>3. /\ DOMAIN r = Fields /\ r.pc = "next" /\ r.todo = Tail(job[j].todo)
      /\ r.base = job[j].base /\ r.seen = job[j].seen /\ r.done = "compared" /\ r.differ = d
      /\ r.expects = job[j].expects /\ r.excused = job[j].excused
  BY <1>2, AddsEffect
<1> HIDE DEF r
<1>4. job[j].todo \in AtIntegrity /\ Unasked(job[j])
  BY <1>1 DEF JobOk, JobFaithful, Unasked
<1>5. r.todo \in Rest /\ r.todo \notin Pending
  BY <1>3, <1>4, IntegrityTail
<1>6. JobSays(r)
  <2>1. SUFFICES ASSUME r.expects # Absent, ~r.excused
                 PROVE  d = {f \in Files : r.seen[f] # r.expects[f]}
    BY <1>3 DEF JobSays
  <2>2. job[j].base = job[j].expects
    BY <1>1, <1>3, <1>4, <2>1 DEF JobOk, JobFaithful
  <2> QED BY <1>3, <2>2 DEF d, Differ
<1>7. JobOk(r)
  BY <1>1, <1>3, <1>5, <1>6 DEF JobOk, JobTyped, JobFaithful, Unasked
<1> QED BY <1>1, <1>3, <1>7, GoesOn DEF Unasked

LEMMA KilledSlips ==
  ASSUME Slips, NEW j \in Jobs, Killed(j)
  PROVE  Slips'
<1>1. /\ Become(j, Fresh) /\ UNCHANGED <<baseline, trusted, content>>
      /\ raced' = (raced \/ job[j].pc = "fill") /\ raced \in BOOLEAN
  BY DEF Killed, environment, Slips, FilesTyped
<1>2. /\ DOMAIN Fresh = Fields /\ Fresh.pc = "idle" /\ Fresh.todo = <<>> /\ Fresh.done = "no"
      /\ Fresh.base = Absent /\ Fresh.seen = [f \in Files |-> Gone]
  BY DEF Fresh, Fields
<1>3. <<>> \in Rest
  BY DEF Rest
<1>4. JobOk(Fresh)
  BY <1>2, <1>3 DEF JobOk, JobTyped, JobFaithful, JobSays, Unasked, State
<1> QED BY <1>1, <1>2, <1>4, GoesOn DEF Unasked

LEMMA FillFailsSlips ==
  ASSUME Slips, NEW j \in Jobs, FillFails(j)
  PROVE  Slips'
<1>1. /\ Become(j, Fails(job[j])) /\ UNCHANGED <<baseline, trusted, content>>
      /\ raced' = TRUE /\ JobOk(job[j])
  BY DEF FillFails, environment, Slips, JobsOk
<1> QED BY <1>1, FailsEffect, GoesOn

---------------------------------------------------------------------------
(* The writing of a baseline                                               *)

LEMMA TruncateSlips ==
  ASSUME Slips, NEW j \in Jobs, Truncate(j)
  PROVE  Slips'
<1> DEFINE s == [job[j] EXCEPT !.pc = "fill"]
<1>1. /\ Become(j, s) /\ UNCHANGED <<trusted, raced, content>> /\ baseline' = Torn
      /\ job[j].pc = "hash" /\ job[j].base = Absent
      /\ JobOk(job[j])
  BY DEF Truncate, environment, Slips, JobsOk
<1>2. /\ DOMAIN s = Fields /\ s.pc = "fill" /\ s.todo = job[j].todo
      /\ s.base = job[j].base /\ s.seen = job[j].seen
      /\ s.done = job[j].done /\ s.differ = job[j].differ
      /\ s.expects = job[j].expects /\ s.excused = job[j].excused
  BY <1>1 DEF JobOk, JobTyped, Fields
<1>3. DOMAIN job' = Jobs /\ job'[j] = s /\ \A k \in Jobs \ {j} : job'[k] = job[k]
  BY <1>1, BecomeEffect DEF Slips
<1> HIDE DEF s
<1>4. JobOk(s)
  BY <1>1, <1>2 DEF JobOk, JobTyped, JobFaithful, JobSays, Unasked
<1>5. JobsOk'
  BY <1>3, <1>4 DEF JobsOk, Slips
<1>6. FilesTyped'
  BY <1>1 DEF FilesTyped, Slips
<1>7. Kept'
  BY <1>1, <1>2, <1>3 DEF Kept
<1>8. First'
  <2>1. \A k \in Jobs : Unasked(job'[k]) => Unasked(job[k])
    BY <1>1, <1>2, <1>3 DEF Unasked
  <2>2. \A k \in Jobs : job'[k].base = job[k].base
    BY <1>2, <1>3
  <2> QED BY <1>1, <2>1, <2>2 DEF First, Slips
<1> QED BY <1>5, <1>6, <1>7, <1>8 DEF Slips

LEMMA FillSlips ==
  ASSUME Slips, NEW j \in Jobs, Fill(j)
  PROVE  Slips'
<1> DEFINE asked == Kind(j) = "baseline"
           new == baseline' # Torn /\ (asked \/ trusted = Absent)
           a == Adds(job[j], 0, 0)
           s == [a EXCEPT !.done = IF asked THEN "asked" ELSE "made"]
<1>1. /\ job[j].pc = "fill" /\ job[j].base = Absent /\ JobOk(job[j])
      /\ baseline' \in {job[j].seen, Torn}
      /\ trusted' = (IF new THEN job[j].seen ELSE trusted)
      /\ raced' = (baseline' = Torn \/ ~Alone(j) \/ (raced /\ ~new))
      /\ Become(j, s) /\ content' = content
  BY DEF Fill, environment, Slips, JobsOk, JobOk, JobFaithful
<1>2. /\ DOMAIN a = Fields /\ a.pc = "next" /\ a.todo = Tail(job[j].todo)
      /\ a.base = job[j].base /\ a.seen = job[j].seen
      /\ a.expects = job[j].expects /\ a.excused = job[j].excused
  BY <1>1, AddsEffect DEF JobOk, JobTyped
<1> HIDE DEF a
<1>3. /\ DOMAIN s = Fields /\ s.pc = "next" /\ s.todo = Tail(job[j].todo)
      /\ s.base = job[j].base /\ s.seen = job[j].seen /\ s.done = (IF asked THEN "asked" ELSE "made")
      /\ s.expects = job[j].expects /\ s.excused = job[j].excused
  BY <1>2 DEF Fields
<1> HIDE DEF s
<1>4. DOMAIN job' = Jobs /\ job'[j] = s /\ \A k \in Jobs \ {j} : job'[k] = job[k]
  BY <1>1, BecomeEffect DEF Slips
<1>5. job[j].todo \in AtIntegrity /\ s.todo \in Rest /\ s.todo \notin Pending
  BY <1>1, <1>3, IntegrityTail DEF JobOk, JobFaithful
\* Whoever has a baseline to compare with makes none unasked.
<1>6. JobSays(s)
  <2>1. SUFFICES ASSUME ~asked, s.expects # Absent, ~s.excused PROVE FALSE
    BY <1>3 DEF JobSays
  <2>2. job[j].base = job[j].expects
    BY <1>1, <1>3, <2>1 DEF JobOk, JobFaithful, Unasked, Kind
  <2> QED BY <1>1, <1>3, <2>1, <2>2
<1>7. JobOk(s)
  BY <1>1, <1>3, <1>5, <1>6 DEF JobOk, JobTyped, JobFaithful, Unasked
<1>8. JobsOk'
  BY <1>4, <1>7 DEF JobsOk, Slips
<1>9. FilesTyped'
  <2>1. job[j].seen \in State
    BY <1>1 DEF JobOk, JobTyped
  <2> QED BY <1>1, <2>1 DEF FilesTyped, Slips
\* Alone, and without a race before, an unasked baseline is the first.
<1>10. ~raced' => /\ baseline' = job[j].seen /\ trusted' = job[j].seen
                  /\ \A k \in Jobs \ {j} : ~Making(k)
  <2>1. SUFFICES ASSUME ~raced'
                 PROVE  baseline' = job[j].seen /\ trusted' = job[j].seen /\ Alone(j)
    BY DEF Alone
  <2>2. baseline' = job[j].seen /\ baseline' # Torn /\ Alone(j) /\ (~raced \/ new)
    BY <1>1, <2>1
  <2>3. new
    <3>1. SUFFICES ASSUME ~raced, ~asked PROVE trusted = Absent
      BY <2>2
    <3>2. Unasked(job[j]) /\ job[j].base = Absent
      BY <1>1, <3>1 DEF Unasked, Kind
    <3> QED BY <3>1, <3>2 DEF Slips, First
  <2> QED BY <1>1, <2>2, <2>3
<1>11. Kept'
  BY <1>10 DEF Kept
<1>12. First'
  <2>1. SUFFICES ASSUME ~raced', NEW k \in Jobs, Unasked(job'[k]), job'[k].base = Absent PROVE FALSE
    BY DEF First
  <2>2. k # j
    BY <1>3, <1>4, <2>1 DEF Unasked
  <2>3. Making(k)
    BY <1>4, <2>1, <2>2 DEF Making, Unasked
  <2> QED BY <1>10, <2>1, <2>2, <2>3
<1> QED BY <1>8, <1>9, <1>11, <1>12 DEF Slips

---------------------------------------------------------------------------
(* The machine, and the theorem                                            *)

LEMMA ChangeSlips ==
  ASSUME Slips, NEW m \in Machines, Change(m)
  PROVE  Slips'
<1>1. /\ DOMAIN job' = Jobs /\ UNCHANGED <<baseline, trusted, raced, content>>
      /\ \A j \in Jobs : job'[j] = [job[j] EXCEPT !.always = {a \in @ : a[2] \in Found(a[1], m)}]
  BY DEF Change
<1>2. ASSUME NEW j \in Jobs
      PROVE  /\ DOMAIN job'[j] = Fields /\ job'[j].pc = job[j].pc /\ job'[j].todo = job[j].todo
             /\ job'[j].base = job[j].base /\ job'[j].seen = job[j].seen
             /\ job'[j].done = job[j].done /\ job'[j].differ = job[j].differ
             /\ job'[j].expects = job[j].expects /\ job'[j].excused = job[j].excused
             /\ JobOk(job[j])
  BY <1>1 DEF Slips, JobsOk, JobOk, JobTyped, Fields
<1>3. JobsOk'
  BY <1>1, <1>2 DEF JobsOk, JobOk, JobTyped, JobFaithful, JobSays, Unasked
<1>4. FilesTyped'
  BY <1>1 DEF FilesTyped, Slips
<1>5. Kept'
  BY <1>1, <1>2 DEF Kept, Slips
<1>6. First'
  BY <1>1, <1>2 DEF First, Slips, Unasked
<1> QED BY <1>3, <1>4, <1>5, <1>6 DEF Slips

LEMMA EditSlips ==
  ASSUME Slips, NEW f \in Files, NEW c \in Contents \cup {Gone}, Edit(f, c)
  PROVE  Slips'
<1>1. UNCHANGED <<baseline, trusted, raced, job>> /\ content' = [content EXCEPT ![f] = c]
  BY DEF Edit
<1>2. content' \in State
  BY <1>1 DEF Slips, FilesTyped, State
<1> QED BY <1>1, <1>2 DEF Slips, FilesTyped, JobsOk, Kept, First

LEMMA InitSlips == ScanInit => Slips
<1> SUFFICES ASSUME ScanInit PROVE Slips
  OBVIOUS
<1>1. /\ DOMAIN Fresh = Fields /\ Fresh.pc = "idle" /\ Fresh.todo = <<>> /\ Fresh.done = "no"
      /\ Fresh.base = Absent /\ Fresh.seen = [f \in Files |-> Gone]
  BY DEF Fresh, Fields
<1>2. JobOk(Fresh)
  BY <1>1 DEF JobOk, JobTyped, JobFaithful, JobSays, Unasked, State, Rest, Pending, AtIntegrity
<1>3. DOMAIN job = Jobs /\ \A j \in Jobs : job[j] = Fresh
  BY DEF ScanInit
<1> QED BY <1>1, <1>2, <1>3 DEF ScanInit, Slips, FilesTyped, JobsOk, Kept, First, Unasked

LEMMA NextSlips == Slips /\ [ScanNext]_scanVars => Slips'
<1>1. ASSUME Slips, ScanNext PROVE Slips'
  <2>1. CASE Surroundings
    BY <1>1, <2>1, ChangeSlips, EditSlips DEF Surroundings
  <2>2. ASSUME NEW j \in Jobs, Scan(j) PROVE Slips'
    BY <1>1, <2>2, BeginSlips, ScanMachineSlips, FinishSlips, LoadSlips, HashSlips, CompareSlips,
       TruncateSlips, FillSlips, FillFailsSlips, KilledSlips DEF Scan
  <2> QED BY <1>1, <2>1, <2>2 DEF ScanNext
<1>2. ASSUME Slips, UNCHANGED scanVars PROVE Slips'
  BY <1>2 DEF Slips, FilesTyped, JobsOk, Kept, First, scanVars
<1> QED BY <1>1, <1>2

\* A scan of integrity that compares says exactly what is not as the trusted baseline
\* says, and none takes the files as they are for its baseline when there was one,
\* unless there had been a race or a cut writing when it began; for any number of jobs,
\* files, scans and faults (IntegrityScanner::scan, create_baseline).
THEOREM ChangesAreSeen == ScanSpec => []NothingSlips
<1>1. Slips /\ [ScanNext]_scanVars => Slips'
  BY NextSlips
<1>2. Slips => NothingSlips
  BY DEF Slips, JobsOk, JobOk, JobSays, NothingSlips
<1> QED BY <1>1, <1>2, InitSlips, PTL DEF ScanSpec

---------------------------------------------------------------------------
(* What there is to be found, and its score                                *)

Severities == {"Critical", "High", "Medium", "Low"}
AreFindings(s) == IsFiniteSet(s) /\ \A x \in s : x.severity \in Severities

LEMMA FindingsOf ==
  ASSUME NEW S, IsFiniteSet(S), NEW what, NEW severity \in Severities,
         NEW Y, \A y \in Y : \E x \in S : y = Finding(what, severity, x)
  PROVE  AreFindings(Y)
<1> DEFINE f == [x \in S |-> Finding(what, severity, x)]
<1>1. \A y \in Y : \E x \in S : y = f[x]
  OBVIOUS
<1>2. IsFiniteSet(Y)
  <2> HIDE DEF f
  <2>1. DOMAIN f = S
    BY DEF f
  <2> QED BY <1>1, <2>1, FiniteImage
<1>3. \A y \in Y : y.severity = severity
  BY DEF Finding
<1> QED BY <1>2, <1>3 DEF AreFindings

LEMMA FindingsUnion ==
  ASSUME NEW A, NEW B, AreFindings(A), AreFindings(B)
  PROVE  AreFindings(A \cup B)
BY FS_Union DEF AreFindings

LEMMA NamesFinite ==
  ASSUME NEW h, IsMachine(h)
  PROVE  IsFiniteSet({m.name : m \in h.modules})
<1> DEFINE Y == {m.name : m \in h.modules}
           f == [m \in h.modules |-> m.name]
<1>1. IsFiniteSet(h.modules)
  BY DEF IsMachine
<1>2. DOMAIN f = h.modules /\ \A y \in Y : \E m \in h.modules : y = f[m]
  OBVIOUS
<1> HIDE DEF Y, f
<1>3. IsFiniteSet(Y)
  BY <1>1, <1>2, FiniteImage
<1> QED BY <1>3 DEF Y

LEMMA CronMarksFinite == IsFiniteSet(CronMarks)
<1> DEFINE a == {"wget", "curl", "nc"}
           b == {"bash -i", "/dev/tcp", "base64", "chmod 777"}
           c == {"ncat", "python -c", "perl -e", "ruby -e", "eval("}
<1>1. IsFiniteSet({}) /\ \A s, x : IsFiniteSet(s) => IsFiniteSet(s \cup {x})
  BY FS_EmptySet, FS_AddElement
<1>2. IsFiniteSet({} \cup {"wget"} \cup {"curl"} \cup {"nc"} \cup {"bash -i"} \cup {"/dev/tcp"}
                   \cup {"base64"} \cup {"chmod 777"} \cup {"ncat"} \cup {"python -c"}
                   \cup {"perl -e"} \cup {"ruby -e"} \cup {"eval("})
  BY <1>1
<1>3. CronMarks = {} \cup {"wget"} \cup {"curl"} \cup {"nc"} \cup {"bash -i"} \cup {"/dev/tcp"}
                   \cup {"base64"} \cup {"chmod 777"} \cup {"ncat"} \cup {"python -c"}
                   \cup {"perl -e"} \cup {"ruby -e"} \cup {"eval("}
  BY DEF CronMarks, InitMarks
<1> QED BY <1>2, <1>3

\* The marks of a file.
LEMMA MarksOfFile ==
  ASSUME NEW file, file.lines \in Seq(SUBSET CronMarks)
  PROVE  IsFiniteSet({file.path} \X (1..Len(file.lines)) \X CronMarks)
<1> DEFINE a == {file.path}
           b == 1..Len(file.lines)
<1>1. IsFiniteSet(a) /\ IsFiniteSet(b)
  <2>1. Len(file.lines) \in Nat
    OBVIOUS
  <2> QED BY <2>1, FS_Singleton, CountFinite
<1> DEFINE F == [p \in (a \X b) \X CronMarks |-> <<p[1][1], p[1][2], p[2]>>]
           Y == a \X b \X CronMarks
<1>3. IsFiniteSet((a \X b) \X CronMarks)
  BY <1>1, CronMarksFinite, FS_Product
<1>4. \A y \in Y : \E p \in (a \X b) \X CronMarks : y = F[p]
  <2>1. SUFFICES ASSUME NEW y \in Y PROVE \E p \in (a \X b) \X CronMarks : y = F[p]
    OBVIOUS
  <2>2. y[1] \in a /\ y[2] \in b /\ y[3] \in CronMarks /\ y = <<y[1], y[2], y[3]>>
    OBVIOUS
  <2> DEFINE p == <<<<y[1], y[2]>>, y[3]>>
  <2>3. p \in (a \X b) \X CronMarks /\ F[p] = <<y[1], y[2], y[3]>>
    BY <2>2
  <2> QED BY <2>2, <2>3
<1>5. DOMAIN F = (a \X b) \X CronMarks
  OBVIOUS
<1> HIDE DEF F, Y, a, b
<1>6. IsFiniteSet(Y)
  BY <1>3, <1>4, <1>5, FiniteImage
<1> QED BY <1>6 DEF Y, a, b

\* Of every line of every file.
LEMMA MarksFound ==
  ASSUME NEW files, IsFiniteSet(files), \A f \in files : f.lines \in Seq(SUBSET CronMarks),
         NEW what, NEW marks \in SUBSET CronMarks
  PROVE  AreFindings(UNION {Marked(what, f, marks) : f \in files})
<1> DEFINE At(f) == {f.path} \X (1..Len(f.lines)) \X CronMarks
           T == UNION {At(f) : f \in files}
           F == [f \in files |-> At(f)]
           Y == UNION {Marked(what, f, marks) : f \in files}
<1>1. \A f \in files : IsFiniteSet(F[f])
  BY MarksOfFile
<1>2. \A y \in T : \E f \in files : y \in F[f]
  OBVIOUS
<1>3. DOMAIN F = files
  OBVIOUS
<1>4. \A y \in Y : \E t \in T : y = Finding(what, "High", t)
  <2>1. SUFFICES ASSUME NEW f \in files, NEW y \in Marked(what, f, marks)
                 PROVE  \E t \in T : y = Finding(what, "High", t)
    OBVIOUS
  <2>5. PICK i \in 1..Len(f.lines) :
           y \in {Finding(what, "High", <<f.path, i, x>>) : x \in f.lines[i] \cap marks}
    BY DEF Marked
  <2>2. PICK x \in f.lines[i] \cap marks : y = Finding(what, "High", <<f.path, i, x>>)
    BY <2>5
  <2>3. <<f.path, i, x>> \in At(f)
    BY <2>2
  <2>4. <<f.path, i, x>> \in T
    <3> HIDE DEF At
    <3> QED BY <2>3
  <2> QED BY <2>2, <2>4
<1> HIDE DEF T, F, Y
<1>5. IsFiniteSet(T)
  BY <1>1, <1>2, <1>3, FiniteFamily
<1>6. "High" \in Severities
  BY DEF Severities
<1>7. AreFindings(Y)
  BY <1>4, <1>5, <1>6, FindingsOf
<1> QED BY <1>7 DEF Y

LEMMA SystemFindings ==
  ASSUME NEW h, IsMachine(h)
  PROVE  AreFindings(CheckSystemBinaries(h)) /\ AreFindings(CheckHiddenFiles(h))
<1>1. IsFiniteSet(h.binaries) /\ IsFiniteSet(h.hidden) /\ IsFiniteSet(h.tmp)
  BY DEF IsMachine
<1>2. "Critical" \in Severities /\ "High" \in Severities /\ "Medium" \in Severities
  BY DEF Severities
<1>3. AreFindings({Finding("writable", "Critical", b) : b \in {b \in h.binaries : b.writable}})
  <2> DEFINE Y == {Finding("writable", "Critical", b) : b \in {b \in h.binaries : b.writable}}
  <2>1. \A y \in Y : \E x \in h.binaries : y = Finding("writable", "Critical", x)
    OBVIOUS
  <2> HIDE DEF Y
  <2>2. AreFindings(Y)
    BY <1>1, <1>2, <2>1, FindingsOf
  <2> QED BY <2>2 DEF Y
<1>4. AreFindings({Finding("preload", "Critical", b) : b \in {b \in h.binaries : b.preload}})
  <2> DEFINE Y == {Finding("preload", "Critical", b) : b \in {b \in h.binaries : b.preload}}
  <2>1. \A y \in Y : \E x \in h.binaries : y = Finding("preload", "Critical", x)
    OBVIOUS
  <2> HIDE DEF Y
  <2>2. AreFindings(Y)
    BY <1>1, <1>2, <2>1, FindingsOf
  <2> QED BY <2>2 DEF Y
<1>5. AreFindings({Finding("hidden", "High", p) : p \in h.hidden})
  <2> DEFINE Y == {Finding("hidden", "High", p) : p \in h.hidden}
  <2>1. \A y \in Y : \E x \in h.hidden : y = Finding("hidden", "High", x)
    OBVIOUS
  <2> HIDE DEF Y
  <2>2. AreFindings(Y)
    BY <1>1, <1>2, <2>1, FindingsOf
  <2> QED BY <2>2 DEF Y
<1>6. AreFindings({Finding("tmp", "Medium", n) : n \in h.tmp})
  <2> DEFINE Y == {Finding("tmp", "Medium", n) : n \in h.tmp}
  <2>1. \A y \in Y : \E x \in h.tmp : y = Finding("tmp", "Medium", x)
    OBVIOUS
  <2> HIDE DEF Y
  <2>2. AreFindings(Y)
    BY <1>1, <1>2, <2>1, FindingsOf
  <2> QED BY <2>2 DEF Y
<1> QED BY <1>3, <1>4, <1>5, <1>6, FindingsUnion DEF CheckSystemBinaries, CheckHiddenFiles

LEMMA ProcFindings ==
  ASSUME NEW h, IsMachine(h)
  PROVE  AreFindings(CheckProcAnomalies(h))
<1> DEFINE S == UNION {{<<m.name, i>> : i \in 1..Suspicious[m.name]} : m \in h.modules}
           F == [m \in h.modules |-> {m.name} \X (1..Suspicious[m.name])]
           A == UNION {{Finding("module", "Critical", <<m.name, i>>) : i \in 1..Suspicious[m.name]}
                         : m \in {m \in h.modules : h.proc}}
           B == IF h.sockets = {} THEN {Finding("connections", "High", "tcp")} ELSE {}
<1>1. "Critical" \in Severities /\ "High" \in Severities
  BY DEF Severities
<1>2. IsFiniteSet(S)
  <2>1. ASSUME NEW m \in h.modules PROVE IsFiniteSet(F[m])
    <3>1. IsFiniteSet({m.name}) /\ IsFiniteSet(1..Suspicious[m.name])
      <4>1. Suspicious[m.name] \in Nat
        BY DEF IsMachine
      <4> QED BY <4>1, FS_Singleton, CountFinite
    <3>2. IsFiniteSet({m.name} \X (1..Suspicious[m.name]))
      BY <3>1, FS_Product
    <3> QED BY <3>2
  <2>2. \A y \in S : \E m \in h.modules : y \in F[m]
    <3>1. SUFFICES ASSUME NEW y \in S PROVE \E m \in h.modules : y \in F[m]
      OBVIOUS
    <3>2. PICK m \in h.modules : y \in {<<m.name, i>> : i \in 1..Suspicious[m.name]}
      OBVIOUS
    <3> DEFINE k == 1..Suspicious[m.name]
    <3>3. PICK i \in k : y = <<m.name, i>>
      BY <3>2
    <3>4. F[m] = {m.name} \X k
      OBVIOUS
    <3> HIDE DEF k, F
    <3>5. y \in F[m]
      BY <3>3, <3>4
    <3> QED BY <3>5
  <2>3. DOMAIN F = h.modules /\ IsFiniteSet(h.modules)
    BY DEF IsMachine
  <2> HIDE DEF S, F
  <2> QED BY <2>1, <2>2, <2>3, FiniteFamily
<1>3. \A y \in A : \E x \in S : y = Finding("module", "Critical", x)
  <2>1. SUFFICES ASSUME NEW m \in h.modules, NEW i \in 1..Suspicious[m.name]
                 PROVE  <<m.name, i>> \in S
    OBVIOUS
  <2> QED OBVIOUS
<1> HIDE DEF S
<1>4. AreFindings(A)
  <2> HIDE DEF A
  <2> QED BY <1>1, <1>2, <1>3, FindingsOf
<1>5. AreFindings(B)
  <2>1. IsFiniteSet({"tcp"})
    BY FS_Singleton
  <2>2. \A y \in B : \E x \in {"tcp"} : y = Finding("connections", "High", x)
    OBVIOUS
  <2> HIDE DEF B
  <2> QED BY <1>1, <2>1, <2>2, FindingsOf
<1>6. CheckProcAnomalies(h) = A \cup B
  BY DEF CheckProcAnomalies
<1> QED BY <1>4, <1>5, <1>6, FindingsUnion

LEMMA ModuleFindings ==
  ASSUME NEW h, IsMachine(h)
  PROVE  AreFindings(CheckKernelModules(h)) /\ AreFindings(KernelFindings(h))
<1> DEFINE N == {m.name : m \in h.modules}
           A == {Finding("unknown", "High", m.name) : m \in {m \in h.modules : m.name \notin Whitelisted}}
           B == {Finding("unreferenced", "Medium", m.name) : m \in {m \in h.modules : m.refs = 0}}
           C == {Finding("rootkit", "Critical", m.name) : m \in {m \in h.modules : m.name \in Rootkits}}
<1>1. "Critical" \in Severities /\ "High" \in Severities /\ "Medium" \in Severities
  BY DEF Severities
<1>2. IsFiniteSet(N)
  BY NamesFinite
<1>3. /\ \A y \in CheckKernelModules(h) : \E x \in N : y = Finding("unreferenced", "Medium", x)
      /\ \A y \in A : \E x \in N : y = Finding("unknown", "High", x)
      /\ \A y \in B : \E x \in N : y = Finding("unreferenced", "Medium", x)
      /\ \A y \in C : \E x \in N : y = Finding("rootkit", "Critical", x)
  BY DEF CheckKernelModules
<1>4. KernelFindings(h) = (A \cup B) \cup C
  BY DEF KernelFindings
<1> HIDE DEF N, A, B, C
<1>5. AreFindings(CheckKernelModules(h)) /\ AreFindings(A) /\ AreFindings(B) /\ AreFindings(C)
  BY <1>1, <1>2, <1>3, FindingsOf
<1> QED BY <1>4, <1>5, FindingsUnion

LEMMA RootkitFinite ==
  ASSUME NEW h, IsMachine(h)
  PROVE  AreFindings(RootkitFindings(h))
<1>1. AreFindings(CheckSuspiciousConnections(h))
  <2>1. IsFiniteSet(h.sockets) /\ "High" \in Severities
    BY DEF IsMachine, Severities
  <2>2. \A y \in CheckSuspiciousConnections(h) : \E x \in h.sockets : y = Finding("port", "High", x)
    BY DEF CheckSuspiciousConnections
  <2> QED BY <2>1, <2>2, FindingsOf
<1>2. AreFindings(CheckCronJobs(h))
  <2> DEFINE fs == {f \in h.cron : f.path = "/etc/crontab"}
  <2>1. IsFiniteSet(fs) /\ \A f \in fs : f.lines \in Seq(SUBSET CronMarks)
    BY FS_Subset DEF IsMachine
  <2>2. CheckCronJobs(h) = UNION {Marked("cron", f, CronMarks) : f \in fs}
    BY DEF CheckCronJobs
  <2> HIDE DEF fs
  <2> QED BY <2>1, <2>2, MarksFound
<1>3. AreFindings(CheckStartupScripts(h))
  <2> DEFINE fs == {f \in h.scripts : f.dir # "/etc/rc.local"}
  <2>1. IsFiniteSet(fs) /\ \A f \in fs : f.lines \in Seq(SUBSET CronMarks)
    BY FS_Subset DEF IsMachine
  <2>2. CheckStartupScripts(h) = UNION {Marked("init", f, InitMarks) : f \in fs}
    BY DEF CheckStartupScripts
  <2>3. InitMarks \in SUBSET CronMarks
    BY DEF CronMarks
  <2> HIDE DEF fs
  <2> QED BY <2>1, <2>2, <2>3, MarksFound
<1> QED BY <1>1, <1>2, <1>3, SystemFindings, ProcFindings, ModuleFindings, FindingsUnion
        DEF RootkitFindings

LEMMA AttemptsFinite ==
  ASSUME NEW h, IsMachine(h)
  PROVE  IsFiniteSet(DOMAIN Attempts(h))
<1>1. CASE h.log = Unreadable
  <2>1. Attempts(h) = <<>>
    BY <1>1 DEF Attempts
  <2>2. DOMAIN Attempts(h) = {}
    BY <2>1
  <2> QED BY <2>2, FS_EmptySet
<1>2. CASE h.log # Unreadable
  BY <1>2, CountFinite DEF Attempts, IsMachine
<1> QED BY <1>1, <1>2

LEMMA FailuresCount ==
  ASSUME NEW h, IsMachine(h), NEW ips
  PROVE  Failures(h, ips) \in Nat
<1> DEFINE s == {i \in DOMAIN Attempts(h) : ~Attempts(h)[i].success /\ Attempts(h)[i].ip \in ips}
<1>1. s \in SUBSET DOMAIN Attempts(h)
  OBVIOUS
<1> HIDE DEF s
<1>2. IsFiniteSet(s)
  BY <1>1, AttemptsFinite, FS_Subset
<1>3. Cardinality(s) \in Nat
  BY <1>2, FS_CardinalityType
<1> QED BY <1>3 DEF Failures, s

LEMMA AttackersFinite ==
  ASSUME NEW h, IsMachine(h), NEW threshold
  PROVE  IsFiniteSet(Attackers(h, threshold))
<1> DEFINE f == [i \in DOMAIN Attempts(h) |-> Attempts(h)[i].ip]
<1>1. \A ip \in Attackers(h, threshold) : \E i \in DOMAIN Attempts(h) : ip = f[i]
  BY DEF Attackers, IpsOf
<1>2. DOMAIN f = DOMAIN Attempts(h)
  OBVIOUS
<1> HIDE DEF f
<1> QED BY <1>1, <1>2, AttemptsFinite, FiniteImage

LEMMA CappedRange == \A n \in Nat : Capped(n) \in 0..100
BY DEF Capped

LEMMA SshScoreRange ==
  ASSUME NEW h, IsMachine(h), NEW threshold
  PROVE  SshScore(h, threshold) \in 0..100
<1> DEFINE failed == Failures(h, IpsOf(h))
           attackers == Cardinality(Attackers(h, threshold))
           penalty == (IF attackers > 50 THEN 50 ELSE attackers) + (failed * 30) \div 100
<1>1. failed \in Nat /\ attackers \in Nat
  BY FailuresCount, AttackersFinite, FS_CardinalityType
<1>2. SshScore(h, threshold) = IF penalty > 100 THEN 0 ELSE 100 - penalty
  BY DEF SshScore
<1> HIDE DEF failed, attackers
<1>3. penalty \in Nat
  BY <1>1
<1> HIDE DEF penalty
<1> QED BY <1>2, <1>3

\* The points of findings add up.
LEMMA TotalNat ==
  ASSUME NEW fs, AreFindings(fs), NEW points \in [Severities -> Nat]
  PROVE  Total(fs, points) \in Nat
<1> DEFINE g == [x \in fs |-> points[x.severity]]
           Step(f) == [s \in SUBSET fs |->
                         IF s = {} THEN 0
                         ELSE points[(CHOOSE x \in s : TRUE).severity] + f[s \ {CHOOSE x \in s : TRUE}]]
           sum == CHOOSE f : f = Step(f)
<1>1. ASSUME NEW f PROVE Sums(f, g, fs) <=> f = Step(f)
  <2>1. \A s \in SUBSET fs : s # {} => g[Picked(s)] = points[(CHOOSE x \in s : TRUE).severity]
    BY PickedIn DEF Picked
  <2>2. [s \in SUBSET fs |-> IF s = {} THEN 0 ELSE g[Picked(s)] + f[s \ {Picked(s)}]] = Step(f)
    BY <2>1 DEF Picked
  <2> QED BY <2>2 DEF Sums
<1>2. Total(fs, points) = sum[fs]
  BY DEF Total, MapThenSumSet, MapThenFoldSet
<1>3. \A x \in fs : g[x] \in Nat
  BY DEF AreFindings
<1> HIDE DEF Step, g
<1>4. IsFiniteSet(fs)
  BY DEF AreFindings
<1>5. PICK f : Sums(f, g, fs)
  BY <1>4, SumExists
<1>6. sum = Step(sum)
  BY <1>1, <1>5
<1> HIDE DEF sum
<1>7. Sums(sum, g, fs)
  BY <1>1, <1>6
<1>8. sum \in [SUBSET fs -> Nat]
  BY <1>3, <1>4, <1>7, SumNat
<1> QED BY <1>2, <1>8

\* What a scanner finds on a machine is finite, and its score is out of 100.
LEMMA FoundAndScored ==
  ASSUME NEW m \in Machines, NEW kind
  PROVE  /\ IsFiniteSet(Found(kind, m))
         /\ kind \in {"rootkit", "kernel", "ssh"} => ScoreOf(kind, m) \in 0..100
<1>1. IsMachine(m)
  BY HostScansAssumption
<1>2. AreFindings(RootkitFindings(m)) /\ AreFindings(KernelFindings(m)) /\ IsFiniteSet(Attackers(m, Threshold))
  BY <1>1, RootkitFinite, ModuleFindings, AttackersFinite
<1>3. IsFiniteSet(Found(kind, m))
  BY <1>2, FS_EmptySet DEF Found, AreFindings
<1>4. RootkitScore(RootkitFindings(m)) \in 0..100
  <2> DEFINE points == [Critical |-> 40, High |-> 25, Medium |-> 10, Low |-> 5]
  <2>1. points \in [Severities -> Nat]
    BY DEF Severities
  <2>2. RootkitScore(RootkitFindings(m)) = Capped(Total(RootkitFindings(m), points))
    BY DEF RootkitScore
  <2> HIDE DEF points
  <2> QED BY <1>2, <2>1, <2>2, TotalNat, CappedRange
<1>5. KernelScore(KernelFindings(m)) \in 0..100
  <2>1. KernelPoints \in [Severities -> Nat]
    BY DEF Severities, KernelPoints
  <2> QED BY <1>2, <2>1, TotalNat, CappedRange DEF KernelScore
<1>6. SshScore(m, Threshold) \in 0..100
  BY <1>1, SshScoreRange
<1>7. kind \in {"rootkit", "kernel", "ssh"} => ScoreOf(kind, m) \in 0..100
  BY <1>4, <1>5, <1>6 DEF ScoreOf
<1> QED BY <1>3, <1>7

---------------------------------------------------------------------------
(* What a scan has counted                                                 *)

Steady == {"rootkit", "kernel", "ssh"}
JobScored(s) ==
  /\ s.score \in 0..100 /\ s.count \in Nat
  /\ s.left \subseteq Files /\ (s.left # {} => s.pc = "hash")

\* Of what was there all the time, whose scanner is past is counted; and a scan
\* that is done has none left.
Past(s) == {a \in s.always : a[1] \notin KindsOf(s.todo)}
JobCounts(s, m) ==
  /\ s.always \subseteq AllFound(Steady, m)
  /\ s.pc # "failed" => s.count >= Cardinality(Past(s))
  /\ s.pc = "done" => s.todo = <<>>

Tallied == machine \in Machines /\ \A j \in Jobs : JobScored(job[j]) /\ JobCounts(job[j], machine)

LEMMA AllFoundFinite ==
  ASSUME NEW m \in Machines
  PROVE  IsFiniteSet(AllFound(Steady, m))
<1> DEFINE F == [k \in Steady |-> {k} \X Found(k, m)]
           Y == AllFound(Steady, m)
<1>1. IsFiniteSet(Steady)
  <2>1. IsFiniteSet({} \cup {"rootkit"} \cup {"kernel"} \cup {"ssh"})
    BY FS_EmptySet, FS_AddElement
  <2>2. Steady = {} \cup {"rootkit"} \cup {"kernel"} \cup {"ssh"}
    BY DEF Steady
  <2> QED BY <2>1, <2>2
<1>2. ASSUME NEW k \in Steady PROVE IsFiniteSet(F[k])
  <2>1. IsFiniteSet({k} \X Found(k, m))
    BY FoundAndScored, FS_Singleton, FS_Product
  <2> QED BY <2>1
<1>3. \A y \in Y : \E k \in Steady : y \in F[k]
  BY DEF AllFound
<1>4. DOMAIN F = Steady
  OBVIOUS
<1> HIDE DEF F, Y
<1>5. IsFiniteSet(Y)
  BY <1>1, <1>2, <1>3, <1>4, FiniteFamily
<1> QED BY <1>5 DEF Y

\* A member of AllFound says who finds it.
LEMMA FoundBy ==
  ASSUME NEW kinds, NEW m, NEW a \in AllFound(kinds, m)
  PROVE  a[1] \in kinds /\ a[2] \in Found(a[1], m) /\ a = <<a[1], a[2]>>
<1>1. PICK k \in kinds : a \in {k} \X Found(k, m)
  BY DEF AllFound
<1> QED BY <1>1

LEMMA FoundIn ==
  ASSUME NEW kinds, NEW m, NEW k \in kinds, NEW x \in Found(k, m)
  PROVE  <<k, x>> \in AllFound(kinds, m)
BY DEF AllFound

LEMMA PastFinite ==
  ASSUME NEW m \in Machines, NEW s, s.always \subseteq AllFound(Steady, m)
  PROVE  /\ IsFiniteSet(s.always)
         /\ \A p \in SUBSET s.always : IsFiniteSet(p) /\ Cardinality(p) \in Nat
<1>1. IsFiniteSet(s.always)
  BY AllFoundFinite, FS_Subset
<1>2. \A p \in SUBSET s.always : IsFiniteSet(p)
  BY <1>1, FS_Subset
<1> QED BY <1>1, <1>2, FS_CardinalityType

Scanning == Steady \cup {"integrity", "baseline"}

LEMMA KindsAhead ==
  ASSUME NEW todo \in Pending \cup Rest, todo # <<>>
  PROVE  KindsOf(todo) = {Head(todo)} \cup KindsOf(Tail(todo))
<1>1. todo \in Seq(Scanning)
  <2>1. \A S : /\ <<>> \in Seq(S)
               /\ \A a \in S : <<a>> \in Seq(S)
               /\ \A a, b \in S : <<a, b>> \in Seq(S)
               /\ \A a, b, c \in S : <<a, b, c>> \in Seq(S)
               /\ \A a, b, c, d \in S : <<a, b, c, d>> \in Seq(S)
    OBVIOUS
  <2>2. /\ "rootkit" \in Scanning /\ "integrity" \in Scanning /\ "kernel" \in Scanning
        /\ "ssh" \in Scanning /\ "baseline" \in Scanning
    BY DEF Scanning, Steady
  <2>3. <<"integrity", "kernel", "ssh">> \in Seq(Scanning) /\ <<"rootkit", "kernel", "ssh">> \in Seq(Scanning)
    BY <2>1, <2>2
  <2>4. <<"rootkit", "integrity", "kernel", "ssh">> \in Seq(Scanning)
    BY <2>1, <2>2
  <2>5. <<"kernel", "ssh">> \in Seq(Scanning) /\ <<>> \in Seq(Scanning)
    BY <2>1, <2>2
  <2>6. \A k \in Scanning : <<k>> \in Seq(Scanning)
    BY <2>1
  <2> QED BY <2>2, <2>3, <2>4, <2>5, <2>6, Zenon DEF Pending, Rest, AtIntegrity
<1>2. /\ DOMAIN todo = 1..Len(todo) /\ Len(todo) \in Nat /\ Len(todo) # 0 /\ Head(todo) = todo[1]
      /\ DOMAIN Tail(todo) = 1..(Len(todo) - 1)
      /\ \A i \in 1..(Len(todo) - 1) : Tail(todo)[i] = todo[i + 1]
  BY <1>1
<1>3. \A i \in 1..Len(todo) : i = 1 \/ (i - 1 \in 1..(Len(todo) - 1) /\ todo[i] = Tail(todo)[i - 1])
  BY <1>2
<1>4. \A i \in 1..(Len(todo) - 1) : i + 1 \in 1..Len(todo)
  BY <1>2
<1>5. 1 \in 1..Len(todo)
  BY <1>2
<1>6. KindsOf(todo) \subseteq {Head(todo)} \cup KindsOf(Tail(todo))
  <2>1. SUFFICES ASSUME NEW i \in 1..Len(todo), i # 1 PROVE todo[i] \in KindsOf(Tail(todo))
    BY <1>2 DEF KindsOf
  <2> QED BY <1>2, <1>3, <2>1 DEF KindsOf
<1>7. {Head(todo)} \cup KindsOf(Tail(todo)) \subseteq KindsOf(todo)
  <2>1. ASSUME NEW i \in 1..(Len(todo) - 1) PROVE Tail(todo)[i] \in KindsOf(todo)
    BY <1>2, <1>4, <2>1 DEF KindsOf
  <2> QED BY <1>2, <1>5, <2>1 DEF KindsOf
<1> QED BY <1>6, <1>7

\* One job's step on an unchanged machine.
LEMMA JobTallies ==
  ASSUME JobsOk, Tallied, NEW j \in Jobs, NEW s, Become(j, s), machine' = machine,
         JobScored(s), JobCounts(s, machine)
  PROVE  Tallied'
<1>1. job'[j] = s /\ \A k \in Jobs \ {j} : job'[k] = job[k]
  BY BecomeEffect
<1>2. ASSUME NEW k \in Jobs PROVE JobScored(job'[k]) /\ JobCounts(job'[k], machine)
  BY <1>1 DEF Tallied
<1> QED BY <1>2 DEF Tallied

LEMMA AddsTally ==
  ASSUME NEW s, DOMAIN s = Fields, NEW score, NEW n
  PROVE  LET r == Adds(s, score, n)
         IN /\ r.pc = "next" /\ r.todo = Tail(s.todo) /\ r.count = s.count + n
            /\ r.score = (IF score > s.score THEN score ELSE s.score)
            /\ r.left = s.left /\ r.always = s.always
BY DEF Adds, Fields

\* A scanner's findings are added when it is past.
LEMMA AddsCounts ==
  ASSUME NEW m \in Machines, NEW s, DOMAIN s = Fields, s.todo \in Pending \cup Rest, s.todo # <<>>,
         JobCounts(s, m), s.count \in Nat, s.score \in 0..100, s.left = {}, s.pc # "failed",
         NEW score \in 0..100, NEW n \in Nat, n >= Cardinality(Found(Head(s.todo), m))
  PROVE  JobScored(Adds(s, score, n)) /\ JobCounts(Adds(s, score, n), m)
<1> DEFINE k == Head(s.todo)
           r == Adds(s, score, n)
           now == {a \in s.always : a[1] = k}
           P == Past(s)
           Q == Past(r)
<1>1. /\ r.pc = "next" /\ r.todo = Tail(s.todo) /\ r.count = s.count + n
      /\ r.score = (IF score > s.score THEN score ELSE s.score)
      /\ r.left = s.left /\ r.always = s.always
  BY AddsTally
<1> HIDE DEF r
<1>2. JobScored(r)
  BY <1>1 DEF JobScored
<1>3. KindsOf(s.todo) = {k} \cup KindsOf(r.todo)
  BY <1>1, KindsAhead
<1>4. s.always \subseteq AllFound(Steady, m) /\ s.count >= Cardinality(P)
  BY DEF JobCounts
<1>5. Q \subseteq P \cup now
  BY <1>1, <1>3 DEF Past
<1>6. IsFiniteSet(P) /\ IsFiniteSet(now) /\ Cardinality(P) \in Nat /\ Cardinality(now) \in Nat
  BY <1>4, PastFinite DEF Past
<1>7. Cardinality(now) <= n
  <2> DEFINE all == {k} \X Found(k, m)
  <2>1. now \in SUBSET all
    <3>1. SUFFICES ASSUME NEW a \in now PROVE a \in all
      OBVIOUS
    <3>2. a \in AllFound(Steady, m) /\ a[1] = k
      BY <1>4, <3>1
    <3> HIDE DEF k
    <3>3. a = <<a[1], a[2]>> /\ a[2] \in Found(k, m)
      BY <3>2, FoundBy
    <3> QED BY <3>2, <3>3
  <2> HIDE DEF k, now
  <2>2. IsFiniteSet(Found(k, m)) /\ IsFiniteSet({k}) /\ Cardinality({k}) = 1
    BY FoundAndScored, FS_Singleton
  <2>3. IsFiniteSet(all) /\ Cardinality(all) = 1 * Cardinality(Found(k, m)) /\ Cardinality(Found(k, m)) \in Nat
    BY <2>2, FS_Product, FS_CardinalityType
  <2> HIDE DEF all
  <2>4. Cardinality(now) <= Cardinality(all)
    BY <2>1, <2>3, FS_Subset
  <2>5. n >= Cardinality(Found(k, m))
    BY DEF k
  <2> QED BY <1>6, <2>3, <2>4, <2>5
<1> HIDE DEF now, P, Q, k
<1>8. Cardinality(Q) <= Cardinality(P) + Cardinality(now) /\ Cardinality(Q) \in Nat
  <2>1. IsFiniteSet(P \cup now) /\ Cardinality(P \cup now) = Cardinality(P) + Cardinality(now) - Cardinality(P \cap now)
    BY <1>6, FS_Union
  <2>2. IsFiniteSet(P \cap now)
    BY <1>6, FS_Intersection
  <2>3. Cardinality(P \cap now) \in Nat
    BY <2>2, FS_CardinalityType
  <2>4. IsFiniteSet(Q) /\ Cardinality(Q) <= Cardinality(P \cup now)
    BY <1>5, <2>1, FS_Subset
  <2>5. Cardinality(Q) \in Nat
    BY <2>4, FS_CardinalityType
  <2> QED BY <1>6, <2>1, <2>3, <2>4, <2>5
<1>9. r.count >= Cardinality(Q)
  BY <1>1, <1>4, <1>6, <1>7, <1>8
<1>10. JobCounts(r, m)
  BY <1>1, <1>4, <1>9 DEF JobCounts, Q
<1> QED BY <1>2, <1>10 DEF r

LEMMA FailsTally ==
  ASSUME NEW m, NEW s, DOMAIN s = Fields, JobScored(s), JobCounts(s, m)
  PROVE  JobScored(Fails(s)) /\ JobCounts(Fails(s), m)
<1> DEFINE r == Fails(s)
<1>1. /\ r.pc = "failed" /\ r.todo = <<>> /\ r.left = {}
      /\ r.score = s.score /\ r.count = s.count /\ r.always = s.always
  BY DEF Fails, Fields
<1> HIDE DEF r
<1>2. JobScored(r) /\ JobCounts(r, m)
  BY <1>1 DEF JobScored, JobCounts
<1> QED BY <1>2 DEF r

LEMMA NothingPast ==
  ASSUME NEW s, Past(s) = {}
  PROVE  Cardinality(Past(s)) = 0
BY FS_EmptySet

LEMMA FreshTally ==
  ASSUME NEW m
  PROVE  JobScored(Fresh) /\ JobCounts(Fresh, m)
<1>1. /\ Fresh.pc = "idle" /\ Fresh.todo = <<>> /\ Fresh.score = 0 /\ Fresh.count = 0
      /\ Fresh.left = {} /\ Fresh.always = {}
  BY DEF Fresh
<1>2. Cardinality(Past(Fresh)) = 0
  BY <1>1, NothingPast DEF Past
<1> QED BY <1>1, <1>2 DEF JobScored, JobCounts

LEMMA BeginTallied ==
  ASSUME Slips, Tallied, NEW j \in Jobs, NEW type \in Types[j], Begin(j, type)
  PROVE  Tallied'
<1> DEFINE kinds == ScannersOf[type]
           s == [Fresh EXCEPT !.pc = "next", !.todo = kinds,
                   !.always = AllFound(KindsOf(kinds), machine)]
<1>1. Become(j, s) /\ machine' = machine /\ machine \in Machines
  BY DEF Begin, Tallied
<1>2. /\ s.pc = "next" /\ s.todo = kinds /\ s.score = 0 /\ s.count = 0 /\ s.left = {}
      /\ s.always = AllFound(KindsOf(kinds), machine)
  BY DEF Fresh
<1> HIDE DEF s, kinds
<1>3. s.always \subseteq AllFound(Steady, machine)
  <2>1. SUFFICES ASSUME NEW a \in s.always PROVE a \in AllFound(Steady, machine)
    OBVIOUS
  <2>2. a = <<a[1], a[2]>> /\ a[2] \in Found(a[1], machine)
    BY <1>2, <2>1, FoundBy
  <2>3. a[1] \in Steady
    BY <2>2 DEF Found, Steady
  <2> QED BY <2>2, <2>3, FoundIn
<1>4. Past(s) = {}
  BY <1>2, FoundBy DEF Past
<1>5. JobScored(s) /\ JobCounts(s, machine)
  BY <1>2, <1>3, <1>4, NothingPast DEF JobScored, JobCounts
<1> QED BY <1>1, <1>5, JobTallies DEF Slips

LEMMA ScanMachineTallied ==
  ASSUME Slips, Tallied, NEW j \in Jobs, ScanMachine(j)
  PROVE  Tallied'
<1> DEFINE s == job[j]
           score == ScoreOf(Kind(j), machine)
           n == Cardinality(Found(Kind(j), machine))
<1>1. /\ s.pc = "next" /\ s.todo # <<>> /\ Kind(j) \in {"rootkit", "kernel", "ssh"}
      /\ machine' = machine /\ machine \in Machines
      /\ DOMAIN s = Fields /\ s.todo \in Pending \cup Rest
      /\ JobScored(s) /\ JobCounts(s, machine)
  BY DEF ScanMachine, Ready, environment, Slips, JobsOk, JobOk, JobTyped, Tallied
<1>2. CASE Become(j, Fails(s))
  BY <1>1, <1>2, FailsTally, JobTallies DEF Slips
<1>3. CASE Become(j, Adds(s, score, n))
  <2>1. score \in 0..100 /\ IsFiniteSet(Found(Kind(j), machine))
    BY <1>1, FoundAndScored
  <2>2. n \in Nat
    BY <2>1, FS_CardinalityType
  <2>3. n >= Cardinality(Found(Head(s.todo), machine))
    BY <2>2 DEF Kind
  <2>4. s.left = {} /\ s.count \in Nat /\ s.score \in 0..100 /\ s.pc # "failed"
    BY <1>1 DEF JobScored
  <2> HIDE DEF s, score, n
  <2>5. JobScored(Adds(s, score, n)) /\ JobCounts(Adds(s, score, n), machine)
    BY <1>1, <2>1, <2>2, <2>3, <2>4, AddsCounts
  <2> QED BY <1>1, <1>3, <2>5, JobTallies DEF Slips
<1> QED BY <1>2, <1>3 DEF ScanMachine

LEMMA FinishTallied ==
  ASSUME Slips, Tallied, NEW j \in Jobs, Finish(j)
  PROVE  Tallied'
<1> DEFINE s == [job[j] EXCEPT !.pc = "done"]
<1>1. /\ Become(j, s) /\ machine' = machine /\ job[j].pc = "next" /\ job[j].todo = <<>>
      /\ DOMAIN job[j] = Fields /\ JobScored(job[j]) /\ JobCounts(job[j], machine)
  BY DEF Finish, environment, Slips, JobsOk, JobOk, JobTyped, Tallied
<1>2. /\ s.pc = "done" /\ s.todo = job[j].todo /\ s.score = job[j].score /\ s.count = job[j].count
      /\ s.left = job[j].left /\ s.always = job[j].always
  BY <1>1 DEF Fields
<1> HIDE DEF s
<1>3. Past(s) = Past(job[j])
  BY <1>2 DEF Past
<1>4. JobScored(s) /\ JobCounts(s, machine)
  BY <1>1, <1>2, <1>3 DEF JobScored, JobCounts
<1> QED BY <1>1, <1>4, JobTallies DEF Slips

\* The steps of the integrity scanner that count nothing.
LEMMA QuietTallied ==
  ASSUME Slips, Tallied, NEW j \in Jobs, NEW s, Become(j, s), machine' = machine,
         s.score = job[j].score, s.count = job[j].count, s.always = job[j].always,
         s.todo = job[j].todo, job[j].pc # "failed",
         s.pc \notin {"done", "failed"}, s.left \subseteq Files, s.left # {} => s.pc = "hash"
  PROVE  Tallied'
<1>1. JobScored(job[j]) /\ JobCounts(job[j], machine)
  BY DEF Tallied
<1>2. Past(s) = Past(job[j])
  BY DEF Past
<1>3. JobScored(s) /\ JobCounts(s, machine)
  BY <1>1, <1>2 DEF JobScored, JobCounts
<1> QED BY <1>3, JobTallies DEF Slips

LEMMA LoadTallied ==
  ASSUME Slips, Tallied, NEW j \in Jobs, Load(j)
  PROVE  Tallied'
<1>1. PICK base, excused :
        Become(j, [job[j] EXCEPT !.pc = "hash", !.left = Files, !.base = base,
                                 !.expects = trusted, !.excused = excused])
  BY DEF Load
<1> DEFINE s == [job[j] EXCEPT !.pc = "hash", !.left = Files, !.base = base,
                               !.expects = trusted, !.excused = excused]
<1>2. machine' = machine /\ job[j].pc = "next" /\ DOMAIN job[j] = Fields
  BY DEF Load, Ready, environment, Slips, JobsOk, JobOk, JobTyped
<1>3. /\ s.pc = "hash" /\ s.todo = job[j].todo /\ s.score = job[j].score /\ s.count = job[j].count
      /\ s.left = Files /\ s.always = job[j].always
  BY <1>2 DEF Fields
<1>4. Become(j, s)
  BY <1>1
<1> HIDE DEF s
<1> QED BY <1>2, <1>3, <1>4, QuietTallied

LEMMA HashTallied ==
  ASSUME Slips, Tallied, NEW j \in Jobs, NEW f \in Files, Hash(j, f)
  PROVE  Tallied'
<1> DEFINE s == [job[j] EXCEPT !.left = @ \ {f}, !.seen[f] = content[f]]
<1>1. /\ Become(j, s) /\ machine' = machine /\ job[j].pc = "hash"
      /\ DOMAIN job[j] = Fields /\ job[j].left \subseteq Files
  BY DEF Hash, environment, Slips, JobsOk, JobOk, JobTyped, Tallied, JobScored
<1>2. /\ s.pc = "hash" /\ s.todo = job[j].todo /\ s.score = job[j].score /\ s.count = job[j].count
      /\ s.left = job[j].left \ {f} /\ s.always = job[j].always
  BY <1>1 DEF Fields
<1> HIDE DEF s
<1> QED BY <1>1, <1>2, QuietTallied

LEMMA TruncateTallied ==
  ASSUME Slips, Tallied, NEW j \in Jobs, Truncate(j)
  PROVE  Tallied'
<1> DEFINE s == [job[j] EXCEPT !.pc = "fill"]
<1>1. /\ Become(j, s) /\ machine' = machine /\ job[j].pc = "hash"
      /\ DOMAIN job[j] = Fields /\ job[j].left = {}
  BY DEF Truncate, environment, Slips, JobsOk, JobOk, JobTyped
<1>2. /\ s.pc = "fill" /\ s.todo = job[j].todo /\ s.score = job[j].score /\ s.count = job[j].count
      /\ s.left = {} /\ s.always = job[j].always
  BY <1>1 DEF Fields
<1> HIDE DEF s
<1> QED BY <1>1, <1>2, QuietTallied

\* The integrity scanner finds nothing of what the others look for.
LEMMA NobodyFinds ==
  ASSUME NEW m, NEW todo \in AtIntegrity
  PROVE  Found(Head(todo), m) = {} /\ todo \in Pending \cup Rest /\ todo # <<>>
<1>1. Head(todo) \in {"integrity", "baseline"} /\ todo \in Pending /\ todo # <<>>
  <2>1. todo # <<>> /\ todo \in Pending
    BY DEF AtIntegrity, Pending
  <2> QED BY <2>1, Todos
<1> QED BY <1>1 DEF Found

LEMMA CompareTallied ==
  ASSUME Slips, Tallied, NEW j \in Jobs, Compare(j)
  PROVE  Tallied'
<1> DEFINE d == Differ(job[j])
           s == [job[j] EXCEPT !.done = "compared", !.differ = d]
           sum == MapThenSumSet(LAMBDA f : Severity(job[j].base[f], job[j].seen[f]), d)
           score == Capped(sum)
           n == Cardinality(d)
<1>1. /\ Become(j, Adds(s, score, n)) /\ machine' = machine /\ machine \in Machines
      /\ job[j].pc = "hash" /\ job[j].left = {}
      /\ DOMAIN job[j] = Fields /\ job[j].todo \in AtIntegrity
      /\ JobScored(job[j]) /\ JobCounts(job[j], machine)
  BY DEF Compare, Compared, environment, Slips, JobsOk, JobOk, JobTyped, JobFaithful, Tallied
<1>2. /\ DOMAIN s = Fields /\ s.pc = "hash" /\ s.todo = job[j].todo /\ s.left = {}
      /\ s.score = job[j].score /\ s.count = job[j].count /\ s.always = job[j].always
  BY <1>1 DEF Fields
<1>3. d \in SUBSET Files
  BY DEF Differ
<1>4. score \in 0..100
  <2>1. sum \in Nat
    <3> DEFINE points(x) == Severity(job[j].base[x], job[j].seen[x])
               g == [x \in d |-> points(x)]
               Step(f) == [t \in SUBSET d |->
                             IF t = {} THEN 0
                             ELSE points(CHOOSE x \in t : TRUE) + f[t \ {CHOOSE x \in t : TRUE}]]
               fold == CHOOSE f : f = Step(f)
    <3>1. sum = fold[d]
      BY DEF MapThenSumSet, MapThenFoldSet
    <3> HIDE DEF sum, d
    <3>2. \A x \in d : g[x] \in Nat
      BY DEF Severity
    <3> HIDE DEF points
    <3>3. ASSUME NEW f PROVE Sums(f, g, d) <=> f = Step(f)
      <4>1. \A t \in SUBSET d : t # {} => g[Picked(t)] = points(CHOOSE x \in t : TRUE)
        BY PickedIn DEF Picked
      <4>2. [t \in SUBSET d |-> IF t = {} THEN 0 ELSE g[Picked(t)] + f[t \ {Picked(t)}]] = Step(f)
        BY <4>1 DEF Picked
      <4> QED BY <4>2 DEF Sums
    <3> HIDE DEF Step, g
    <3>4. IsFiniteSet(d)
      BY <1>3, HostScansAssumption, FS_Subset
    <3>5. PICK f : Sums(f, g, d)
      BY <3>4, SumExists
    <3>6. fold = Step(fold)
      BY <3>3, <3>5
    <3> HIDE DEF fold
    <3>7. Sums(fold, g, d)
      BY <3>3, <3>6
    <3>8. fold \in [SUBSET d -> Nat]
      BY <3>2, <3>4, <3>7, SumNat
    <3> QED BY <3>1, <3>8
  <2> HIDE DEF sum
  <2> QED BY <2>1, CappedRange
<1>5. n \in Nat
  <2> HIDE DEF d
  <2>1. IsFiniteSet(d)
    BY <1>3, HostScansAssumption, FS_Subset
  <2> QED BY <2>1, FS_CardinalityType
<1> HIDE DEF s, score, n
<1>6. Past(s) = Past(job[j])
  BY <1>2 DEF Past
<1>7. JobCounts(s, machine) /\ s.count \in Nat /\ s.score \in 0..100
  BY <1>1, <1>2, <1>6 DEF JobCounts, JobScored
<1>8. s.todo \in Pending \cup Rest /\ s.todo # <<>> /\ Found(Head(s.todo), machine) = {}
  BY <1>1, <1>2, NobodyFinds
<1>9. n >= Cardinality(Found(Head(s.todo), machine))
  BY <1>5, <1>8, FS_EmptySet
<1>10. JobScored(Adds(s, score, n)) /\ JobCounts(Adds(s, score, n), machine)
  BY <1>1, <1>2, <1>4, <1>5, <1>7, <1>8, <1>9, AddsCounts
<1> QED BY <1>1, <1>10, JobTallies DEF Slips

LEMMA FillTallied ==
  ASSUME Slips, Tallied, NEW j \in Jobs, Fill(j)
  PROVE  Tallied'
<1> DEFINE a == Adds(job[j], 0, 0)
<1>1. PICK done : Become(j, [a EXCEPT !.done = done])
  BY DEF Fill
<1> DEFINE s == [a EXCEPT !.done = done]
<1>2. /\ machine' = machine /\ machine \in Machines /\ job[j].pc = "fill"
      /\ DOMAIN job[j] = Fields /\ job[j].todo \in AtIntegrity
      /\ JobScored(job[j]) /\ JobCounts(job[j], machine)
  BY DEF Fill, environment, Slips, JobsOk, JobOk, JobTyped, JobFaithful, Tallied
<1>3. job[j].left = {} /\ job[j].count \in Nat /\ job[j].score \in 0..100
  BY <1>2 DEF JobScored
<1>4. /\ job[j].todo \in Pending \cup Rest /\ job[j].todo # <<>>
      /\ 0 >= Cardinality(Found(Head(job[j].todo), machine))
  <2>1. Found(Head(job[j].todo), machine) = {} /\ job[j].todo \in Pending \cup Rest /\ job[j].todo # <<>>
    BY <1>2, NobodyFinds
  <2>2. Cardinality({}) = 0
    BY FS_EmptySet
  <2>3. Cardinality(Found(Head(job[j].todo), machine)) = 0
    BY <2>1, <2>2
  <2> QED BY <2>1, <2>3
<1>5. 0 \in 0..100 /\ 0 \in Nat
  OBVIOUS
<1>6. JobScored(a) /\ JobCounts(a, machine)
  BY <1>2, <1>3, <1>4, <1>5, AddsCounts
<1>7. DOMAIN a = Fields
  BY <1>2, AddsEffect
<1> HIDE DEF a
<1>8. /\ s.pc = a.pc /\ s.todo = a.todo /\ s.left = a.left
      /\ s.score = a.score /\ s.count = a.count /\ s.always = a.always
  BY <1>7 DEF Fields
<1>9. Become(j, s)
  BY <1>1
<1> HIDE DEF s
<1>10. Past(s) = Past(a)
  BY <1>8 DEF Past
<1>11. JobScored(s) /\ JobCounts(s, machine)
  BY <1>6, <1>8, <1>10 DEF JobScored, JobCounts
<1> QED BY <1>2, <1>9, <1>11, JobTallies DEF Slips

LEMMA EndsTallied ==
  ASSUME Slips, Tallied, NEW j \in Jobs, FillFails(j) \/ Killed(j)
  PROVE  Tallied'
<1>1. /\ machine' = machine /\ DOMAIN job[j] = Fields
      /\ JobScored(job[j]) /\ JobCounts(job[j], machine)
      /\ Become(j, Fails(job[j])) \/ Become(j, Fresh)
  BY DEF FillFails, Killed, environment, Slips, JobsOk, JobOk, JobTyped, Tallied
<1> QED BY <1>1, FailsTally, FreshTally, JobTallies DEF Slips

\* What is gone when the machine changes was not there all the time.
LEMMA ChangeTallied ==
  ASSUME Slips, Tallied, NEW m \in Machines, Change(m)
  PROVE  Tallied'
<1>1. machine' = m
  BY DEF Change
<1>2. ASSUME NEW j \in Jobs PROVE JobScored(job'[j]) /\ JobCounts(job'[j], m)
  <2> DEFINE s == job[j]
             r == [s EXCEPT !.always = {a \in @ : a[2] \in Found(a[1], m)}]
  <2>1. /\ job'[j] = r /\ DOMAIN s = Fields
        /\ JobScored(s) /\ JobCounts(s, machine) /\ machine \in Machines
    BY DEF Change, Slips, JobsOk, JobOk, JobTyped, Tallied
  <2>2. /\ r.pc = s.pc /\ r.todo = s.todo /\ r.score = s.score /\ r.count = s.count
        /\ r.left = s.left /\ r.always = {a \in s.always : a[2] \in Found(a[1], m)}
    BY <2>1 DEF Fields
  <2> HIDE DEF s, r
  <2>3. r.always \subseteq AllFound(Steady, m)
    <3>1. SUFFICES ASSUME NEW a \in r.always PROVE a \in AllFound(Steady, m)
      OBVIOUS
    <3>2. a \in AllFound(Steady, machine) /\ a[2] \in Found(a[1], m)
      BY <2>1, <2>2, <3>1 DEF JobCounts
    <3>3. a = <<a[1], a[2]>> /\ a[1] \in Steady
      BY <3>2, FoundBy
    <3> QED BY <3>2, <3>3, FoundIn
  <2>4. Past(r) \subseteq Past(s) /\ Past(s) \subseteq s.always
    BY <2>2 DEF Past
  <2>5. IsFiniteSet(Past(s)) /\ Cardinality(Past(s)) \in Nat
    BY <2>1, <2>4, PastFinite DEF JobCounts
  <2>6. Cardinality(Past(r)) <= Cardinality(Past(s)) /\ IsFiniteSet(Past(r))
    BY <2>4, <2>5, FS_Subset
  <2>7. Cardinality(Past(r)) \in Nat
    BY <2>6, FS_CardinalityType
  <2>8. JobScored(r) /\ JobCounts(r, m)
    BY <2>1, <2>2, <2>3, <2>5, <2>6, <2>7 DEF JobScored, JobCounts
  <2> QED BY <2>1, <2>8
<1> QED BY <1>1, <1>2 DEF Tallied

LEMMA NextTallied == Slips /\ Tallied /\ [ScanNext]_scanVars => Tallied'
<1>1. ASSUME Slips, Tallied, ScanNext PROVE Tallied'
  <2>1. ASSUME NEW f, NEW c, Edit(f, c) PROVE Tallied'
    BY <1>1, <2>1 DEF Edit, Tallied
  <2>2. CASE Surroundings
    BY <1>1, <2>1, <2>2, ChangeTallied DEF Surroundings
  <2>3. ASSUME NEW j \in Jobs, Scan(j) PROVE Tallied'
    BY <1>1, <2>3, BeginTallied, ScanMachineTallied, FinishTallied, LoadTallied, HashTallied,
       CompareTallied, TruncateTallied, FillTallied, EndsTallied DEF Scan
  <2> QED BY <1>1, <2>2, <2>3 DEF ScanNext
<1>2. ASSUME Tallied, UNCHANGED scanVars PROVE Tallied'
  BY <1>2 DEF Tallied, scanVars
<1> QED BY <1>1, <1>2

LEMMA InitTallied == ScanInit => Tallied
<1> SUFFICES ASSUME ScanInit PROVE Tallied
  OBVIOUS
<1>1. machine \in Machines /\ \A j \in Jobs : job[j] = Fresh
  BY DEF ScanInit
<1> QED BY <1>1, FreshTally DEF Tallied

LEMMA Tallies == ScanSpec => [](Slips /\ Tallied)
BY InitSlips, NextSlips, InitTallied, NextTallied, PTL DEF ScanSpec

\* Whatever a machine holds, a score is out of 100, what is counted is a number, and
\* no file is left to hash but while they are hashed (calculate_score of each scanner,
\* run_scanners, scan_files).
THEOREM ScanTypes == ScanSpec => []ScanTypeOK
<1>1. Slips /\ Tallied => ScanTypeOK
  BY DEF Slips, FilesTyped, JobsOk, JobOk, JobTyped, Tallied, JobScored, ScanTypeOK
<1> QED BY <1>1, Tallies, PTL

\* A scan that ends without an error has counted at least what was there from its
\* beginning to its end, however the machine changes meanwhile and whatever other
\* scans there are (run_scanners).
THEOREM NothingUncounted == ScanSpec => []Counted
<1>1. Slips /\ Tallied => Counted
  <2>1. SUFFICES ASSUME Slips, Tallied, NEW j \in Jobs, job[j].pc = "done"
                 PROVE  job[j].count >= Cardinality(job[j].always)
    BY DEF Counted
  <2>2. JobCounts(job[j], machine)
    BY <2>1 DEF Tallied
  <2>3. KindsOf(job[j].todo) = {}
    BY <2>1, <2>2 DEF JobCounts, KindsOf
  <2>4. Past(job[j]) = job[j].always
    BY <2>3 DEF Past
  <2> QED BY <2>1, <2>2, <2>4 DEF JobCounts
<1> QED BY <1>1, Tallies, PTL

=============================================================================
