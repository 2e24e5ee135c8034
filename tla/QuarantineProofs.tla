-------------------------- MODULE QuarantineProofs --------------------------
(***************************************************************************)
(* Safety of Quarantine for any number of paths, ids, files, contents and   *)
(* workers.  The inductive invariant says who owns what while a call is     *)
(* under way; the properties of Quarantine follow from it.                  *)
(***************************************************************************)
EXTENDS Quarantine, TLAPS

CopyPC == {"q_copying", "r_copying"}
\* The vault file is a copy that quarantine_file made or is making.
OwnCopyPC == {"q_copying", "q_sync", "q_remove"}

\* A call that quarantines has an id of its own, and one that restores or
\* deletes has the id of a row: rows are never taken back.
CallIds ==
  \A p \in Workers :
    /\ w[p].pc \in QuarantinePC =>
         /\ w[p].path \in Paths
         /\ w[p].id \in Ids
         /\ row[w[p].id] = NoRow
         /\ \A q \in Workers \ {p} : w[q].id # w[p].id
    /\ w[p].pc \in RestorePC \cup DeletePC =>
         w[p].id \in Ids /\ row[w[p].id] # NoRow
    /\ w[p].pc \in RestorePC \ {"r_lookup"} => w[p].path \in Paths
    /\ \A id \in w[p].todo : row[id] # NoRow

\* What stands in the vault under the id of a call that quarantines.
OwnFile ==
  \A p \in Workers :
    /\ w[p].pc \in {"q_move", "q_copy"} => vault[w[p].id] = None
    /\ w[p].pc \in OwnCopyPC => vault[w[p].id] = w[p].dst
    /\ w[p].pc \in {"q_chmod", "q_insert"} => vault[w[p].id] # None
    /\ w[p].pc = "q_insert" => vault[w[p].id] \in locked

\* No file has two names.
OneName ==
  /\ \A t, u \in Paths : t # u /\ disk[t] # None => disk[t] # disk[u]
  /\ \A i, j \in Ids : i # j /\ vault[i] # None => vault[i] # vault[j]
  /\ \A t \in Paths, i \in Ids : disk[t] # None => disk[t] # vault[i]

\* Names, open files and unsynced data are those of files that exist.
Allocated ==
  /\ \A t \in Paths : disk[t] # None => data[disk[t]] # None
  /\ \A i \in Ids : vault[i] # None => data[vault[i]] # None
  /\ \A i \in unsynced : data[i] # None
  /\ \A p \in Workers : w[p].pc \in CopyPC \cup OwnCopyPC =>
       /\ w[p].src \in Inodes /\ w[p].dst \in Inodes
       /\ data[w[p].src] # None /\ data[w[p].dst] # None
       /\ w[p].buf # None

\* A copy under way is unsynced, and nobody else writes a copy that
\* quarantine_file makes.
OwnCopy ==
  /\ \A p \in Workers : w[p].pc \in CopyPC => w[p].dst \in unsynced
  /\ \A p, q \in Workers :
       p # q /\ w[p].pc \in OwnCopyPC /\ w[q].pc \in CopyPC => w[q].dst # w[p].dst

\* A row that is closed has no file; a call that is closing a row is alone.
Closing ==
  /\ \A id \in Ids : row[id].status \in {"Restored", "Deleted"} => vault[id] = None
  /\ \A p \in Workers : w[p].pc \in ClosingPC =>
       /\ vault[w[p].id] = None
       /\ w[p].id \in Active
       /\ \A q \in Workers \ {p} : w[q].pc \in ClosingPC => w[q].id # w[p].id

\* While quarantine_file copies, a durable file at the original path is the
\* one it opened, and once the copy is made the copy equals it.
FaithfulCopy ==
  \A p \in Workers :
    /\ w[p].pc \in OwnCopyPC /\ disk[w[p].path] # None
         /\ disk[w[p].path] \notin unsynced =>
           /\ disk[w[p].path] = w[p].src
           /\ w[p].pc = "q_copying" => data[w[p].src] = w[p].buf
           /\ w[p].pc \in {"q_sync", "q_remove"} => data[w[p].dst] = data[w[p].src]
    /\ w[p].pc = "q_remove" => w[p].dst \notin unsynced

\* The part that holds whatever the writers do.
Structure ==
  TypeOK /\ CallIds /\ OwnFile /\ OneName /\ Allocated /\ OwnCopy /\ Closing
  /\ RecordTruth /\ RecordedLocked

\* The part that needs quiet writers.
Custody == FaithfulCopy /\ ContentPreserved
---------------------------------------------------------------------------
(* Facts about the operators                                               *)

LEMMA FreshInode == Fresh # {} => NewInode \in Inodes /\ data[NewInode] = None
BY DEF Fresh, NewInode

LEMMA FreshId ==
  FreeIds # {} => /\ NewId \in Ids
                  /\ vault[NewId] = None
                  /\ row[NewId] = NoRow
                  /\ \A p \in Workers : w[p].id # NewId
BY DEF FreeIds, NewId

LEMMA IdleIsCall == Idle \in Call
BY DEF Idle, Call, PC

LEMMA ReturnedIsCall ==
  ASSUME NEW call \in Call
  PROVE  /\ Returned(call) \in Call
         /\ Returned(call).pc \in {"idle", "purge"}
         /\ Returned(call).id = None
         /\ Returned(call).todo \subseteq call.todo
BY DEF Returned, Idle, Call, PC

---------------------------------------------------------------------------
(* Types                                                                   *)

LEMMA TypeInit == Init => TypeOK
BY QuarantineAssumption, IdleIsCall DEF Init, TypeOK

\* One lemma per group of actions keeps the obligations small.
\* A step inside a call changes the record of its worker only.
LEMMA GotoEffect ==
  ASSUME TypeOK, NEW p \in Workers, NEW s \in PC, Goto(p, s)
  PROVE  /\ w' \in [Workers -> Call]
         /\ w'[p].pc = s
         /\ w'[p].id = w[p].id /\ w'[p].path = w[p].path
         /\ w'[p].src = w[p].src /\ w'[p].dst = w[p].dst /\ w'[p].buf = w[p].buf
         /\ w'[p].todo = w[p].todo
         /\ \A q \in Workers \ {p} : w'[q] = w[q]
<1>1. w[p] \in Call /\ w' = [w EXCEPT ![p] = [w[p] EXCEPT !.pc = s]]
  BY DEF TypeOK, Goto
<1>2. [w[p] EXCEPT !.pc = s] \in Call
  BY <1>1 DEF Call
<1> QED BY <1>1, <1>2 DEF TypeOK, Call

LEMMA ReturnEffect ==
  ASSUME TypeOK, NEW p \in Workers, Return(p)
  PROVE  /\ w' \in [Workers -> Call]
         /\ w'[p].pc \in {"idle", "purge"}
         /\ w'[p].id = None
         /\ w'[p].todo \subseteq w[p].todo
         /\ \A q \in Workers \ {p} : w'[q] = w[q]
BY ReturnedIsCall DEF TypeOK, Return

LEMMA OpenEffect ==
  ASSUME TypeOK, NEW p \in Workers, NEW s \in PC,
         NEW i \in Inodes, NEW j \in Inodes, OpenCopy(p, s, i, j)
  PROVE  /\ w' \in [Workers -> Call]
         /\ w'[p].pc = s
         /\ w'[p].id = w[p].id /\ w'[p].path = w[p].path
         /\ w'[p].src = i /\ w'[p].dst = j /\ w'[p].buf = data[i]
         /\ w'[p].todo = w[p].todo
         /\ \A q \in Workers \ {p} : w'[q] = w[q]
         /\ data' \in [Inodes -> Contents \cup {Partial, None}]
         /\ unsynced' \in SUBSET Inodes
         /\ locked' \in SUBSET Inodes
<1>1. data[i] \in Contents \cup {Partial, None}
  BY DEF TypeOK
<1>2. [w[p] EXCEPT !.pc = s, !.src = i, !.dst = j, !.buf = data[i]] \in Call
  BY <1>1 DEF TypeOK, Call
<1>3. w' = [w EXCEPT ![p] = [w[p] EXCEPT !.pc = s, !.src = i, !.dst = j,
                                         !.buf = data[i]]]
  BY <1>2 DEF TypeOK, OpenCopy
<1> QED BY <1>2, <1>3 DEF TypeOK, OpenCopy, Call

\* Where a call that quarantines works.
LEMMA QuarantineIds ==
  ASSUME TypeOK, CallIds, NEW p \in Workers, w[p].pc \in QuarantinePC
  PROVE  /\ w[p].path \in Paths
         /\ w[p].id \in Ids
         /\ row[w[p].id] = NoRow
         /\ \A q \in Workers \ {p} : w[q].id # w[p].id
BY DEF CallIds

LEMMA CopyResultType ==
  ASSUME TypeOK, NEW p \in Workers, w[p].src \in Inodes
  PROVE  CopyResults(p) \subseteq Contents \cup {Partial, None}
<1>1. w[p].buf \in Contents \cup {Partial, None}
  BY DEF TypeOK, Call
<1>2. data[w[p].src] \in Contents \cup {Partial, None}
  BY DEF TypeOK
<1>3. CASE data[w[p].src] = w[p].buf /\ ~WrittenByOther(p, w[p].dst)
  BY <1>1, <1>3 DEF CopyResults
<1>4. CASE ~(data[w[p].src] = w[p].buf /\ ~WrittenByOther(p, w[p].dst))
  BY <1>1, <1>2, <1>4 DEF CopyResults
<1> QED BY <1>3, <1>4

---------------------------------------------------------------------------
(* Steps of a call that touch neither a file nor a row                     *)

\* Such a step preserves the structure if the call it leaves behind is sound.
LEMMA CallStep ==
  ASSUME Structure, TypeOK', CallIds', NEW p \in Workers,
         UNCHANGED <<files, row>>, stale \subseteq stale',
         \A q \in Workers \ {p} : w'[q] = w[q],
         w'[p].pc \notin CopyPC \cup OwnCopyPC \cup {"q_chmod", "q_insert"},
         w'[p].pc \in {"q_move", "q_copy"} => vault[w'[p].id] = None,
         w'[p].pc \in ClosingPC => w[p].pc \in ClosingPC /\ w'[p].id = w[p].id,
         w[p].pc \in ClosingPC => w'[p].pc \in ClosingPC \/ w[p].id \in stale'
  PROVE  Structure'
<1> USE DEF files
<1>1. OwnFile' /\ OneName'
  BY DEF Structure, OwnFile, OneName
<1>2. Allocated' /\ OwnCopy'
  BY DEF Structure, Allocated, OwnCopy
<1>3. Closing'
  BY DEF Structure, Closing, Active
<1>4. RecordTruth'
  <2>1. SUFFICES ASSUME NEW id \in Ids, id \in Active, vault[id] = None, id \notin stale'
                 PROVE  \E q \in Workers : w'[q].pc \in ClosingPC /\ w'[q].id = id
    BY DEF Structure, RecordTruth, Active
  <2>2. PICK q \in Workers : w[q].pc \in ClosingPC /\ w[q].id = id
    BY <2>1 DEF Structure, RecordTruth
  <2>3. CASE q = p
    BY <2>1, <2>2, <2>3
  <2>4. CASE q # p
    BY <2>2, <2>4
  <2> QED BY <2>3, <2>4
<1>5. RecordedLocked'
  BY DEF Structure, RecordedLocked
<1> QED BY <1>1, <1>2, <1>3, <1>4, <1>5 DEF Structure

LEMMA StartStep ==
  ASSUME Structure, NEW p \in Workers, Start(p)
  PROVE  Structure'
<1> USE QuarantineAssumption
    DEF At, files, PC, QuarantinePC, RestorePC, DeletePC, ClosingPC, CopyPC, OwnCopyPC
<1>0. TypeOK /\ CallIds /\ w[p].pc = "idle"
  BY DEF Structure, Start, StartQuarantine, StartRestore, StartDelete, StartPurge
<1>1. ASSUME NEW t \in Paths, StartQuarantine(p, t)
      PROVE  Structure'
  <2> DEFINE c == [Idle EXCEPT !.pc = "q_move", !.path = t, !.id = NewId]
  <2>1. /\ NewId \in Ids /\ row[NewId] = NoRow /\ vault[NewId] = None
        /\ \A q \in Workers : w[q].id # NewId
    BY <1>1, FreshId DEF StartQuarantine
  <2>2. c \in Call /\ c.pc = "q_move" /\ c.id = NewId /\ c.path = t /\ c.todo = {}
    BY <2>1 DEF Idle, Call
  <2>3. /\ w'[p].pc = "q_move" /\ w'[p].id = NewId
        /\ w'[p].path = t /\ w'[p].todo = {}
        /\ \A q \in Workers \ {p} : w'[q] = w[q]
    BY <1>0, <1>1, <2>2 DEF StartQuarantine, TypeOK
  <2>4. UNCHANGED <<files, row, stale>>
    BY <1>1 DEF StartQuarantine
  <2>5. TypeOK'
    BY <1>0, <1>1, <2>2 DEF StartQuarantine, TypeOK
  <2>6. CallIds'
    BY <1>0, <2>1, <2>3, <2>4 DEF CallIds
  <2> QED BY <1>0, <2>1, <2>3, <2>4, <2>5, <2>6, CallStep
<1>2. ASSUME NEW id \in Ids, StartRestore(p, id) \/ StartDelete(p, id)
      PROVE  Structure'
  <2>1. PICK s \in {"r_lookup", "d_remove"} :
          w' = [w EXCEPT ![p] = [Idle EXCEPT !.pc = s, !.id = id]]
    BY <1>2 DEF StartRestore, StartDelete
  <2> DEFINE c == [Idle EXCEPT !.pc = s, !.id = id]
  <2>2. c \in Call /\ c.pc = s /\ c.id = id /\ c.todo = {}
    BY DEF Idle, Call
  <2>3. /\ w'[p].pc = s /\ w'[p].id = id /\ w'[p].todo = {}
        /\ \A q \in Workers \ {p} : w'[q] = w[q]
    BY <1>0, <2>1, <2>2 DEF TypeOK
  <2>4. UNCHANGED <<files, row, stale, custody, outages>> /\ row[id] # NoRow
    BY <1>2 DEF StartRestore, StartDelete
  <2>5. TypeOK'
    BY <1>0, <2>1, <2>2, <2>4 DEF TypeOK
  <2>6. CallIds'
    BY <1>0, <2>3, <2>4 DEF CallIds
  <2> QED BY <1>0, <2>3, <2>4, <2>5, <2>6, CallStep
<1>3. CASE StartPurge(p)
  <2> DEFINE c == [Idle EXCEPT !.pc = "purge", !.purging = TRUE, !.todo = Active]
  <2>1. c \in Call /\ c.pc = "purge" /\ c.id = None /\ c.todo = Active
    BY DEF Idle, Call, Active
  <2>2. /\ w'[p].pc = "purge" /\ w'[p].id = None /\ w'[p].todo = Active
        /\ \A q \in Workers \ {p} : w'[q] = w[q]
    BY <1>0, <1>3, <2>1 DEF StartPurge, TypeOK
  <2>3. UNCHANGED <<files, row, stale>> /\ \A id \in Active : row[id] # NoRow
    BY <1>3 DEF StartPurge, Active, NoRow
  <2>4. TypeOK'
    BY <1>0, <1>3, <2>1 DEF StartPurge, TypeOK
  <2>5. CallIds'
    BY <1>0, <2>2, <2>3 DEF CallIds
  <2> QED BY <1>0, <2>2, <2>3, <2>4, <2>5, CallStep
<1> QED BY <1>1, <1>2, <1>3 DEF Start

\* A step that only moves the call to its next instruction, or ends it.
LEMMA MoveCallIds ==
  ASSUME TypeOK, CallIds, NEW p \in Workers, UNCHANGED row,
         \A q \in Workers \ {p} : w'[q] = w[q],
         \/ /\ w'[p].id = w[p].id /\ w'[p].path = w[p].path /\ w'[p].todo = w[p].todo
            /\ \/ w[p].pc \in QuarantinePC /\ w'[p].pc \in QuarantinePC
               \/ w[p].pc \in RestorePC \ {"r_lookup"} /\ w'[p].pc \in RestorePC
               \/ w[p].pc \in DeletePC /\ w'[p].pc \in DeletePC
         \/ w'[p].pc \in {"idle", "purge"} /\ w'[p].id = None /\ w'[p].todo \subseteq w[p].todo
  PROVE  CallIds'
BY QuarantineAssumption
DEF CallIds, QuarantinePC, RestorePC, DeletePC, TypeOK

LEMMA QRenameRefusedStep ==
  ASSUME Structure, NEW p \in Workers, QRenameRefused(p)
  PROVE  Structure'
<1> USE DEF files, At, PC, QuarantinePC, RestorePC, DeletePC, ClosingPC, CopyPC, OwnCopyPC
<1>1. /\ TypeOK /\ CallIds /\ w[p].pc = "q_move" /\ vault[w[p].id] = None
      /\ w[p] \in Call /\ UNCHANGED <<files, row, custody, stale, outages>>
  BY DEF Structure, QRenameRefused, OwnFile, TypeOK
<1>2. /\ w' \in [Workers -> Call]
      /\ w'[p].pc = "q_copy" /\ w'[p].id = w[p].id /\ w'[p].path = w[p].path
      /\ w'[p].todo = w[p].todo
      /\ \A q \in Workers \ {p} : w'[q] = w[q]
  BY <1>1, GotoEffect DEF QRenameRefused
<1>3. TypeOK'
  BY <1>1, <1>2 DEF TypeOK
<1>4. CallIds'
  BY <1>1, <1>2, MoveCallIds
<1> QED BY <1>1, <1>2, <1>3, <1>4, CallStep

LEMMA RLookupStep ==
  ASSUME Structure, NEW p \in Workers, RLookup(p)
  PROVE  Structure'
<1> USE QuarantineAssumption
    DEF files, At, PC, QuarantinePC, RestorePC, DeletePC, ClosingPC, CopyPC, OwnCopyPC
<1>1. /\ TypeOK /\ CallIds /\ w[p].pc = "r_lookup" /\ w[p] \in Call
      /\ w[p].id \in Ids /\ row[w[p].id] # NoRow
      /\ UNCHANGED <<files, row, custody, stale, outages>>
  BY DEF Structure, RLookup, TypeOK, CallIds
<1>2. row[w[p].id].path \in Paths
  BY <1>1 DEF TypeOK, Row
<1>3. [w[p] EXCEPT !.pc = "r_copy", !.path = row[w[p].id].path] \in Call
  BY <1>1, <1>2 DEF Call
<1>4. /\ w' \in [Workers -> Call]
      /\ w'[p].pc = "r_copy" /\ w'[p].id = w[p].id /\ w'[p].path \in Paths
      /\ w'[p].todo = w[p].todo
      /\ \A q \in Workers \ {p} : w'[q] = w[q]
  BY <1>1, <1>2, <1>3 DEF RLookup, TypeOK, Call
<1>5. TypeOK'
  BY <1>1, <1>4 DEF TypeOK
<1>6. CallIds'
  BY <1>1, <1>4 DEF CallIds
<1> QED BY <1>1, <1>4, <1>5, <1>6, CallStep

\* The item of d_lookup is active: the call that removed its file is the only
\* one that may close its row.
LEMMA DLookupStep ==
  ASSUME Structure, NEW p \in Workers, DLookup(p)
  PROVE  Structure'
<1> USE DEF files, At, PC, QuarantinePC, RestorePC, DeletePC, ClosingPC, CopyPC, OwnCopyPC
<1>1. /\ TypeOK /\ CallIds /\ w[p].pc = "d_lookup" /\ w[p] \in Call
      /\ w[p].id \in Active
      /\ UNCHANGED <<files, row, custody, stale, outages>>
  BY DEF Structure, DLookup, TypeOK, Closing
<1>2. /\ w' \in [Workers -> Call]
      /\ w'[p].pc = "d_update" /\ w'[p].id = w[p].id /\ w'[p].path = w[p].path
      /\ w'[p].todo = w[p].todo
      /\ \A q \in Workers \ {p} : w'[q] = w[q]
  BY <1>1, GotoEffect DEF DLookup
<1>3. TypeOK'
  BY <1>1, <1>2 DEF TypeOK
<1>4. CallIds'
  BY <1>1, <1>2, MoveCallIds
<1> QED BY <1>1, <1>2, <1>3, <1>4, CallStep

LEMMA PurgeNextStep ==
  ASSUME Structure, NEW p \in Workers, PurgeNext(p)
  PROVE  Structure'
<1> USE QuarantineAssumption
    DEF files, At, PC, QuarantinePC, RestorePC, DeletePC, ClosingPC, CopyPC, OwnCopyPC
<1>1. /\ TypeOK /\ CallIds /\ w[p].pc = "purge" /\ w[p] \in Call
      /\ UNCHANGED <<files, row, custody, stale, outages>>
  BY DEF Structure, PurgeNext, TypeOK
<1>2. PICK id \in w[p].todo :
        w' = [w EXCEPT ![p].todo = @ \ {id},
                       ![p].id = IF vault[id] # None THEN id ELSE None,
                       ![p].pc = IF vault[id] # None THEN "d_remove" ELSE "purge"]
  BY DEF PurgeNext
<1>3. id \in Ids /\ row[id] # NoRow
  BY <1>1 DEF CallIds, Call
<1>4. /\ w' \in [Workers -> Call]
      /\ w'[p].pc \in {"d_remove", "purge"}
      /\ w'[p].pc = "d_remove" => w'[p].id = id
      /\ w'[p].id \in {id, None}
      /\ w'[p].todo = w[p].todo \ {id}
      /\ \A q \in Workers \ {p} : w'[q] = w[q]
  BY <1>1, <1>2, <1>3 DEF TypeOK, Call
<1>5. TypeOK'
  BY <1>1, <1>4 DEF TypeOK
<1>6. CallIds'
  BY <1>1, <1>3, <1>4 DEF CallIds
<1> QED BY <1>1, <1>4, <1>5, <1>6, CallStep

\* A call that ends, well or not, leaves its files and rows as they are.
LEMMA EndStep ==
  ASSUME Structure, NEW p \in Workers, PurgeDone(p) \/ Fail(p) \/ Crash(p)
  PROVE  Structure'
<1> USE DEF files, At, PC, QuarantinePC, RestorePC, DeletePC, ClosingPC, CopyPC, OwnCopyPC
<1>1. /\ TypeOK /\ CallIds /\ w[p] \in Call
      /\ UNCHANGED <<files, row, custody, outages>>
      /\ stale' \in {stale, stale \cup Abandoned({p})}
  BY DEF Structure, PurgeDone, Fail, Crash, TypeOK
<1>2. w[p].pc \in ClosingPC => Abandoned({p}) = {w[p].id} /\ w[p].id \in Ids
  BY <1>1 DEF Abandoned, CallIds
<1>3. w[p].pc \notin ClosingPC => Abandoned({p}) = {}
  BY DEF Abandoned
<1>4. /\ w' \in [Workers -> Call]
      /\ w'[p].pc \in {"idle", "purge"} /\ w'[p].id = None
      /\ w'[p].todo \subseteq w[p].todo
      /\ \A q \in Workers \ {p} : w'[q] = w[q]
  <2>1. CASE Fail(p)
    BY <1>1, <2>1, ReturnEffect DEF Fail
  <2>2. CASE PurgeDone(p) \/ Crash(p)
    <3>1. w' = [w EXCEPT ![p] = Idle]
      BY <2>2 DEF PurgeDone, Crash
    <3> QED BY <1>1, <3>1, IdleIsCall DEF TypeOK, Idle
  <2> QED BY <2>1, <2>2
<1>5. w[p].pc \in ClosingPC => w[p].id \in stale'
  BY <1>2 DEF PurgeDone, Fail, Crash
<1>6. TypeOK'
  BY <1>1, <1>2, <1>3, <1>4 DEF TypeOK
<1>7. CallIds'
  BY <1>1, <1>4, MoveCallIds
<1>8. stale \subseteq stale'
  BY <1>1
<1> QED BY <1>1, <1>4, <1>5, <1>6, <1>7, <1>8, CallStep

---------------------------------------------------------------------------
(* Steps that touch a file or a row                                        *)

LEMMA KnownInodes ==
  ASSUME Structure
  PROVE  /\ \A t \in Paths : disk[t] # None => disk[t] \in Inodes /\ data[disk[t]] # None
         /\ \A k \in Ids : vault[k] # None => vault[k] \in Inodes /\ data[vault[k]] # None
         /\ unsynced \subseteq Inodes
BY DEF Structure, Allocated, TypeOK

LEMMA NewInodeIsNew ==
  ASSUME Structure, Fresh # {}
  PROVE  /\ NewInode \in Inodes /\ data[NewInode] = None /\ NewInode \notin unsynced
         /\ \A t \in Paths : disk[t] # NewInode
         /\ \A k \in Ids : vault[k] # NewInode
         /\ \A r \in Workers : w[r].pc \in CopyPC \cup OwnCopyPC =>
              w[r].src # NewInode /\ w[r].dst # NewInode
<1>1. NewInode \in Inodes /\ data[NewInode] = None /\ NewInode # None
  BY FreshInode, QuarantineAssumption
<1> QED BY <1>1, KnownInodes DEF Structure, Allocated

LEMMA QRenameStep ==
  ASSUME Structure, NEW p \in Workers, QRename(p)
  PROVE  Structure'
<1> USE QuarantineAssumption
    DEF At, PC, QuarantinePC, RestorePC, DeletePC, ClosingPC, CopyPC, OwnCopyPC
<1>0. TypeOK /\ CallIds /\ OwnFile /\ OneName /\ Allocated /\ OwnCopy /\ Closing
      /\ RecordTruth /\ RecordedLocked
  BY DEF Structure
<1> DEFINE i == disk[w[p].path]
           k == w[p].id
<1>1. /\ w[p].pc = "q_move" /\ w[p].path \in Paths /\ k \in Ids
      /\ row[k] = NoRow /\ vault[k] = None
      /\ \A q \in Workers \ {p} : w[q].id # k
      /\ i # None /\ i \in Inodes /\ data[i] # None
  BY <1>0, QuarantineIds, KnownInodes DEF QRename, OwnFile
<1>2. /\ w' \in [Workers -> Call]
      /\ w'[p].pc = "q_chmod" /\ w'[p].id = k /\ w'[p].path = w[p].path
      /\ w'[p].todo = w[p].todo
      /\ \A q \in Workers \ {p} : w'[q] = w[q]
  BY <1>0, <1>1, GotoEffect DEF QRename
<1>3. /\ vault' \in [Ids -> Inodes \cup {None}] /\ vault'[k] = i
      /\ \A m \in Ids : m # k => vault'[m] = vault[m]
      /\ disk' \in [Paths -> Inodes \cup {None}] /\ disk'[w[p].path] = None
      /\ \A t \in Paths : t # w[p].path => disk'[t] = disk[t]
      /\ UNCHANGED <<data, locked, unsynced, row, custody, stale, outages>>
  BY <1>0, <1>1 DEF QRename, TypeOK
<1> HIDE DEF i, k
<1>4. TypeOK'
  BY <1>0, <1>2, <1>3 DEF TypeOK
<1>5. CallIds'
  BY <1>0, <1>1, <1>2, <1>3, MoveCallIds DEF k
<1>6. OwnFile'
  BY <1>0, <1>1, <1>2, <1>3 DEF OwnFile, CallIds
<1>7. OneName'
  BY <1>0, <1>1, <1>3 DEF OneName, i
<1>8. Allocated'
  BY <1>0, <1>1, <1>2, <1>3 DEF Allocated
<1>9. OwnCopy'
  BY <1>0, <1>1, <1>2, <1>3 DEF OwnCopy
<1>10. Closing'
  BY <1>0, <1>1, <1>2, <1>3 DEF Closing, Active, NoRow
<1>11. RecordTruth'
  BY <1>0, <1>1, <1>2, <1>3 DEF RecordTruth, Active, NoRow
<1>12. RecordedLocked'
  BY <1>0, <1>1, <1>3 DEF RecordedLocked
<1> QED BY <1>4, <1>5, <1>6, <1>7, <1>8, <1>9, <1>10, <1>11, <1>12 DEF Structure

LEMMA QCopyBeginStep ==
  ASSUME Structure, NEW p \in Workers, QCopyBegin(p)
  PROVE  Structure'
<1> USE QuarantineAssumption
    DEF At, PC, QuarantinePC, RestorePC, DeletePC, ClosingPC, CopyPC, OwnCopyPC
<1>0. TypeOK /\ CallIds /\ OwnFile /\ OneName /\ Allocated /\ OwnCopy /\ Closing
      /\ RecordTruth /\ RecordedLocked
  BY DEF Structure
<1> DEFINE i == disk[w[p].path]
           j == NewInode
           k == w[p].id
<1>1. /\ w[p].pc = "q_copy" /\ w[p].path \in Paths /\ k \in Ids
      /\ row[k] = NoRow /\ vault[k] = None
      /\ \A q \in Workers \ {p} : w[q].id # k
      /\ i # None /\ i \in Inodes /\ data[i] # None
      /\ Fresh # {}
  BY <1>0, QuarantineIds, KnownInodes DEF QCopyBegin, OwnFile
<1>2. /\ j \in Inodes /\ data[j] = None /\ j \notin unsynced
      /\ \A t \in Paths : disk[t] # j
      /\ \A m \in Ids : vault[m] # j
      /\ \A r \in Workers : w[r].pc \in CopyPC \cup OwnCopyPC =>
           w[r].src # j /\ w[r].dst # j
  BY <1>1, NewInodeIsNew
<1>3. /\ w' \in [Workers -> Call]
      /\ w'[p].pc = "q_copying" /\ w'[p].id = k /\ w'[p].path = w[p].path
      /\ w'[p].src = i /\ w'[p].dst = j /\ w'[p].todo = w[p].todo
      /\ w'[p].buf = data[i]
      /\ \A q \in Workers \ {p} : w'[q] = w[q]
      /\ data' \in [Inodes -> Contents \cup {Partial, None}]
      /\ unsynced' \in SUBSET Inodes
      /\ locked' \in SUBSET Inodes
  BY <1>0, <1>1, <1>2, OpenEffect DEF QCopyBegin
<1>4. /\ vault' \in [Ids -> Inodes \cup {None}] /\ vault'[k] = j
      /\ \A m \in Ids : m # k => vault'[m] = vault[m]
      /\ data'[j] = Partial
      /\ \A x \in Inodes : x # j => data'[x] = data[x]
      /\ unsynced' = unsynced \cup {j}
      /\ \A x \in Inodes : x # j /\ x \in locked => x \in locked'
      /\ UNCHANGED <<disk, row, custody, stale, outages>>
  BY <1>0, <1>1, <1>2 DEF QCopyBegin, OpenCopy, TypeOK
<1>5. \A x \in Inodes : data[x] # None => data'[x] # None
  BY <1>4
<1> HIDE DEF i, j, k
<1>6. TypeOK'
  BY <1>0, <1>3, <1>4 DEF TypeOK
<1>7. CallIds'
  BY <1>0, <1>1, <1>3, <1>4, MoveCallIds DEF k
<1>8. OwnFile'
  BY <1>0, <1>1, <1>2, <1>3, <1>4, KnownInodes DEF OwnFile, CallIds
<1>9. OneName'
  BY <1>0, <1>1, <1>2, <1>4 DEF OneName
<1>10. Allocated'
  BY <1>0, <1>1, <1>2, <1>3, <1>4, <1>5, KnownInodes DEF Allocated
<1>11. OwnCopy'
  BY <1>0, <1>1, <1>2, <1>3, <1>4 DEF OwnCopy
<1>12. Closing'
  BY <1>0, <1>1, <1>3, <1>4 DEF Closing, Active, NoRow
<1>13. RecordTruth'
  BY <1>0, <1>1, <1>3, <1>4 DEF RecordTruth, Active, NoRow
<1>14. RecordedLocked'
  BY <1>0, <1>1, <1>2, <1>4, KnownInodes DEF RecordedLocked
<1> QED BY <1>6, <1>7, <1>8, <1>9, <1>10, <1>11, <1>12, <1>13, <1>14 DEF Structure

\* The end of a copy changes the content of its destination and nothing else.
LEMMA EndCopyStep ==
  ASSUME Structure, NEW p \in Workers, QCopyEnd(p) \/ RCopyEnd(p)
  PROVE  Structure'
<1> USE QuarantineAssumption
    DEF At, PC, QuarantinePC, RestorePC, DeletePC, ClosingPC, CopyPC, OwnCopyPC
<1>0. TypeOK /\ CallIds /\ OwnFile /\ OneName /\ Allocated /\ OwnCopy /\ Closing
      /\ RecordTruth /\ RecordedLocked
  BY DEF Structure
<1>1. PICK s \in {"q_sync", "r_chmod"} :
        /\ EndCopy(p, s)
        /\ s = "q_sync" => w[p].pc = "q_copying"
        /\ s = "r_chmod" => w[p].pc = "r_copying"
  BY DEF QCopyEnd, RCopyEnd
<1>2. /\ w[p].src \in Inodes /\ w[p].dst \in Inodes
      /\ data[w[p].src] # None /\ data[w[p].dst] # None /\ w[p].buf # None
  BY <1>0, <1>1 DEF Allocated
<1>3. PICK x \in CopyResults(p) : data' = [data EXCEPT ![w[p].dst] = x]
  BY <1>1 DEF EndCopy
<1>4. x \in Contents \cup {Partial, None}
  BY <1>0, <1>2, CopyResultType
<1>5. x # None
  BY <1>2, <1>3 DEF CopyResults
<1>6. /\ w' \in [Workers -> Call]
      /\ w'[p].pc = s /\ w'[p].id = w[p].id /\ w'[p].path = w[p].path
      /\ w'[p].src = w[p].src /\ w'[p].dst = w[p].dst /\ w'[p].todo = w[p].todo
      /\ w'[p].buf = w[p].buf
      /\ \A q \in Workers \ {p} : w'[q] = w[q]
  BY <1>0, <1>1, GotoEffect DEF EndCopy
<1>7. UNCHANGED <<disk, vault, locked, unsynced, row, custody, stale, outages>>
  BY <1>1 DEF EndCopy
<1>8. \A y \in Inodes : data[y] # None => data'[y] # None
  BY <1>0, <1>2, <1>3, <1>5 DEF TypeOK
<1>9. TypeOK'
  BY <1>0, <1>2, <1>3, <1>4, <1>6, <1>7 DEF TypeOK
<1>10. CallIds'
  BY <1>0, <1>1, <1>6, <1>7, MoveCallIds
<1>11. OwnFile' /\ OneName'
  BY <1>0, <1>1, <1>6, <1>7 DEF OwnFile, OneName
<1>12. Allocated'
  BY <1>0, <1>1, <1>2, <1>6, <1>7, <1>8, KnownInodes DEF Allocated
<1>13. OwnCopy'
  BY <1>0, <1>1, <1>6, <1>7 DEF OwnCopy
<1>14. Closing'
  BY <1>0, <1>1, <1>6, <1>7 DEF Closing, Active
<1>15. RecordTruth'
  BY <1>0, <1>1, <1>6, <1>7 DEF RecordTruth, Active
<1>16. RecordedLocked'
  BY <1>0, <1>7 DEF RecordedLocked
<1> QED BY <1>9, <1>10, <1>11, <1>12, <1>13, <1>14, <1>15, <1>16 DEF Structure

LEMMA QSyncStep ==
  ASSUME Structure, NEW p \in Workers, QSync(p)
  PROVE  Structure'
<1> USE DEF At, PC, QuarantinePC, RestorePC, DeletePC, ClosingPC, CopyPC, OwnCopyPC
<1>0. TypeOK /\ CallIds /\ OwnFile /\ OneName /\ Allocated /\ OwnCopy /\ Closing
      /\ RecordTruth /\ RecordedLocked
  BY DEF Structure
<1>1. /\ w[p].pc = "q_sync"
      /\ unsynced' = unsynced \ {w[p].dst}
      /\ UNCHANGED <<disk, vault, data, locked, row, custody, stale, outages>>
  BY DEF QSync
<1>2. /\ w' \in [Workers -> Call]
      /\ w'[p].pc = "q_remove" /\ w'[p].id = w[p].id /\ w'[p].path = w[p].path
      /\ w'[p].src = w[p].src /\ w'[p].dst = w[p].dst /\ w'[p].todo = w[p].todo
      /\ w'[p].buf = w[p].buf
      /\ \A q \in Workers \ {p} : w'[q] = w[q]
  BY <1>0, GotoEffect DEF QSync
<1>3. TypeOK'
  BY <1>0, <1>1, <1>2 DEF TypeOK
<1>4. CallIds'
  BY <1>0, <1>1, <1>2, MoveCallIds
<1>5. OwnFile' /\ OneName'
  BY <1>0, <1>1, <1>2 DEF OwnFile, OneName
<1>6. Allocated'
  BY <1>0, <1>1, <1>2 DEF Allocated
<1>7. OwnCopy'
  BY <1>0, <1>1, <1>2 DEF OwnCopy
<1>8. Closing'
  BY <1>0, <1>1, <1>2 DEF Closing, Active
<1>9. RecordTruth'
  BY <1>0, <1>1, <1>2 DEF RecordTruth, Active
<1>10. RecordedLocked'
  BY <1>0, <1>1 DEF RecordedLocked
<1> QED BY <1>3, <1>4, <1>5, <1>6, <1>7, <1>8, <1>9, <1>10 DEF Structure

LEMMA QRemoveStep ==
  ASSUME Structure, NEW p \in Workers, QRemove(p)
  PROVE  Structure'
<1> USE DEF At, PC, QuarantinePC, RestorePC, DeletePC, ClosingPC, CopyPC, OwnCopyPC
<1>0. TypeOK /\ CallIds /\ OwnFile /\ OneName /\ Allocated /\ OwnCopy /\ Closing
      /\ RecordTruth /\ RecordedLocked
  BY DEF Structure
<1>1. /\ w[p].pc = "q_remove" /\ w[p].path \in Paths
      /\ vault[w[p].id] # None
      /\ UNCHANGED <<vault, data, locked, unsynced, row, custody, stale, outages>>
  BY <1>0, QuarantineIds, QuarantineAssumption DEF QRemove, OwnFile, Allocated
<1>2. /\ w' \in [Workers -> Call]
      /\ w'[p].pc = "q_chmod" /\ w'[p].id = w[p].id /\ w'[p].path = w[p].path
      /\ w'[p].todo = w[p].todo
      /\ \A q \in Workers \ {p} : w'[q] = w[q]
  BY <1>0, GotoEffect DEF QRemove
<1>3. /\ disk' \in [Paths -> Inodes \cup {None}]
      /\ \A t \in Paths : disk'[t] \in {disk[t], None}
  BY <1>0, <1>1 DEF QRemove, TypeOK
<1>4. TypeOK'
  BY <1>0, <1>1, <1>2, <1>3 DEF TypeOK
<1>5. CallIds'
  BY <1>0, <1>1, <1>2, MoveCallIds
<1>6. OwnFile'
  BY <1>0, <1>1, <1>2 DEF OwnFile
<1>7. OneName'
  BY <1>0, <1>1, <1>3 DEF OneName
<1>8. Allocated'
  BY <1>0, <1>1, <1>2, <1>3 DEF Allocated
<1>9. OwnCopy'
  BY <1>0, <1>1, <1>2 DEF OwnCopy
<1>10. Closing'
  BY <1>0, <1>1, <1>2 DEF Closing, Active
<1>11. RecordTruth'
  BY <1>0, <1>1, <1>2 DEF RecordTruth, Active
<1>12. RecordedLocked'
  BY <1>0, <1>1 DEF RecordedLocked
<1> QED BY <1>4, <1>5, <1>6, <1>7, <1>8, <1>9, <1>10, <1>11, <1>12 DEF Structure

\* Both chmod calls: one locks a file of the vault, the other unlocks a file
\* at a path, which by OneName is none of the vault.
LEMMA ChmodStep ==
  ASSUME Structure, NEW p \in Workers, QChmod(p) \/ RChmod(p)
  PROVE  Structure'
<1> USE DEF At, PC, QuarantinePC, RestorePC, DeletePC, ClosingPC, CopyPC, OwnCopyPC
<1>0. TypeOK /\ CallIds /\ OwnFile /\ OneName /\ Allocated /\ OwnCopy /\ Closing
      /\ RecordTruth /\ RecordedLocked
  BY DEF Structure
<1>1. PICK s \in {"q_insert", "r_remove"} :
        /\ Goto(p, s)
        /\ s = "q_insert" => w[p].pc = "q_chmod"
        /\ s = "r_remove" => w[p].pc = "r_chmod"
  BY DEF QChmod, RChmod
<1>2. UNCHANGED <<disk, vault, data, unsynced, row, custody, stale, outages>>
  BY DEF QChmod, RChmod
<1>3. /\ w' \in [Workers -> Call]
      /\ w'[p].pc = s /\ w'[p].id = w[p].id /\ w'[p].path = w[p].path
      /\ w'[p].todo = w[p].todo
      /\ \A q \in Workers \ {p} : w'[q] = w[q]
  BY <1>0, <1>1, GotoEffect
<1>4. /\ locked' \in SUBSET Inodes
      /\ \A m \in Ids : vault[m] # None /\ vault[m] \in locked => vault[m] \in locked'
      /\ s = "q_insert" => vault[w[p].id] \in locked'
  <2>1. CASE QChmod(p)
    <3>1. w[p].id \in Ids /\ vault[w[p].id] # None /\ vault[w[p].id] \in Inodes
      BY <1>0, <2>1, QuarantineIds, KnownInodes DEF QChmod, OwnFile
    <3> QED BY <1>0, <2>1, <3>1 DEF QChmod, TypeOK
  <2>2. CASE RChmod(p)
    <3>1. w[p].path \in Paths /\ disk[w[p].path] # None /\ s = "r_remove"
      BY <1>0, <1>1, <2>2 DEF RChmod, CallIds
    <3>2. \A m \in Ids : vault[m] # disk[w[p].path]
      BY <1>0, <3>1 DEF OneName
    <3> QED BY <1>0, <2>2, <3>1, <3>2 DEF RChmod, TypeOK
  <2> QED BY <2>1, <2>2
<1>5. TypeOK'
  BY <1>0, <1>2, <1>3, <1>4 DEF TypeOK
<1>6. CallIds'
  BY <1>0, <1>1, <1>2, <1>3, MoveCallIds
<1>7. OwnFile'
  BY <1>0, <1>1, <1>2, <1>3, <1>4 DEF OwnFile, CallIds
<1>8. OneName' /\ Allocated'
  BY <1>0, <1>1, <1>2, <1>3 DEF OneName, Allocated
<1>9. OwnCopy'
  BY <1>0, <1>1, <1>2, <1>3 DEF OwnCopy
<1>10. Closing'
  BY <1>0, <1>1, <1>2, <1>3 DEF Closing, Active
<1>11. RecordTruth'
  BY <1>0, <1>1, <1>2, <1>3 DEF RecordTruth, Active
<1>12. RecordedLocked'
  BY <1>0, <1>2, <1>4 DEF RecordedLocked
<1> QED BY <1>5, <1>6, <1>7, <1>8, <1>9, <1>10, <1>11, <1>12 DEF Structure

LEMMA QInsertStep ==
  ASSUME Structure, NEW p \in Workers, QInsert(p)
  PROVE  Structure'
<1> USE QuarantineAssumption
    DEF files, At, PC, QuarantinePC, RestorePC, DeletePC, ClosingPC, CopyPC, OwnCopyPC
<1>0. TypeOK /\ CallIds /\ OwnFile /\ OneName /\ Allocated /\ OwnCopy /\ Closing
      /\ RecordTruth /\ RecordedLocked
  BY DEF Structure
<1> DEFINE k == w[p].id
           r == [path |-> w[p].path, status |-> "Quarantined"]
<1>1. /\ w[p].pc = "q_insert" /\ k \in Ids /\ r \in Row /\ r # NoRow
      /\ r.status = "Quarantined"
      /\ \A q \in Workers \ {p} : w[q].id # k
      /\ row[k] = NoRow /\ vault[k] # None /\ vault[k] \in locked
      /\ UNCHANGED <<files, custody, stale, outages>>
  BY <1>0, QuarantineIds DEF QInsert, OwnFile, Row, NoRow, Status
<1>2. /\ w' \in [Workers -> Call]
      /\ w'[p].pc \in {"idle", "purge"} /\ w'[p].id = None
      /\ w'[p].todo \subseteq w[p].todo
      /\ \A q \in Workers \ {p} : w'[q] = w[q]
  BY <1>0, ReturnEffect DEF QInsert
<1>3. /\ row' \in [Ids -> Row \cup {NoRow}] /\ row'[k] = r
      /\ \A m \in Ids : m # k => row'[m] = row[m]
  BY <1>0, <1>1 DEF QInsert, TypeOK
<1>4. \A m \in Ids : row[m] # NoRow => row'[m] # NoRow
  BY <1>1, <1>3
<1>5. \A q \in Workers : w[q].todo \subseteq Ids
  BY <1>0 DEF TypeOK, Call
<1> HIDE DEF k, r
<1>6. TypeOK'
  BY <1>0, <1>1, <1>2, <1>3 DEF TypeOK
<1>7. CallIds'
  BY <1>0, <1>1, <1>2, <1>3, <1>4, <1>5 DEF CallIds
<1>8. OwnFile' /\ OneName'
  BY <1>0, <1>1, <1>2 DEF OwnFile, OneName
<1>9. Allocated' /\ OwnCopy'
  BY <1>0, <1>1, <1>2 DEF Allocated, OwnCopy
<1>10. Closing'
  BY <1>0, <1>1, <1>2, <1>3 DEF Closing, Active
<1>11. RecordTruth'
  BY <1>0, <1>1, <1>2, <1>3 DEF RecordTruth, Active
<1>12. RecordedLocked'
  BY <1>0, <1>1, <1>3 DEF RecordedLocked
<1> QED BY <1>6, <1>7, <1>8, <1>9, <1>10, <1>11, <1>12 DEF Structure

\* The destination of a restore is a new file or the one at the path, which by
\* OneName is none of the vault.
LEMMA RestoreTarget ==
  ASSUME Structure, NEW p \in Workers, RCopyBegin(p)
  PROVE  \E j \in Inodes :
           /\ OpenCopy(p, "r_copying", vault[w[p].id], j)
           /\ disk' = [disk EXCEPT ![w[p].path] = j]
           /\ \A m \in Ids : vault[m] # j
           /\ \A t \in Paths : t # w[p].path => disk[t] # j
<1>1. w[p].path \in Paths
  BY DEF RCopyBegin, At, Structure, CallIds, RestorePC
<1>2. CASE disk[w[p].path] = None
  <2>1. Fresh # {} /\ OpenCopy(p, "r_copying", vault[w[p].id], NewInode)
        /\ disk' = [disk EXCEPT ![w[p].path] = NewInode]
    BY <1>2 DEF RCopyBegin
  <2> QED BY <2>1, NewInodeIsNew
<1>3. CASE disk[w[p].path] # None
  <2> DEFINE d == disk[w[p].path]
  <2>1. OpenCopy(p, "r_copying", vault[w[p].id], d)
        /\ disk' = [disk EXCEPT ![w[p].path] = d]
    BY <1>3 DEF RCopyBegin
  <2>2. d \in Inodes /\ \A m \in Ids : vault[m] # d
    BY <1>1, <1>3, KnownInodes DEF Structure, OneName
  <2>3. \A t \in Paths : t # w[p].path => disk[t] # d
    BY <1>1, <1>3 DEF Structure, OneName
  <2> QED BY <2>1, <2>2, <2>3
<1> QED BY <1>2, <1>3

LEMMA RCopyBeginStep ==
  ASSUME Structure, NEW p \in Workers, RCopyBegin(p)
  PROVE  Structure'
<1> USE QuarantineAssumption
    DEF At, PC, QuarantinePC, RestorePC, DeletePC, ClosingPC, CopyPC, OwnCopyPC
<1>0. TypeOK /\ CallIds /\ OwnFile /\ OneName /\ Allocated /\ OwnCopy /\ Closing
      /\ RecordTruth /\ RecordedLocked
  BY DEF Structure
<1> DEFINE k == w[p].id
           i == vault[k]
<1>1. /\ w[p].pc = "r_copy" /\ w[p].path \in Paths /\ k \in Ids
      /\ i # None /\ i \in Inodes /\ data[i] # None
      /\ UNCHANGED <<vault, row, stale, outages>>
  BY <1>0, KnownInodes DEF RCopyBegin, CallIds
<1>2. PICK j \in Inodes :
        /\ OpenCopy(p, "r_copying", i, j)
        /\ disk' = [disk EXCEPT ![w[p].path] = j]
        /\ \A m \in Ids : vault[m] # j
        /\ \A t \in Paths : t # w[p].path => disk[t] # j
  BY RestoreTarget
<1>3. /\ w' \in [Workers -> Call]
      /\ w'[p].pc = "r_copying" /\ w'[p].id = k /\ w'[p].path = w[p].path
      /\ w'[p].src = i /\ w'[p].dst = j /\ w'[p].todo = w[p].todo
      /\ w'[p].buf = data[i]
      /\ \A q \in Workers \ {p} : w'[q] = w[q]
      /\ data' \in [Inodes -> Contents \cup {Partial, None}]
      /\ unsynced' \in SUBSET Inodes
      /\ locked' \in SUBSET Inodes
  BY <1>0, <1>1, <1>2, OpenEffect
<1>4. /\ disk' \in [Paths -> Inodes \cup {None}] /\ disk'[w[p].path] = j
      /\ \A t \in Paths : t # w[p].path => disk'[t] = disk[t]
      /\ data'[j] = Partial
      /\ \A x \in Inodes : x # j => data'[x] = data[x]
      /\ unsynced' = unsynced \cup {j}
      /\ \A x \in Inodes : x # j /\ x \in locked => x \in locked'
  BY <1>0, <1>1, <1>2 DEF OpenCopy, TypeOK
<1>5. \A x \in Inodes : data[x] # None => data'[x] # None
  BY <1>4
<1>6. custody' \in [Contents -> {"new", "owned", "released"}]
  BY <1>0 DEF RCopyBegin, Release, TypeOK
<1>7. \A q \in Workers : w[q].pc \in OwnCopyPC => w[q].dst # j
  BY <1>0, <1>2 DEF OwnFile, CallIds
<1> HIDE DEF i, k
<1>8. TypeOK'
  BY <1>0, <1>1, <1>3, <1>4, <1>6 DEF TypeOK
<1>9. CallIds'
  BY <1>0, <1>1, <1>3, MoveCallIds DEF k
<1>10. OwnFile'
  BY <1>0, <1>1, <1>2, <1>3, <1>4, KnownInodes DEF OwnFile, CallIds
<1>11. OneName'
  BY <1>0, <1>1, <1>2, <1>4 DEF OneName
<1>12. Allocated'
  BY <1>0, <1>1, <1>2, <1>3, <1>4, <1>5, KnownInodes DEF Allocated
<1>13. OwnCopy'
  BY <1>0, <1>1, <1>2, <1>3, <1>4, <1>7 DEF OwnCopy
<1>14. Closing'
  BY <1>0, <1>1, <1>3, <1>4 DEF Closing, Active
<1>15. RecordTruth'
  BY <1>0, <1>1, <1>3, <1>4 DEF RecordTruth, Active
<1>16. RecordedLocked'
  BY <1>0, <1>1, <1>2, <1>4, KnownInodes DEF RecordedLocked
<1> QED BY <1>8, <1>9, <1>10, <1>11, <1>12, <1>13, <1>14, <1>15, <1>16 DEF Structure

\* Of the calls that race for a vault file, one removes it: its item was
\* active until then, and nobody else is closing it.
LEMMA VaultRemoveStep ==
  ASSUME Structure, NEW p \in Workers, RRemove(p) \/ DRemove(p)
  PROVE  Structure'
<1> USE QuarantineAssumption
    DEF At, PC, QuarantinePC, RestorePC, DeletePC, ClosingPC, CopyPC, OwnCopyPC
<1>0. TypeOK /\ CallIds /\ OwnFile /\ OneName /\ Allocated /\ OwnCopy /\ Closing
      /\ RecordTruth /\ RecordedLocked
  BY DEF Structure
<1>1. PICK s \in {"r_update", "d_lookup"} :
        /\ VaultRemove(p, s)
        /\ s = "r_update" => w[p].pc = "r_remove"
        /\ s = "d_lookup" => w[p].pc = "d_remove"
  BY DEF RRemove, DRemove
<1> DEFINE k == w[p].id
<1>2. /\ k \in Ids /\ row[k] # NoRow /\ vault[k] # None
      /\ UNCHANGED <<disk, data, locked, unsynced, row, stale, outages>>
  BY <1>0, <1>1 DEF CallIds, VaultRemove
<1>3. /\ w' \in [Workers -> Call]
      /\ w'[p].pc = s /\ w'[p].id = k /\ w'[p].path = w[p].path
      /\ w'[p].todo = w[p].todo
      /\ \A q \in Workers \ {p} : w'[q] = w[q]
  BY <1>0, <1>1, GotoEffect DEF VaultRemove
<1>4. /\ vault' \in [Ids -> Inodes \cup {None}] /\ vault'[k] = None
      /\ \A m \in Ids : m # k => vault'[m] = vault[m]
      /\ custody' \in [Contents -> {"new", "owned", "released"}]
  BY <1>0, <1>1, <1>2 DEF VaultRemove, Release, TypeOK
<1>5. k \in Active
  BY <1>0, <1>2 DEF Closing, TypeOK, Row, Status, Active
<1> HIDE DEF k
<1>6. TypeOK'
  BY <1>0, <1>2, <1>3, <1>4 DEF TypeOK
<1>7. CallIds'
  BY <1>0, <1>1, <1>2, <1>3, MoveCallIds DEF k
<1>8. OwnFile'
  BY <1>0, <1>1, <1>2, <1>3, <1>4 DEF OwnFile, CallIds
<1>9. OneName' /\ Allocated' /\ OwnCopy'
  BY <1>0, <1>1, <1>2, <1>3, <1>4 DEF OneName, Allocated, OwnCopy
<1>10. Closing'
  BY <1>0, <1>1, <1>2, <1>3, <1>4, <1>5 DEF Closing, Active
<1>11. RecordTruth'
  BY <1>0, <1>1, <1>2, <1>3, <1>4 DEF RecordTruth, Active
<1>12. RecordedLocked'
  BY <1>0, <1>2, <1>4 DEF RecordedLocked
<1> QED BY <1>6, <1>7, <1>8, <1>9, <1>10, <1>11, <1>12 DEF Structure

LEMMA UpdateStep ==
  ASSUME Structure, NEW p \in Workers, RUpdate(p) \/ DUpdate(p)
  PROVE  Structure'
<1> USE QuarantineAssumption
    DEF files, At, PC, QuarantinePC, RestorePC, DeletePC, ClosingPC, CopyPC, OwnCopyPC
<1>0. TypeOK /\ CallIds /\ OwnFile /\ OneName /\ Allocated /\ OwnCopy /\ Closing
      /\ RecordTruth /\ RecordedLocked
  BY DEF Structure
<1>1. PICK s \in {"Restored", "Deleted"} :
        UpdateStatus(p, s) /\ w[p].pc \in {"r_update", "d_update"}
  BY DEF RUpdate, DUpdate
<1> DEFINE k == w[p].id
<1>2. /\ k \in Ids /\ row[k] # NoRow /\ vault[k] = None /\ k \in Active
      /\ row[k] \in Row
      /\ \A q \in Workers \ {p} : w[q].pc \in ClosingPC => w[q].id # k
      /\ UNCHANGED <<files, custody, stale, outages>>
  BY <1>0, <1>1 DEF CallIds, Closing, UpdateStatus, TypeOK
<1>3. /\ w' \in [Workers -> Call]
      /\ w'[p].pc \in {"idle", "purge"} /\ w'[p].id = None
      /\ w'[p].todo \subseteq w[p].todo
      /\ \A q \in Workers \ {p} : w'[q] = w[q]
  BY <1>0, <1>1, ReturnEffect DEF UpdateStatus
<1>4. [row[k] EXCEPT !.status = s] \in Row /\ [row[k] EXCEPT !.status = s] # NoRow
      /\ [row[k] EXCEPT !.status = s].status = s
  BY <1>2 DEF Row, Status, NoRow
<1>5. /\ row' \in [Ids -> Row \cup {NoRow}]
      /\ row'[k] # NoRow /\ row'[k].status = s
      /\ \A m \in Ids : m # k => row'[m] = row[m]
  BY <1>0, <1>1, <1>2, <1>4 DEF UpdateStatus, TypeOK
<1>6. \A m \in Ids : row[m] # NoRow => row'[m] # NoRow
  BY <1>5
<1>7. \A q \in Workers : w[q].todo \subseteq Ids
  BY <1>0 DEF TypeOK, Call
<1> HIDE DEF k
<1>8. TypeOK'
  BY <1>0, <1>2, <1>3, <1>5 DEF TypeOK
<1>9. CallIds'
  BY <1>0, <1>1, <1>2, <1>3, <1>5, <1>6, <1>7 DEF CallIds
<1>10. OwnFile' /\ OneName' /\ Allocated' /\ OwnCopy'
  BY <1>0, <1>1, <1>2, <1>3 DEF OwnFile, OneName, Allocated, OwnCopy
<1>11. Closing'
  BY <1>0, <1>1, <1>2, <1>3, <1>5 DEF Closing, Active
<1>12. RecordTruth'
  BY <1>0, <1>1, <1>2, <1>3, <1>5 DEF RecordTruth, Active, k
<1>13. RecordedLocked'
  BY <1>0, <1>2, <1>5 DEF RecordedLocked
<1> QED BY <1>8, <1>9, <1>10, <1>11, <1>12, <1>13 DEF Structure

---------------------------------------------------------------------------
(* Steps of the environment                                                *)

LEMMA SaveStep ==
  ASSUME Structure, NEW t \in Paths, NEW c \in Contents, Save(t, c)
  PROVE  Structure'
<1> USE QuarantineAssumption DEF PC, QuarantinePC, ClosingPC, CopyPC, OwnCopyPC
<1>0. TypeOK /\ CallIds /\ OwnFile /\ OneName /\ Allocated /\ OwnCopy /\ Closing
      /\ RecordTruth /\ RecordedLocked
  BY DEF Structure
<1> DEFINE j == NewInode
<1>1. /\ j \in Inodes /\ data[j] = None /\ j \notin unsynced
      /\ \A u \in Paths : disk[u] # j
      /\ \A m \in Ids : vault[m] # j
      /\ \A r \in Workers : w[r].pc \in CopyPC \cup OwnCopyPC =>
           w[r].src # j /\ w[r].dst # j
  BY NewInodeIsNew DEF Save
<1>2. /\ disk' \in [Paths -> Inodes \cup {None}] /\ disk'[t] = j
      /\ \A u \in Paths : u # t => disk'[u] = disk[u]
      /\ data' \in [Inodes -> Contents \cup {Partial, None}] /\ data'[j] = c
      /\ \A x \in Inodes : x # j => data'[x] = data[x]
      /\ custody' \in [Contents -> {"new", "owned", "released"}]
      /\ UNCHANGED <<vault, locked, unsynced, row, w, stale, outages>>
  BY <1>0, <1>1 DEF Save, TypeOK
<1> HIDE DEF j
<1>3. TypeOK'
  BY <1>0, <1>2 DEF TypeOK
<1>4. CallIds' /\ OwnFile'
  BY <1>0, <1>2 DEF CallIds, OwnFile
<1>5. OneName'
  BY <1>0, <1>1, <1>2 DEF OneName
<1>6. Allocated'
  BY <1>0, <1>1, <1>2, KnownInodes DEF Allocated
<1>7. OwnCopy'
  BY <1>0, <1>2 DEF OwnCopy
<1>8. Closing' /\ RecordTruth' /\ RecordedLocked'
  BY <1>0, <1>2 DEF Closing, RecordTruth, RecordedLocked, Active
<1> QED BY <1>3, <1>4, <1>5, <1>6, <1>7, <1>8 DEF Structure

LEMMA PowerLossStep ==
  ASSUME Structure, PowerLoss
  PROVE  Structure'
<1> USE QuarantineAssumption
    DEF PC, QuarantinePC, RestorePC, DeletePC, ClosingPC, CopyPC, OwnCopyPC
<1>0. TypeOK /\ CallIds /\ OwnFile /\ OneName /\ Allocated /\ OwnCopy /\ Closing
      /\ RecordTruth /\ RecordedLocked
  BY DEF Structure
<1>1. PICK lost \in SUBSET unsynced :
        data' = [i \in Inodes |-> IF i \in lost THEN Partial ELSE data[i]]
  BY DEF PowerLoss
<1>2. /\ w' = [p \in Workers |-> Idle]
      /\ outages' = outages + 1 /\ outages < MaxOutages
      /\ unsynced' = {}
      /\ stale' = stale \cup Abandoned(Workers)
      /\ UNCHANGED <<disk, vault, locked, row, custody>>
  BY DEF PowerLoss
<1>3. \A p \in Workers : w'[p].pc = "idle" /\ w'[p].id = None /\ w'[p].todo = {}
  BY <1>2 DEF Idle
<1>4. Abandoned(Workers) \subseteq Ids
  BY <1>0 DEF Abandoned, CallIds
<1>5. \A x \in Inodes : data[x] # None => data'[x] # None
  BY <1>1
<1>6. data' \in [Inodes -> Contents \cup {Partial, None}] /\ w' \in [Workers -> Call]
  BY <1>0, <1>1, <1>2, IdleIsCall DEF TypeOK
<1>7. outages' \in 0..MaxOutages
  BY <1>0, <1>2 DEF TypeOK
<1>8. TypeOK'
  BY <1>0, <1>2, <1>4, <1>6, <1>7 DEF TypeOK
<1>9. CallIds' /\ OwnFile' /\ OwnCopy'
  BY <1>3 DEF CallIds, OwnFile, OwnCopy
<1>10. OneName'
  BY <1>0, <1>2 DEF OneName
<1>11. Allocated'
  BY <1>2, <1>3, <1>5, KnownInodes DEF Allocated
<1>12. Closing' /\ RecordedLocked'
  BY <1>0, <1>2, <1>3 DEF Closing, RecordedLocked
<1>13. RecordTruth'
  BY <1>0, <1>2 DEF RecordTruth, Active, Abandoned
<1> QED BY <1>8, <1>9, <1>10, <1>11, <1>12, <1>13 DEF Structure

---------------------------------------------------------------------------
(* The structure is inductive                                              *)

LEMMA StructureInit == Init => Structure
<1> SUFFICES ASSUME Init PROVE Structure
  OBVIOUS
<1> USE QuarantineAssumption
    DEF PC, QuarantinePC, RestorePC, DeletePC, ClosingPC, CopyPC, OwnCopyPC
<1>1. \A p \in Workers : w[p].pc = "idle" /\ w[p].todo = {}
  BY DEF Init, Idle
<1>2. TypeOK
  BY TypeInit
<1>3. CallIds /\ OwnFile /\ OwnCopy
  BY <1>1 DEF CallIds, OwnFile, OwnCopy
<1>4. OneName /\ Allocated
  BY <1>1 DEF Init, OneName, Allocated
<1>5. Closing /\ RecordTruth /\ RecordedLocked
  BY <1>1 DEF Init, Closing, RecordTruth, RecordedLocked, Active, NoRow
<1> QED BY <1>2, <1>3, <1>4, <1>5 DEF Structure

LEMMA StructureNext == Structure /\ [Next]_vars => Structure'
<1> SUFFICES ASSUME Structure, [Next]_vars PROVE Structure'
  OBVIOUS
<1>1. CASE UNCHANGED vars
  BY <1>1 DEF vars, Structure, TypeOK, CallIds, OwnFile, OneName, Allocated,
              OwnCopy, Closing, RecordTruth, RecordedLocked, Active
<1>2. ASSUME NEW p \in Workers, Step(p)
      PROVE  Structure'
  BY <1>2, QRenameStep, QRenameRefusedStep, QCopyBeginStep, EndCopyStep, QSyncStep,
     QRemoveStep, ChmodStep, QInsertStep, RLookupStep, RCopyBeginStep,
     VaultRemoveStep, UpdateStep, DLookupStep, PurgeNextStep, EndStep DEF Step
<1>3. ASSUME NEW p \in Workers, Start(p) \/ Crash(p)
      PROVE  Structure'
  BY <1>3, StartStep, EndStep
<1>4. ASSUME NEW t \in Paths, NEW c \in Contents, Save(t, c)
      PROVE  Structure'
  BY <1>4, SaveStep
<1> QED BY <1>1, <1>2, <1>3, <1>4, PowerLossStep DEF Next

LEMMA StructureHolds == Spec => []Structure
BY StructureInit, StructureNext, PTL DEF Spec

\* Every variable keeps its type.
THEOREM TypeCorrect == Spec => []TypeOK
<1>1. Structure => TypeOK
  BY DEF Structure
<1> QED BY <1>1, StructureHolds, PTL

\* However many calls interleave, are killed or lose power, a closed row has
\* no file in the vault, and an active row without its file is being closed
\* or belongs to a call that was lost.
THEOREM RowsAreTrue == Spec => []RecordTruth
<1>1. Structure => RecordTruth
  BY DEF Structure
<1> QED BY <1>1, StructureHolds, PTL

\* However many calls interleave, no recorded file of the vault gets its
\* permissions back.
THEOREM HeldFilesAreLocked == Spec => []RecordedLocked
<1>1. Structure => RecordedLocked
  BY DEF Structure
<1> QED BY <1>1, StructureHolds, PTL

---------------------------------------------------------------------------
(* Refinement of the life cycle                                            *)

\* What a phase depends on.
LEMMA SamePhase ==
  ASSUME NEW id \in Ids, row'[id] = row[id], vault'[id] = vault[id]
  PROVE  Phase'[id] = Phase[id]
BY DEF Phase

LEMMA PhaseAt ==
  ASSUME TypeOK, NEW id \in Ids
  PROVE  /\ row[id] = NoRow /\ vault[id] = None => Phase[id] = "absent"
         /\ row[id] = NoRow /\ vault[id] # None => Phase[id] = "unrecorded"
         /\ id \in Active /\ vault[id] # None => Phase[id] = "held"
         /\ id \in Active /\ vault[id] = None => Phase[id] = "leaving"
BY DEF Phase, PhaseOf, Active, NoRow

\* A step that takes one item from one phase to another moves nothing else.
LEMMA OneMove ==
  ASSUME NEW k \in Ids, NEW a, NEW b, Phase[k] = a, Phase'[k] = b,
         \A m \in Ids \ {k} : row'[m] = row[m] /\ vault'[m] = vault[m]
  PROVE  Life!Move(k, a, b)
<1>1. \A m \in Ids \ {k} : Phase'[m] = Phase[m]
  BY SamePhase
<1>2. Phase' = [Phase EXCEPT ![k] = b]
  BY <1>1 DEF Phase
<1> QED BY <1>2 DEF Life!Move

LEMMA ArriveStep ==
  ASSUME Structure, NEW p \in Workers, QRename(p) \/ QCopyBegin(p)
  PROVE  Life!Next
<1> USE QuarantineAssumption DEF At, QuarantinePC
<1> DEFINE k == w[p].id
<1>1. /\ TypeOK /\ k \in Ids /\ row[k] = NoRow /\ vault[k] = None
      /\ w[p].path \in Paths /\ row' = row
  BY QuarantineIds DEF Structure, QRename, QCopyBegin, OwnFile
<1>2. /\ vault'[k] # None
      /\ \A m \in Ids \ {k} : vault'[m] = vault[m]
  BY <1>1, FreshInode DEF QRename, QCopyBegin, TypeOK
<1> HIDE DEF k
<1>3. Phase[k] = "absent"
  BY <1>1, PhaseAt
<1>4. Phase'[k] = "unrecorded"
  BY <1>1, <1>2 DEF Phase, PhaseOf, NoRow
<1>5. Life!Move(k, "absent", "unrecorded")
  BY <1>1, <1>2, <1>3, <1>4, OneMove
<1> QED BY <1>1, <1>5 DEF Life!Next, Life!Arrive

LEMMA RecordStep ==
  ASSUME Structure, NEW p \in Workers, QInsert(p)
  PROVE  Life!Next
<1> USE QuarantineAssumption DEF At, QuarantinePC
<1> DEFINE k == w[p].id
           r == [path |-> w[p].path, status |-> "Quarantined"]
<1>1. /\ TypeOK /\ k \in Ids /\ row[k] = NoRow /\ vault[k] # None
      /\ w[p].path \in Paths /\ vault' = vault
  BY QuarantineIds DEF Structure, QInsert, OwnFile, files
<1>2. /\ row'[k] = r /\ r # NoRow /\ r.status = "Quarantined"
      /\ \A m \in Ids \ {k} : row'[m] = row[m]
  BY <1>1 DEF QInsert, TypeOK, NoRow
<1> HIDE DEF k, r
<1>3. Phase[k] = "unrecorded"
  BY <1>1, PhaseAt
<1>4. Phase'[k] = "held"
  BY <1>1, <1>2 DEF Phase, PhaseOf, Active
<1>5. Life!Move(k, "unrecorded", "held")
  BY <1>1, <1>2, <1>3, <1>4, OneMove
<1> QED BY <1>1, <1>5 DEF Life!Next, Life!Record

LEMMA LeaveStep ==
  ASSUME Structure, NEW p \in Workers, RRemove(p) \/ DRemove(p)
  PROVE  Life!Next
<1> USE QuarantineAssumption DEF At, RestorePC, DeletePC
<1> DEFINE k == w[p].id
<1>1. /\ TypeOK /\ k \in Ids /\ row[k] # NoRow /\ vault[k] # None /\ row' = row
  BY DEF Structure, RRemove, DRemove, VaultRemove, CallIds
<1>2. k \in Active
  BY <1>1 DEF Structure, Closing, TypeOK, Row, Status, Active
<1>3. /\ vault'[k] = None
      /\ \A m \in Ids \ {k} : vault'[m] = vault[m]
  BY <1>1 DEF RRemove, DRemove, VaultRemove, TypeOK
<1> HIDE DEF k
<1>4. Phase[k] = "held"
  BY <1>1, <1>2, PhaseAt
<1>5. Phase'[k] = "leaving"
  BY <1>1, <1>2, <1>3 DEF Phase, PhaseOf, Active
<1>6. Life!Move(k, "held", "leaving")
  BY <1>1, <1>3, <1>4, <1>5, OneMove
<1> QED BY <1>1, <1>6 DEF Life!Next, Life!Leave

LEMMA CloseStep ==
  ASSUME Structure, NEW p \in Workers, RUpdate(p) \/ DUpdate(p)
  PROVE  Life!Next
<1> USE QuarantineAssumption DEF At, RestorePC, DeletePC, ClosingPC
<1> DEFINE k == w[p].id
<1>1. PICK s \in {"Restored", "Deleted"} : UpdateStatus(p, s)
  BY DEF RUpdate, DUpdate
<1>2. /\ TypeOK /\ k \in Ids /\ k \in Active /\ vault[k] = None /\ vault' = vault
      /\ row[k] \in Row
  BY <1>1 DEF Structure, RUpdate, DUpdate, UpdateStatus, CallIds, Closing, TypeOK, files
<1>3. [row[k] EXCEPT !.status = s] # NoRow /\ [row[k] EXCEPT !.status = s].status = s
  BY <1>2 DEF Row, Status, NoRow
<1>4. /\ row'[k] # NoRow /\ row'[k].status = s
      /\ \A m \in Ids \ {k} : row'[m] = row[m]
  BY <1>1, <1>2, <1>3 DEF UpdateStatus, TypeOK
<1> HIDE DEF k
<1>5. Phase[k] = "leaving"
  BY <1>2, PhaseAt
<1>6. CASE s = "Restored"
  <2>1. Phase'[k] = "restored"
    BY <1>2, <1>4, <1>6 DEF Phase, PhaseOf, Active
  <2>2. Life!Move(k, "leaving", "restored")
    BY <1>2, <1>4, <1>5, <2>1, OneMove
  <2> QED BY <1>2, <2>2 DEF Life!Next, Life!Close
<1>7. CASE s = "Deleted"
  <2>1. Phase'[k] = "deleted"
    BY <1>2, <1>4, <1>7 DEF Phase, PhaseOf, Active
  <2>2. Life!Move(k, "leaving", "deleted")
    BY <1>2, <1>4, <1>5, <2>1, OneMove
  <2> QED BY <1>2, <2>2 DEF Life!Next, Life!Close
<1> QED BY <1>6, <1>7

LEMMA StutterStep ==
  ASSUME UNCHANGED <<row, vault>>
  PROVE  UNCHANGED Phase
BY DEF Phase

LEMMA LifeNext == Structure /\ [Next]_vars => [Life!Next]_Phase
<1> SUFFICES ASSUME Structure, [Next]_vars PROVE [Life!Next]_Phase
  OBVIOUS
<1>1. ASSUME NEW p \in Workers, Step(p)
      PROVE  [Life!Next]_Phase
  <2>1. CASE QRename(p) \/ QCopyBegin(p)
    BY <2>1, ArriveStep
  <2>2. CASE QInsert(p)
    BY <2>2, RecordStep
  <2>3. CASE RRemove(p) \/ DRemove(p)
    BY <2>3, LeaveStep
  <2>4. CASE RUpdate(p) \/ DUpdate(p)
    BY <2>4, CloseStep
  <2>5. CASE \/ QRenameRefused(p) \/ QCopyEnd(p) \/ QSync(p) \/ QRemove(p)
             \/ QChmod(p) \/ RLookup(p) \/ RCopyBegin(p) \/ RCopyEnd(p)
             \/ RChmod(p) \/ DLookup(p) \/ PurgeNext(p) \/ PurgeDone(p) \/ Fail(p)
    <3>1. UNCHANGED <<row, vault>>
      BY <2>5 DEF QRenameRefused, QCopyEnd, EndCopy, QSync, QRemove, QChmod, RLookup,
           RCopyBegin, RCopyEnd, RChmod, DLookup, PurgeNext, PurgeDone, Fail, files
    <3> QED BY <3>1, StutterStep
  <2> QED BY <1>1, <2>1, <2>2, <2>3, <2>4, <2>5 DEF Step
<1>2. ASSUME UNCHANGED <<row, vault>>
      PROVE  [Life!Next]_Phase
  BY <1>2, StutterStep
<1>3. ASSUME NEW p \in Workers, Start(p) \/ Crash(p)
      PROVE  UNCHANGED <<row, vault>>
  BY <1>3 DEF Start, StartQuarantine, StartRestore, StartDelete, StartPurge, Crash, files
<1>4. ASSUME NEW t \in Paths, NEW c \in Contents, Save(t, c)
      PROVE  UNCHANGED <<row, vault>>
  BY <1>4 DEF Save
<1>5. CASE PowerLoss
  BY <1>2, <1>5 DEF PowerLoss
<1>6. CASE UNCHANGED vars
  BY <1>2, <1>6 DEF vars
<1> QED BY <1>1, <1>2, <1>3, <1>4, <1>5, <1>6 DEF Next

\* The three calls, however many run and wherever they are killed, take every
\* item through the one life that QuarantineLifecycle describes.
THEOREM ImplementsLifecycle == Spec => Lifecycle
<1>1. Init => Life!Init
  <2> SUFFICES ASSUME Init PROVE Phase = [id \in Ids |-> "absent"]
    BY DEF Life!Init
  <2>1. \A id \in Ids : Phase[id] = "absent"
    BY TypeInit, PhaseAt DEF Init
  <2> QED BY <2>1 DEF Phase
<1> QED BY <1>1, StructureHolds, LifeNext, PTL DEF Spec, Lifecycle, Life!Spec

---------------------------------------------------------------------------
(* Custody: no content is lost while writers are quiet                     *)

\* A content that is owned after a step is safe if it was owned before, and
\* each durable, linked file that had it still has it, or another one does.
LEMMA KeepContent ==
  ASSUME ContentPreserved,
         \A c \in Contents : custody'[c] = "owned" =>
           /\ custody[c] = "owned"
           /\ \A i \in (Inodes \cap Linked) \ unsynced : data[i] = c =>
                \E j \in (Inodes \cap Linked') \ unsynced' : data'[j] = c
  PROVE  ContentPreserved'
BY DEF ContentPreserved

\* A step of p outside a copy of quarantine_file that leaves the files alone.
LEMMA AsideStep ==
  ASSUME Custody, NEW p \in Workers,
         UNCHANGED <<disk, vault, data, unsynced, custody>>,
         \A q \in Workers \ {p} : w'[q] = w[q],
         w'[p].pc \notin OwnCopyPC
  PROVE  Custody'
<1>1. ContentPreserved'
  BY DEF Custody, ContentPreserved, Linked
<1>2. FaithfulCopy'
  BY DEF Custody, FaithfulCopy, OwnCopyPC
<1> QED BY <1>1, <1>2 DEF Custody

LEMMA StartCustody ==
  ASSUME Structure, Custody, NEW p \in Workers, Start(p) \/ Crash(p)
  PROVE  Custody'
<1>1. UNCHANGED <<disk, vault, data, unsynced, custody>>
  BY DEF Start, StartQuarantine, StartRestore, StartDelete, StartPurge, Crash, files
<1>2. \E call \in {Idle} \cup [pc : {"q_move", "r_lookup", "d_remove", "purge"},
                  path : Paths \cup {None}, id : Ids \cup {None},
                  src : {None}, dst : {None}, buf : {None},
                  purging : BOOLEAN, todo : SUBSET Ids] :
          w' = [w EXCEPT ![p] = call]
  BY FreshId
  DEF Start, StartQuarantine, StartRestore, StartDelete, StartPurge, Crash, Idle, Active
<1>3. /\ \A q \in Workers \ {p} : w'[q] = w[q]
      /\ w'[p].pc \notin OwnCopyPC
  BY <1>2 DEF Structure, TypeOK, Idle, OwnCopyPC
<1> QED BY <1>1, <1>3, AsideStep

\* The steps of a call that move no data.
LEMMA CallCustody ==
  ASSUME Structure, Custody, NEW p \in Workers,
         \/ QRenameRefused(p) \/ QChmod(p) \/ QInsert(p) \/ RLookup(p) \/ RChmod(p)
         \/ RUpdate(p) \/ DLookup(p) \/ DUpdate(p) \/ PurgeNext(p) \/ PurgeDone(p)
         \/ Fail(p)
  PROVE  Custody'
<1>0. TypeOK
  BY DEF Structure
<1>1. UNCHANGED <<disk, vault, data, unsynced, custody>>
  BY DEF QRenameRefused, QChmod, QInsert, RLookup, RChmod, RUpdate, DLookup, DUpdate,
         PurgeNext, PurgeDone, Fail, UpdateStatus, files
<1>2. CASE \E s \in {"q_copy", "q_insert", "r_remove", "d_update"} : Goto(p, s)
  BY <1>0, <1>1, <1>2, GotoEffect, AsideStep
  DEF OwnCopyPC, PC, QuarantinePC, RestorePC, DeletePC
<1>3. CASE Return(p)
  BY <1>0, <1>1, <1>3, ReturnEffect, AsideStep DEF OwnCopyPC
<1>4. CASE RLookup(p) \/ PurgeNext(p) \/ PurgeDone(p)
  <2>1. /\ \A q \in Workers \ {p} : w'[q] = w[q]
        /\ w'[p].pc \in {"r_copy", "d_remove", "purge", "idle"}
    <3>1. CASE RLookup(p)
      BY <1>0, <3>1 DEF RLookup, TypeOK, Call
    <3>2. CASE PurgeNext(p)
      <4>1. PICK id \in w[p].todo :
              w' = [w EXCEPT ![p].todo = @ \ {id},
                             ![p].id = IF vault[id] # None THEN id ELSE None,
                             ![p].pc = IF vault[id] # None THEN "d_remove" ELSE "purge"]
        BY <3>2 DEF PurgeNext
      <4>2. w[p] \in Call
        BY <1>0 DEF TypeOK
      <4> QED BY <1>0, <4>1, <4>2 DEF TypeOK, Call
    <3>3. CASE PurgeDone(p)
      BY <1>0, <3>3 DEF PurgeDone, TypeOK, Call, Idle
    <3> QED BY <1>4, <3>1, <3>2, <3>3
  <2> QED BY <1>1, <2>1, AsideStep DEF OwnCopyPC
<1> QED BY <1>2, <1>3, <1>4 DEF QRenameRefused, QChmod, QInsert, RChmod, RUpdate,
           DLookup, DUpdate, Fail, UpdateStatus

\* The file moves from its path to the vault.
LEMMA QRenameCustody ==
  ASSUME Structure, Custody, NEW p \in Workers, QRename(p)
  PROVE  Custody'
<1> USE QuarantineAssumption DEF At, PC, QuarantinePC, CopyPC, OwnCopyPC
<1>0. TypeOK /\ CallIds /\ OwnFile /\ FaithfulCopy /\ ContentPreserved
  BY DEF Structure, Custody
<1> DEFINE i == disk[w[p].path]
           k == w[p].id
<1>1. w[p].path \in Paths /\ k \in Ids /\ vault[k] = None
  BY <1>0, QuarantineIds DEF QRename, OwnFile
<1>2. /\ w'[p].pc = "q_chmod" /\ \A q \in Workers \ {p} : w'[q] = w[q]
  BY <1>0, GotoEffect DEF QRename
<1>3. /\ vault'[k] = i /\ \A m \in Ids : m # k => vault'[m] = vault[m]
      /\ disk'[w[p].path] = None
      /\ \A t \in Paths : t # w[p].path => disk'[t] = disk[t]
      /\ UNCHANGED <<data, unsynced, custody>>
  BY <1>0, <1>1 DEF QRename, TypeOK
<1> HIDE DEF k
<1>4. Inodes \cap Linked \subseteq Linked'
  BY <1>1, <1>3 DEF Linked
<1>5. ContentPreserved'
  BY <1>0, <1>3, <1>4, KeepContent
<1>6. FaithfulCopy'
  BY <1>0, <1>2, <1>3 DEF FaithfulCopy, CallIds
<1> QED BY <1>5, <1>6 DEF Custody

\* The copy goes to a file nobody knew.
LEMMA QCopyBeginCustody ==
  ASSUME Structure, Custody, NEW p \in Workers, QCopyBegin(p)
  PROVE  Custody'
<1> USE QuarantineAssumption DEF At, PC, QuarantinePC, CopyPC, OwnCopyPC
<1>0. TypeOK /\ CallIds /\ OwnFile /\ FaithfulCopy /\ ContentPreserved
  BY DEF Structure, Custody
<1> DEFINE i == disk[w[p].path]
           j == NewInode
           k == w[p].id
<1>1. /\ w[p].path \in Paths /\ k \in Ids /\ vault[k] = None
      /\ i # None /\ i \in Inodes /\ Fresh # {}
  BY <1>0, QuarantineIds, KnownInodes DEF QCopyBegin, OwnFile
<1>2. /\ j \in Inodes
      /\ \A t \in Paths : disk[t] # j
      /\ \A m \in Ids : vault[m] # j
      /\ \A r \in Workers : w[r].pc \in OwnCopyPC => w[r].src # j /\ w[r].dst # j
  BY <1>1, NewInodeIsNew
<1>3. /\ w'[p].pc = "q_copying" /\ w'[p].path = w[p].path
      /\ w'[p].src = i /\ w'[p].buf = data[i]
      /\ \A q \in Workers \ {p} : w'[q] = w[q]
  BY <1>0, <1>1, <1>2, OpenEffect DEF QCopyBegin
<1>4. /\ vault'[k] = j /\ \A m \in Ids : m # k => vault'[m] = vault[m]
      /\ \A x \in Inodes : x # j => data'[x] = data[x]
      /\ unsynced' = unsynced \cup {j}
      /\ UNCHANGED <<disk, custody>>
  BY <1>0, <1>1, <1>2 DEF QCopyBegin, OpenCopy, TypeOK
<1>5. \A q \in Workers : w[q].pc \in OwnCopyPC => w[q].src \in Inodes /\ w[q].dst \in Inodes
  BY DEF Structure, Allocated
<1>6. \A q \in Workers : w[q].pc \in OwnCopyPC => w[q].path \in Paths
  BY <1>0 DEF CallIds
<1> HIDE DEF j, k
<1>7. Inodes \cap Linked \subseteq Linked' /\ j \notin Linked
  BY <1>1, <1>2, <1>4 DEF Linked
<1>8. ContentPreserved'
  BY <1>0, <1>4, <1>7, KeepContent
<1>9. FaithfulCopy'
  BY <1>0, <1>1, <1>2, <1>3, <1>4, <1>5, <1>6 DEF FaithfulCopy
<1> QED BY <1>8, <1>9 DEF Custody

\* Nobody else writes the copy, and a durable source has not changed since it
\* was opened: the copy equals it.
LEMMA EndCopyCustody ==
  ASSUME Structure, Custody, NEW p \in Workers, QCopyEnd(p) \/ RCopyEnd(p)
  PROVE  Custody'
<1> USE DEF At, PC, QuarantinePC, RestorePC, CopyPC, OwnCopyPC
<1>0. TypeOK /\ CallIds /\ OwnCopy /\ FaithfulCopy /\ ContentPreserved
  BY DEF Structure, Custody
<1>1. PICK s \in {"q_sync", "r_chmod"} :
        /\ EndCopy(p, s)
        /\ s = "q_sync" => w[p].pc = "q_copying"
        /\ s = "r_chmod" => w[p].pc = "r_copying"
  BY DEF QCopyEnd, RCopyEnd
<1>2. /\ w[p].src \in Inodes /\ w[p].dst \in Inodes
      /\ w[p].dst \in unsynced
      /\ \A q \in Workers \ {p} : w[q].pc \in OwnCopyPC =>
           w[q].src \in Inodes /\ w[q].dst \in Inodes /\ w[q].dst # w[p].dst
  BY <1>0, <1>1 DEF OwnCopy, Structure, Allocated
<1>3. PICK x \in CopyResults(p) : data' = [data EXCEPT ![w[p].dst] = x]
  BY <1>1 DEF EndCopy
<1>4. /\ w'[p].pc = s /\ w'[p].path = w[p].path /\ w'[p].buf = w[p].buf
      /\ w'[p].src = w[p].src /\ w'[p].dst = w[p].dst
      /\ \A q \in Workers \ {p} : w'[q] = w[q]
  BY <1>0, <1>1, GotoEffect DEF EndCopy
<1>5. /\ UNCHANGED <<disk, vault, unsynced, custody>>
      /\ data'[w[p].dst] = x
      /\ \A y \in Inodes : y # w[p].dst => data'[y] = data[y]
  BY <1>0, <1>1, <1>2, <1>3 DEF EndCopy, TypeOK
<1>6. ContentPreserved'
  BY <1>0, <1>2, <1>5, KeepContent DEF Linked
<1>7. s = "q_sync" /\ data[w[p].src] = w[p].buf => x = w[p].buf
  BY <1>0, <1>1 DEF CopyResults, WrittenByOther, OwnCopy
<1>8. FaithfulCopy'
  BY <1>0, <1>1, <1>2, <1>4, <1>5, <1>7 DEF FaithfulCopy
<1> QED BY <1>6, <1>8 DEF Custody

LEMMA QSyncCustody ==
  ASSUME Structure, Custody, NEW p \in Workers, QSync(p)
  PROVE  Custody'
<1> USE DEF At, PC, QuarantinePC, OwnCopyPC
<1>0. TypeOK /\ CallIds /\ OwnFile /\ OneName /\ FaithfulCopy /\ ContentPreserved
  BY DEF Structure, Custody
<1>1. /\ w[p].pc = "q_sync" /\ unsynced' = unsynced \ {w[p].dst}
      /\ UNCHANGED <<disk, vault, data, custody>>
  BY DEF QSync
<1>2. /\ w'[p].pc = "q_remove" /\ w'[p].path = w[p].path /\ w'[p].buf = w[p].buf
      /\ w'[p].src = w[p].src /\ w'[p].dst = w[p].dst
      /\ \A q \in Workers \ {p} : w'[q] = w[q]
  BY <1>0, GotoEffect DEF QSync
<1>3. w[p].dst = vault[w[p].id] /\ w[p].id \in Ids
  BY <1>0, <1>1, QuarantineIds DEF OwnFile
<1>4. \A t \in Paths : disk[t] # None => disk[t] # w[p].dst
  BY <1>0, <1>3 DEF OneName
<1>5. ContentPreserved'
  BY <1>0, <1>1, KeepContent DEF Linked
<1>6. FaithfulCopy'
  BY <1>0, <1>1, <1>2, <1>4 DEF FaithfulCopy, CallIds
<1> QED BY <1>5, <1>6 DEF Custody

\* What is removed is the durable source of a durable copy, or a file that
\* keeps no content.
LEMMA QRemoveCustody ==
  ASSUME Structure, Custody, NEW p \in Workers, QRemove(p)
  PROVE  Custody'
<1> USE DEF At, PC, QuarantinePC, OwnCopyPC
<1>0. TypeOK /\ CallIds /\ OwnFile /\ FaithfulCopy /\ ContentPreserved
  BY DEF Structure, Custody
<1> DEFINE i == disk[w[p].path]
<1>1. /\ w[p].pc = "q_remove" /\ w[p].path \in Paths /\ i # None
      /\ UNCHANGED <<vault, data, unsynced, custody>>
  BY <1>0, QuarantineIds DEF QRemove
<1>2. /\ w'[p].pc = "q_chmod" /\ \A q \in Workers \ {p} : w'[q] = w[q]
  BY <1>0, GotoEffect DEF QRemove
<1>3. /\ disk'[w[p].path] = None
      /\ \A t \in Paths : t # w[p].path => disk'[t] = disk[t]
  BY <1>0, <1>1 DEF QRemove, TypeOK
<1>4. /\ w[p].dst \in Inodes \ unsynced /\ w[p].dst \in Linked'
      /\ i \notin unsynced => data[w[p].dst] = data[i]
  <2>1. w[p].dst \in Inodes
    BY <1>1 DEF Structure, Allocated
  <2>2. w[p].dst = vault[w[p].id] /\ w[p].id \in Ids
    BY <1>0, <1>1, QuarantineIds DEF OwnFile
  <2>3. w[p].dst \in Linked'
    BY <1>1, <2>2 DEF Linked
  <2> QED BY <1>0, <1>1, <2>1, <2>3 DEF FaithfulCopy
<1>5. \A x \in Linked : x = i \/ x \in Linked'
  BY <1>1, <1>3 DEF Linked
<1> HIDE DEF i
<1>6. ContentPreserved'
  BY <1>0, <1>1, <1>4, <1>5, KeepContent
<1>7. FaithfulCopy'
  BY <1>0, <1>1, <1>2, <1>3 DEF FaithfulCopy, CallIds
<1> QED BY <1>6, <1>7 DEF Custody

\* What a restore truncates has been released.
LEMMA RCopyBeginCustody ==
  ASSUME Structure, Custody, NEW p \in Workers, RCopyBegin(p)
  PROVE  Custody'
<1> USE QuarantineAssumption DEF At, PC, RestorePC, QuarantinePC, OwnCopyPC
<1>0. TypeOK /\ CallIds /\ OwnFile /\ FaithfulCopy /\ ContentPreserved
  BY DEF Structure, Custody
<1> DEFINE d == disk[w[p].path]
           i == vault[w[p].id]
<1>1. /\ w[p].path \in Paths /\ i # None /\ i \in Inodes
      /\ Release(ContentOf(d)) /\ vault' = vault
  BY <1>0, KnownInodes DEF RCopyBegin, CallIds
<1>2. PICK j \in Inodes :
        /\ OpenCopy(p, "r_copying", i, j)
        /\ disk' = [disk EXCEPT ![w[p].path] = j]
        /\ \A m \in Ids : vault[m] # j
        /\ \A t \in Paths : t # w[p].path => disk[t] # j
  BY RestoreTarget
<1>3. /\ w'[p].pc = "r_copying" /\ \A q \in Workers \ {p} : w'[q] = w[q]
  BY <1>0, <1>1, <1>2, OpenEffect
<1>4. /\ disk'[w[p].path] = j
      /\ \A t \in Paths : t # w[p].path => disk'[t] = disk[t]
      /\ \A x \in Inodes : x # j => data'[x] = data[x]
      /\ unsynced' = unsynced \cup {j}
  BY <1>0, <1>1, <1>2 DEF OpenCopy, TypeOK
<1>5. \A x \in Inodes \cap Linked : x \in {d, j} \/ x \in Linked'
  BY <1>1, <1>2, <1>4 DEF Linked
<1>6. d # j => j \notin Linked
  BY <1>1, <1>2 DEF Linked
<1>7. \A c \in Contents : custody'[c] = "owned" =>
        custody[c] = "owned" /\ c # ContentOf(d)
  BY <1>1 DEF Release
<1>8. d \in Inodes => ContentOf(d) = data[d]
  BY DEF ContentOf
<1>9. \A q \in Workers : w[q].pc \in OwnCopyPC =>
        w[q].path \in Paths /\ w[q].src \in Inodes /\ w[q].dst \in Inodes /\ w[q].dst # j
  BY <1>0, <1>2 DEF OwnFile, CallIds, Structure, Allocated
<1> HIDE DEF d, i
<1>10. ContentPreserved'
  BY <1>0, <1>4, <1>5, <1>6, <1>7, <1>8, KeepContent
<1>11. FaithfulCopy'
  BY <1>0, <1>1, <1>2, <1>3, <1>4, <1>9 DEF FaithfulCopy
<1> QED BY <1>10, <1>11 DEF Custody

\* What is removed from the vault has been released.
LEMMA VaultRemoveCustody ==
  ASSUME Structure, Custody, NEW p \in Workers, RRemove(p) \/ DRemove(p)
  PROVE  Custody'
<1> USE DEF At, PC, RestorePC, DeletePC, QuarantinePC, OwnCopyPC
<1>0. TypeOK /\ CallIds /\ FaithfulCopy /\ ContentPreserved
  BY DEF Structure, Custody
<1> DEFINE k == w[p].id
<1>1. PICK s \in {"r_update", "d_lookup"} : VaultRemove(p, s) /\ k \in Ids
  BY <1>0 DEF RRemove, DRemove, CallIds
<1>2. /\ w'[p].pc \in {"r_update", "d_lookup"}
      /\ \A q \in Workers \ {p} : w'[q] = w[q]
  BY <1>0, <1>1, GotoEffect DEF VaultRemove
<1>3. /\ \A m \in Ids : m # k => vault'[m] = vault[m]
      /\ \A c \in Contents : custody'[c] = "owned" =>
           custody[c] = "owned" /\ c # data[vault[k]]
      /\ UNCHANGED <<disk, data, unsynced>>
  BY <1>0, <1>1 DEF VaultRemove, Release, TypeOK
<1> HIDE DEF k
<1>4. \A x \in Linked : x = vault[k] \/ x \in Linked'
  BY <1>1, <1>3 DEF Linked
<1>5. ContentPreserved'
  BY <1>0, <1>3, <1>4, KeepContent
<1>6. FaithfulCopy'
  BY <1>0, <1>2, <1>3 DEF FaithfulCopy
<1> QED BY <1>5, <1>6 DEF Custody

\* A quiet writer does not write under a call that quarantines the file.
LEMMA SaveCustody ==
  ASSUME Structure, Custody, QuietWriters,
         NEW t \in Paths, NEW c \in Contents, Save(t, c)
  PROVE  Custody'
<1> USE QuarantineAssumption DEF PC, QuarantinePC, CopyPC, OwnCopyPC
<1>0. TypeOK /\ CallIds /\ FaithfulCopy /\ ContentPreserved
  BY DEF Structure, Custody
<1> DEFINE j == NewInode
<1>1. /\ j \in Inodes /\ data[j] = None /\ j \notin unsynced
      /\ \A u \in Paths : disk[u] # j
      /\ \A m \in Ids : vault[m] # j
      /\ \A q \in Workers : w[q].pc \in OwnCopyPC => w[q].src # j /\ w[q].dst # j
  BY NewInodeIsNew DEF Save
<1>2. /\ disk'[t] = j /\ \A u \in Paths : u # t => disk'[u] = disk[u]
      /\ data'[j] = c /\ \A x \in Inodes : x # j => data'[x] = data[x]
      /\ UNCHANGED <<vault, unsynced, w>>
  BY <1>0, <1>1 DEF Save, TypeOK
<1>3. \A k \in Contents : custody'[k] = "owned" /\ k # c =>
        custody[k] = "owned" /\ k # ContentOf(disk[t])
  BY <1>0 DEF Save, TypeOK
<1>4. \A q \in Workers : w[q].pc \in OwnCopyPC =>
        /\ w[q].path \in Paths \ {t}
        /\ w[q].src \in Inodes /\ w[q].dst \in Inodes
  BY <1>0 DEF Save, Moving, CallIds, Structure, Allocated
<1> HIDE DEF j
<1>5. j \in Linked' /\ \A x \in Linked : x = disk[t] \/ x \in Linked'
  BY <1>2 DEF Linked
<1>6. j \notin Linked
  BY <1>1 DEF Linked
<1>7. ContentPreserved'
  <2>1. SUFFICES ASSUME NEW k \in Contents, custody'[k] = "owned"
                 PROVE  \E x \in (Inodes \cap Linked') \ unsynced' : data'[x] = k
    BY DEF ContentPreserved
  <2>2. CASE k = c
    BY <1>1, <1>2, <1>5, <2>2
  <2>3. CASE k # c
    <3>1. PICK x \in (Inodes \cap Linked) \ unsynced : data[x] = k
      BY <1>0, <1>3, <2>1, <2>3 DEF ContentPreserved
    <3>2. x # disk[t] /\ x # j
      BY <1>3, <1>6, <2>1, <2>3, <3>1 DEF ContentOf
    <3> QED BY <1>2, <1>5, <3>1, <3>2
  <2> QED BY <2>2, <2>3
<1>8. FaithfulCopy'
  BY <1>0, <1>1, <1>2, <1>4 DEF FaithfulCopy
<1> QED BY <1>7, <1>8 DEF Custody

LEMMA PowerLossCustody ==
  ASSUME Structure, Custody, PowerLoss
  PROVE  Custody'
<1>1. PICK lost \in SUBSET unsynced :
        data' = [i \in Inodes |-> IF i \in lost THEN Partial ELSE data[i]]
  BY DEF PowerLoss
<1>2. UNCHANGED <<disk, vault, custody>> /\ unsynced' = {}
  BY DEF PowerLoss
<1>3. ContentPreserved'
  BY <1>1, <1>2, KeepContent DEF Custody, Linked
<1>4. \A p \in Workers : w'[p].pc = "idle"
  BY DEF PowerLoss, Idle
<1>5. FaithfulCopy'
  BY <1>4 DEF FaithfulCopy, OwnCopyPC
<1> QED BY <1>3, <1>5 DEF Custody

LEMMA CustodyNext ==
  QuietWriters => (Structure /\ Custody /\ [Next]_vars => Custody')
<1> SUFFICES ASSUME QuietWriters, Structure, Custody, [Next]_vars
             PROVE  Custody'
  OBVIOUS
<1>1. CASE UNCHANGED vars
  BY <1>1 DEF vars, Custody, FaithfulCopy, ContentPreserved, Linked
<1>2. ASSUME NEW p \in Workers, Step(p)
      PROVE  Custody'
  BY <1>2, CallCustody, QRenameCustody, QCopyBeginCustody, EndCopyCustody,
     QSyncCustody, QRemoveCustody, RCopyBeginCustody, VaultRemoveCustody DEF Step
<1>3. ASSUME NEW p \in Workers, Start(p) \/ Crash(p)
      PROVE  Custody'
  BY <1>3, StartCustody
<1>4. ASSUME NEW t \in Paths, NEW c \in Contents, Save(t, c)
      PROVE  Custody'
  BY <1>4, SaveCustody
<1> QED BY <1>1, <1>2, <1>3, <1>4, PowerLossCustody DEF Next

\* While nobody replaces a file during its quarantine, no file that its owner
\* and the operators still hold is lost, whatever fails, is killed or loses
\* power, and whatever other calls do meanwhile.
THEOREM NothingIsLost == QuietWriters => (Spec => []ContentPreserved)
<1> SUFFICES ASSUME QuietWriters PROVE Spec => []ContentPreserved
  OBVIOUS
<1>1. Init => Custody
  <2> SUFFICES ASSUME Init PROVE Custody
    OBVIOUS
  <2>1. \A p \in Workers : w[p].pc = "idle"
    BY DEF Init, Idle
  <2>2. \A c \in Contents : custody[c] = "new"
    BY DEF Init
  <2> QED BY <2>1, <2>2 DEF Custody, FaithfulCopy, ContentPreserved, OwnCopyPC
<1>2. Structure /\ Custody /\ [Next]_vars => Custody'
  BY CustodyNext
<1>3. Custody => ContentPreserved
  BY DEF Custody
<1> QED BY <1>1, <1>2, <1>3, StructureHolds, PTL DEF Spec
=============================================================================
