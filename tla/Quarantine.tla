---------------------------- MODULE Quarantine ----------------------------
(***************************************************************************)
(* The quarantine of nkosi-response: quarantine_file, restore_file and      *)
(* delete_from_quarantine of ResponseEngine, the CLI commands that call     *)
(* them (restore, delete, purge) and the QuarantineRepository rows they     *)
(* read and write.                                                         *)
(*                                                                         *)
(* A worker is whatever runs one such call at a time: the agent's event     *)
(* task, its simulator task, a CLI process.  Nothing in the code excludes   *)
(* two of them: the file system and the database are updated in separate    *)
(* system calls, and each of those is one action here.  Workers crash       *)
(* between any two of them and the machine may lose power.                  *)
(*                                                                         *)
(* Files are inodes, so that an open file that is renamed or unlinked       *)
(* while it is being copied behaves as it does on Linux.  An inode is        *)
(* never reused.  Contents are opaque; Partial stands for every content     *)
(* that is not the whole of one of them.                                    *)
(***************************************************************************)
EXTENDS Naturals, FiniteSets

CONSTANTS
  Paths,         \* original paths
  Ids,           \* the uuids quarantine_file draws; an id names its vault file
  Inodes,        \* bound on the files ever created
  Contents,      \* distinct whole file contents
  Workers,       \* concurrent callers
  None,          \* no inode, no path, no id
  Partial,       \* the content of a file that is not completely written
  MaxOutages,    \* bound on power losses
  QuietWriters   \* TRUE: nobody replaces a file while it is being quarantined

ASSUME QuarantineAssumption ==
  /\ None \notin Paths \cup Ids \cup Inodes \cup Contents
  /\ Partial \notin Contents \cup {None}
  /\ MaxOutages \in Nat
  /\ QuietWriters \in BOOLEAN

VARIABLES
  disk,      \* original path -> inode
  vault,     \* id -> inode of the file <id>_<name> of the quarantine directory
  data,      \* inode -> content; None: not created yet
  locked,    \* inodes with mode 000
  unsynced,  \* inodes whose data may be only in the page cache
  row,       \* id -> row of quarantine_items
  w,         \* worker -> the call it is executing
  custody,   \* history: content -> "new" | "owned" | "released"
  stale,     \* history: ids whose remover never updated the row
  outages    \* power losses so far

vars == <<disk, vault, data, locked, unsynced, row, w, custody, stale, outages>>
files == <<disk, vault, data, locked, unsynced>>

Status == {"Quarantined", "Restored", "Deleted"}
Row == [path : Paths, status : Status]
NoRow == [path |-> None, status |-> "None"]

QuarantinePC == {"q_move", "q_copy", "q_copying", "q_sync", "q_remove",
                 "q_chmod", "q_insert"}
RestorePC == {"r_lookup", "r_copy", "r_copying", "r_chmod", "r_remove",
              "r_update"}
DeletePC == {"d_remove", "d_lookup", "d_update"}
\* The file is gone from the vault and the row still has to be updated.
ClosingPC == {"r_update", "d_lookup", "d_update"}
PC == {"idle", "purge"} \cup QuarantinePC \cup RestorePC \cup DeletePC

Call == [pc : PC, path : Paths \cup {None}, id : Ids \cup {None},
         src : Inodes \cup {None}, dst : Inodes \cup {None},
         buf : Contents \cup {Partial, None},
         purging : BOOLEAN, todo : SUBSET Ids]
Idle == [pc |-> "idle", path |-> None, id |-> None, src |-> None,
         dst |-> None, buf |-> None, purging |-> FALSE, todo |-> {}]

TypeOK ==
  /\ disk \in [Paths -> Inodes \cup {None}]
  /\ vault \in [Ids -> Inodes \cup {None}]
  /\ data \in [Inodes -> Contents \cup {Partial, None}]
  /\ locked \in SUBSET Inodes
  /\ unsynced \in SUBSET Inodes
  /\ row \in [Ids -> Row \cup {NoRow}]
  /\ w \in [Workers -> Call]
  /\ custody \in [Contents -> {"new", "owned", "released"}]
  /\ stale \in SUBSET Ids
  /\ outages \in 0..MaxOutages

---------------------------------------------------------------------------
Fresh == {i \in Inodes : data[i] = None}
NewInode == CHOOSE i \in Fresh : TRUE
\* get_active: the rows whose status is "Quarantined".
Active == {id \in Ids : row[id].status = "Quarantined"}
\* A v4 uuid is new: no file, no row and no other call has it.
FreeIds == {id \in Ids : /\ vault[id] = None
                         /\ row[id] = NoRow
                         /\ \A p \in Workers : w[p].id # id}
NewId == CHOOSE id \in FreeIds : TRUE
\* The file at path t is being quarantined.
Moving(t) == \E p \in Workers : w[p].pc \in QuarantinePC /\ w[p].path = t
\* Another call has inode i open for writing.
WrittenByOther(p, i) ==
  \E q \in Workers \ {p} : w[q].pc \in {"q_copying", "r_copying"} /\ w[q].dst = i

Init ==
  /\ disk = [t \in Paths |-> None]
  /\ vault = [id \in Ids |-> None]
  /\ data = [i \in Inodes |-> None]
  /\ locked = {}
  /\ unsynced = {}
  /\ row = [id \in Ids |-> NoRow]
  /\ w = [p \in Workers |-> Idle]
  /\ custody = [c \in Contents |-> "new"]
  /\ stale = {}
  /\ outages = 0

At(p, s) == w[p].pc = s
Goto(p, s) == w' = [w EXCEPT ![p].pc = s]
\* A call returns: to the prompt, or to the loop of the purge it belongs to.
Returned(call) ==
  IF call.purging
  THEN [Idle EXCEPT !.pc = "purge", !.purging = TRUE, !.todo = call.todo]
  ELSE Idle
Return(p) == w' = [w EXCEPT ![p] = Returned(@)]
\* The owner, an operator or a restore lets go of content x (if it is whole).
Release(x) == custody' = [c \in Contents |-> IF c = x THEN "released" ELSE custody[c]]
ContentOf(i) == IF i = None THEN None ELSE data[i]

\* fs::copy opens its source i and creates or truncates its destination j,
\* which gets the mode of the source.
OpenCopy(p, next, i, j) ==
  /\ data' = [data EXCEPT ![j] = Partial]
  /\ unsynced' = unsynced \cup {j}
  /\ locked' = IF i \in locked THEN locked \cup {j} ELSE locked \ {j}
  /\ w' = [w EXCEPT ![p].pc = next, ![p].src = i, ![p].dst = j, ![p].buf = data[i]]

\* What a copy leaves in its destination.  A source that was written, or a
\* destination that another call writes, in the meantime may mix contents.
CopyResults(p) ==
  IF data[w[p].src] = w[p].buf /\ ~WrittenByOther(p, w[p].dst)
  THEN {w[p].buf}
  ELSE {w[p].buf, data[w[p].src], Partial}

EndCopy(p, next) ==
  /\ \E x \in CopyResults(p) : data' = [data EXCEPT ![w[p].dst] = x]
  /\ Goto(p, next)
  /\ UNCHANGED <<disk, vault, locked, unsynced, row, custody, stale, outages>>

---------------------------------------------------------------------------
(* The environment: a program writes a new file at a path, or replaces the *)
(* one that is there (write aside and rename over).                        *)
Save(t, c) ==
  /\ custody[c] = "new"
  /\ QuietWriters => ~Moving(t)
  /\ Fresh # {}
  /\ disk' = [disk EXCEPT ![t] = NewInode]
  /\ data' = [data EXCEPT ![NewInode] = c]
  /\ custody' = [k \in Contents |->
                   IF k = c THEN "owned"
                   ELSE IF k = ContentOf(disk[t]) THEN "released" ELSE custody[k]]
  /\ UNCHANGED <<vault, locked, unsynced, row, w, stale, outages>>

---------------------------------------------------------------------------
(* quarantine_file                                                         *)

\* The file exists: draw the uuid of its name in the quarantine directory.
StartQuarantine(p, t) ==
  /\ At(p, "idle")
  /\ disk[t] # None
  /\ FreeIds # {}
  /\ w' = [w EXCEPT ![p] = [Idle EXCEPT !.pc = "q_move", !.path = t, !.id = NewId]]
  /\ UNCHANGED <<files, row, custody, stale, outages>>

\* rename(source, dest) in one system call.
QRename(p) ==
  /\ At(p, "q_move")
  /\ disk[w[p].path] # None
  /\ vault' = [vault EXCEPT ![w[p].id] = disk[w[p].path]]
  /\ disk' = [disk EXCEPT ![w[p].path] = None]
  /\ Goto(p, "q_chmod")
  /\ UNCHANGED <<data, locked, unsynced, row, custody, stale, outages>>

\* The rename is refused (another file system, the file vanished): copy.
QRenameRefused(p) ==
  /\ At(p, "q_move")
  /\ Goto(p, "q_copy")
  /\ UNCHANGED <<files, row, custody, stale, outages>>

\* fs::copy(source, &dest) opens the source and creates dest ...
QCopyBegin(p) ==
  /\ At(p, "q_copy")
  /\ disk[w[p].path] # None
  /\ Fresh # {}
  /\ vault' = [vault EXCEPT ![w[p].id] = NewInode]
  /\ OpenCopy(p, "q_copying", disk[w[p].path], NewInode)
  /\ UNCHANGED <<disk, row, custody, stale, outages>>

QCopyEnd(p) == At(p, "q_copying") /\ EndCopy(p, "q_sync")

\* Mutant of QSync: the source is removed before the copy is on disk.
QSyncSkipped(p) ==
  /\ At(p, "q_sync")
  /\ Goto(p, "q_remove")
  /\ UNCHANGED <<files, row, custody, stale, outages>>

\* File::open(&dest)?.sync_all()
QSync(p) ==
  /\ At(p, "q_sync")
  /\ unsynced' = unsynced \ {w[p].dst}
  /\ Goto(p, "q_remove")
  /\ UNCHANGED <<disk, vault, data, locked, row, custody, stale, outages>>

\* remove_file(source) removes whatever file has that path now.
QRemove(p) ==
  /\ At(p, "q_remove")
  /\ disk[w[p].path] # None
  /\ disk' = [disk EXCEPT ![w[p].path] = None]
  /\ Goto(p, "q_chmod")
  /\ UNCHANGED <<vault, data, locked, unsynced, row, custody, stale, outages>>

\* Mutant of QChmod: the permissions are left as they were.
QChmodSkipped(p) ==
  /\ At(p, "q_chmod")
  /\ Goto(p, "q_insert")
  /\ UNCHANGED <<files, row, custody, stale, outages>>

\* Mutant of QChmod: the mode is changed at the original path.
QChmodSource(p) ==
  /\ At(p, "q_chmod")
  /\ locked' = locked \cup {disk[w[p].path]}
  /\ Goto(p, "q_insert")
  /\ UNCHANGED <<disk, vault, data, unsynced, row, custody, stale, outages>>

\* set_permissions(dest, 000)
QChmod(p) ==
  /\ At(p, "q_chmod")
  /\ locked' = locked \cup {vault[w[p].id]}
  /\ Goto(p, "q_insert")
  /\ UNCHANGED <<disk, vault, data, unsynced, row, custody, stale, outages>>

QInsert(p) ==
  /\ At(p, "q_insert")
  /\ row' = [row EXCEPT ![w[p].id] = [path |-> w[p].path, status |-> "Quarantined"]]
  /\ Return(p)
  /\ UNCHANGED <<files, custody, stale, outages>>

---------------------------------------------------------------------------
(* nkosi quarantine restore <id>: get_by_id, then restore_file             *)

\* The row exists, whatever its status, and so does the vault file.
StartRestore(p, id) ==
  /\ At(p, "idle")
  /\ row[id] # NoRow
  /\ vault[id] # None
  /\ w' = [w EXCEPT ![p] = [Idle EXCEPT !.pc = "r_lookup", !.id = id]]
  /\ UNCHANGED <<files, row, custody, stale, outages>>

\* get_active finds the item by its quarantine path; otherwise the restore
\* is refused (Fail).
RLookup(p) ==
  /\ At(p, "r_lookup")
  /\ w[p].id \in Active
  /\ w' = [w EXCEPT ![p].pc = "r_copy", ![p].path = row[w[p].id].path]
  /\ UNCHANGED <<files, row, custody, stale, outages>>

\* fs::copy(source, &dest): dest is created, or truncated if it exists.
RCopyBegin(p) ==
  /\ At(p, "r_copy")
  /\ vault[w[p].id] # None
  /\ LET d == disk[w[p].path]
         j == IF d = None THEN NewInode ELSE d
     IN /\ d = None => Fresh # {}
        /\ disk' = [disk EXCEPT ![w[p].path] = j]
        /\ OpenCopy(p, "r_copying", vault[w[p].id], j)
        /\ Release(ContentOf(d))
  /\ UNCHANGED <<vault, row, stale, outages>>

RCopyEnd(p) == At(p, "r_copying") /\ EndCopy(p, "r_chmod")

\* Mutant of RChmod: the file in the vault is not removed.
RChmodKeepsSource(p) ==
  /\ At(p, "r_chmod")
  /\ disk[w[p].path] # None
  /\ locked' = locked \ {disk[w[p].path]}
  /\ Goto(p, "r_update")
  /\ UNCHANGED <<disk, vault, data, unsynced, row, custody, stale, outages>>

\* set_permissions(dest, 644), by path
RChmod(p) ==
  /\ At(p, "r_chmod")
  /\ disk[w[p].path] # None
  /\ locked' = locked \ {disk[w[p].path]}
  /\ Goto(p, "r_remove")
  /\ UNCHANGED <<disk, vault, data, unsynced, row, custody, stale, outages>>

\* remove_file on the vault file: exactly one of the calls that race for it
\* succeeds, and that one goes on to update the row.
VaultRemove(p, next) ==
  /\ vault[w[p].id] # None
  /\ vault' = [vault EXCEPT ![w[p].id] = None]
  /\ Release(data[vault[w[p].id]])
  /\ Goto(p, next)
  /\ UNCHANGED <<disk, data, locked, unsynced, row, stale, outages>>

RRemove(p) == At(p, "r_remove") /\ VaultRemove(p, "r_update")

UpdateStatus(p, s) ==
  /\ row' = [row EXCEPT ![w[p].id].status = s]
  /\ Return(p)
  /\ UNCHANGED <<files, custody, stale, outages>>

RUpdate(p) == At(p, "r_update") /\ UpdateStatus(p, "Restored")

---------------------------------------------------------------------------
(* nkosi quarantine delete <id> and purge: delete_from_quarantine          *)

StartDelete(p, id) ==
  /\ At(p, "idle")
  /\ row[id] # NoRow
  /\ vault[id] # None
  /\ w' = [w EXCEPT ![p] = [Idle EXCEPT !.pc = "d_remove", !.id = id]]
  /\ UNCHANGED <<files, row, custody, stale, outages>>

\* Mutant of DRemove: a file that another call has removed is no error, and
\* the row is updated without looking whether it is still active.
DRemoveUnchecked(p) ==
  /\ At(p, "d_remove")
  /\ vault' = [vault EXCEPT ![w[p].id] = None]
  /\ Release(ContentOf(vault[w[p].id]))
  /\ Goto(p, "d_update")
  /\ UNCHANGED <<disk, data, locked, unsynced, row, stale, outages>>

DRemove(p) == At(p, "d_remove") /\ VaultRemove(p, "d_lookup")

\* Mutant of DLookup: the removed item is looked for among the inactive ones.
DLookupForgets(p) ==
  /\ At(p, "d_lookup")
  /\ IF w[p].id \in Active THEN Return(p) ELSE Goto(p, "d_update")
  /\ UNCHANGED <<files, row, custody, stale, outages>>

\* get_active again: the row is updated only if it is still active.
DLookup(p) ==
  /\ At(p, "d_lookup")
  /\ IF w[p].id \in Active THEN Goto(p, "d_update") ELSE Return(p)
  /\ UNCHANGED <<files, row, custody, stale, outages>>

DUpdate(p) == At(p, "d_update") /\ UpdateStatus(p, "Deleted")

\* purge --confirm takes the list of active items once ...
StartPurge(p) ==
  /\ At(p, "idle")
  /\ Active # {}
  /\ w' = [w EXCEPT ![p] = [Idle EXCEPT !.pc = "purge", !.purging = TRUE,
                                        !.todo = Active]]
  /\ UNCHANGED <<files, row, custody, stale, outages>>

\* ... deletes them one by one (a file that is gone is skipped) ...
PurgeNext(p) ==
  /\ At(p, "purge")
  /\ \E id \in w[p].todo :
       w' = [w EXCEPT ![p].todo = @ \ {id},
                      ![p].id = IF vault[id] # None THEN id ELSE None,
                      ![p].pc = IF vault[id] # None THEN "d_remove" ELSE "purge"]
  /\ UNCHANGED <<files, row, custody, stale, outages>>

\* ... and ends.
PurgeDone(p) ==
  /\ At(p, "purge")
  /\ w[p].todo = {}
  /\ w' = [w EXCEPT ![p] = Idle]
  /\ UNCHANGED <<files, row, custody, stale, outages>>

---------------------------------------------------------------------------
(* Failures                                                                *)

Abandoned(ps) == {w[p].id : p \in {q \in ps : w[q].pc \in ClosingPC}}

\* A system call or a database statement fails: a missing file, a full disk,
\* a locked database.  Every one of them ends the call with `?`, except the
\* insert, whose error is only logged: the call then returns Ok.
Fail(p) ==
  /\ w[p].pc \notin {"idle", "purge"}
  /\ Return(p)
  /\ stale' = stale \cup Abandoned({p})
  /\ UNCHANGED <<files, row, custody, outages>>

\* The process of the worker is killed.
Crash(p) ==
  /\ ~At(p, "idle")
  /\ w' = [w EXCEPT ![p] = Idle]
  /\ stale' = stale \cup Abandoned({p})
  /\ UNCHANGED <<files, row, custody, outages>>

\* The machine stops: every call is lost, and any data not yet synced.
PowerLoss ==
  /\ outages < MaxOutages
  /\ outages' = outages + 1
  /\ w' = [p \in Workers |-> Idle]
  /\ stale' = stale \cup Abandoned(Workers)
  /\ \E lost \in SUBSET unsynced :
       data' = [i \in Inodes |-> IF i \in lost THEN Partial ELSE data[i]]
  /\ unsynced' = {}
  /\ UNCHANGED <<disk, vault, locked, row, custody>>

---------------------------------------------------------------------------
\* What a running call does next.
Step(p) ==
  \/ QRename(p) \/ QRenameRefused(p) \/ QCopyBegin(p) \/ QCopyEnd(p)
  \/ QSync(p) \/ QRemove(p) \/ QChmod(p) \/ QInsert(p)
  \/ RLookup(p) \/ RCopyBegin(p) \/ RCopyEnd(p) \/ RChmod(p) \/ RRemove(p)
  \/ RUpdate(p)
  \/ DRemove(p) \/ DLookup(p) \/ DUpdate(p)
  \/ PurgeNext(p) \/ PurgeDone(p)
  \/ Fail(p)

Start(p) ==
  \/ \E t \in Paths : StartQuarantine(p, t)
  \/ \E id \in Ids : StartRestore(p, id) \/ StartDelete(p, id)
  \/ StartPurge(p)

Next ==
  \/ \E t \in Paths, c \in Contents : Save(t, c)
  \/ \E p \in Workers : Start(p) \/ Step(p) \/ Crash(p)
  \/ PowerLoss

Spec == Init /\ [][Next]_vars

\* A call, once started, runs on: it is sequential code that waits for
\* nobody.  Nobody is obliged to start one, and nothing has to fail.
FairSpec == Spec /\ \A p \in Workers : WF_vars(Step(p))

---------------------------------------------------------------------------
(* Properties                                                              *)

\* The files that a path or the quarantine directory leads to.
Linked == {disk[t] : t \in Paths} \cup {vault[id] : id \in Ids}

\* A file that its owner has not replaced, and that no operator has restored
\* over, restored or deleted, is whole and durable at its path or in the
\* vault: quarantine_file loses nothing, at whatever step it fails, is killed
\* or loses power, and whatever other calls do meanwhile.
ContentPreserved ==
  \A c \in Contents :
    custody[c] = "owned" => \E i \in (Inodes \cap Linked) \ unsynced : data[i] = c

\* What a row says of a file is true.  A row that is closed has no vault file
\* behind it, and an active row whose file is gone belongs to a call that is
\* about to close it, or that was lost on the way.
RecordTruth ==
  \A id \in Ids :
    /\ row[id].status \in {"Restored", "Deleted"} => vault[id] = None
    /\ id \in Active /\ vault[id] = None =>
         id \in stale \/ \E p \in Workers : w[p].pc \in ClosingPC /\ w[p].id = id

\* Whatever a row lists in the vault has lost its permissions, although a
\* restore gives permissions back to the path the file came from.
RecordedLocked ==
  \A id \in Ids : row[id] # NoRow /\ vault[id] # None => vault[id] \in locked

\* Where an item is in its life, given its row and its file.
PhaseOf(r, file) ==
  CASE r = NoRow /\ file = None -> "absent"
    [] r = NoRow /\ file # None -> "unrecorded"
    [] r.status = "Quarantined" /\ file # None -> "held"
    [] r.status = "Quarantined" /\ file = None -> "leaving"
    [] r.status = "Restored" -> "restored"
    [] r.status = "Deleted" -> "deleted"
Phase == [id \in Ids |-> PhaseOf(row[id], vault[id])]

Life == INSTANCE QuarantineLifecycle WITH phase <- Phase

\* The three calls, however they interleave, fail or are killed, take every
\* item through one life: no row for a file that is not there, no file that
\* comes back, no item that is both restored and deleted.
Lifecycle == Life!Spec

\* A file that has left the vault leaves the list of active items, unless the
\* call that removed it is lost before it updates the row.
RemovalIsRecorded ==
  \A id \in Ids :
    (id \in Active /\ vault[id] = None) ~> (id \notin Active \/ id \in stale)

\* README.md: "Safe isolation of malicious files with restore capability".
\* Every file that a finished call left in the vault is an active item, the
\* only kind that restore, delete and purge reach.
Restorable ==
  \A id \in Ids :
    vault[id] # None /\ (\A p \in Workers : w[p].id # id) => id \in Active
=============================================================================
