---------------------------- MODULE SessionStore ----------------------------
(***************************************************************************)
(* DurableSessionStore of src/core/session_store.cpp: save, one file       *)
(* system call per step, and load, for one session and one saver, with     *)
(* failing calls, process crashes, power failures and damaged files.       *)
(*                                                                         *)
(* A directory maps the store's three names to files.  "dir" is what       *)
(* processes see and "disk" what a power failure leaves.  A rename on      *)
(* Windows (MOVEFILE_WRITE_THROUGH) reaches the disk before it returns;    *)
(* elsewhere the directory is written back whenever the system likes, and  *)
(* nothing in save waits for it.  File contents are synced before use      *)
(* (FlushFileBuffers, fsync), so a file has one content.                   *)
(***************************************************************************)
EXTENDS Naturals

CONSTANTS Files,          \* inodes; enough for both directories
          NoFile,         \* a name that does not exist
          WriteThrough,   \* renames are durable when they return (Windows)
          MaxRevision,    \* bound: saves attempted
          MaxCrashes,     \* bound: process crashes and power failures
          MaxFailures,    \* bound: failing file system calls
          MaxDamage       \* bound: files damaged outside the store

ASSUME StoreAssumption ==
  /\ WriteThrough \in BOOLEAN
  /\ MaxRevision \in Nat /\ MaxCrashes \in Nat
  /\ MaxFailures \in Nat /\ MaxDamage \in Nat
  /\ NoFile \notin Files

VARIABLES
  dir,       \* names -> file, as processes see it
  disk,      \* names -> file, as on the disk
  content,   \* file -> revision it holds; 0 is torn or damaged
  pc,        \* save: "idle", "writing", "written", "validated" or "rotated"
  saving,    \* revision handed to the last save
  saved,     \* last revision a save returned true for
  before,    \* the one a save returned true for before that
  crashes, failures, damage   \* how much of each bound is used

vars == <<dir, disk, content, pc, saving, saved, before, crashes, failures, damage>>
bounds == <<crashes, failures, damage>>

Names == {"current", "pending", "previous"}
Revisions == 0 .. MaxRevision

(* parse_envelope: the revision a name holds, 0 when it is missing, torn   *)
(* or fails its integrity check.                                           *)
Holds(d, name) == IF d[name] = NoFile THEN 0 ELSE content[d[name]]

RecoveredWithoutPrevious(d) ==
  IF Holds(d, "current") # 0 THEN Holds(d, "current") ELSE Holds(d, "pending")
(* load: the first valid candidate in the order of the code.               *)
Recovered(d) ==
  CASE Holds(d, "current") # 0 -> Holds(d, "current")
    [] Holds(d, "current") = 0 /\ Holds(d, "pending") # 0 -> Holds(d, "pending")
    [] OTHER -> Holds(d, "previous")
-----------------------------------------------------------------------------
Init ==
  /\ dir = [n \in Names |-> NoFile]
  /\ disk = dir
  /\ content = [f \in Files |-> 0]
  /\ pc = "idle" /\ saving = 0 /\ saved = 0 /\ before = 0
  /\ crashes = 0 /\ failures = 0 /\ damage = 0

Unused == {f \in Files : \A n \in Names : dir[n] # f /\ disk[n] # f}

(* replace_file                                                            *)
Rename(from, to) ==
  /\ dir' = [dir EXCEPT ![to] = dir[from], ![from] = NoFile]
  /\ disk' = IF WriteThrough THEN dir' ELSE disk

(* write_pending opens: a left-over pending file is truncated in place.    *)
OpenPending ==
  /\ pc = "idle" /\ saving < MaxRevision
  /\ \E f \in IF dir["pending"] = NoFile THEN Unused ELSE {dir["pending"]} :
       /\ dir' = [dir EXCEPT !["pending"] = f]
       /\ content' = [content EXCEPT ![f] = 0]
  /\ saving' = saving + 1
  /\ pc' = "writing"
  /\ UNCHANGED <<disk, saved, before, bounds>>

(* write_pending writes, flushes and closes.  What make_envelope serialised *)
(* need not parse again: a session without a schema version, over a limit  *)
(* or with a value that is not a number does not.                          *)
WritePending ==
  /\ pc = "writing"
  /\ \E parses \in BOOLEAN :
       content' = [content EXCEPT ![dir["pending"]] = IF parses THEN saving ELSE 0]
  /\ pc' = "written"
  /\ UNCHANGED <<dir, disk, saving, saved, before, bounds>>

(* save reads the pending file back; one it cannot parse ends the save.    *)
ValidateNothing ==
  /\ pc = "written"
  /\ pc' = "validated"
  /\ UNCHANGED <<dir, disk, content, saving, saved, before, bounds>>
ValidatePending ==
  /\ pc = "written"
  /\ pc' = IF Holds(dir, "pending") # 0 THEN "validated" ELSE "idle"
  /\ UNCHANGED <<dir, disk, content, saving, saved, before, bounds>>

RotateNever ==
  /\ pc = "validated"
  /\ pc' = "rotated"
  /\ UNCHANGED <<dir, disk, content, saving, saved, before, bounds>>
RotateCurrent ==
  /\ pc = "validated"
  /\ \/ dir["current"] # NoFile /\ Rename("current", "previous")
     \/ dir["current"] = NoFile /\ UNCHANGED <<dir, disk>>
  /\ pc' = "rotated"
  /\ UNCHANGED <<content, saving, saved, before, bounds>>

InstallPending ==
  /\ pc = "rotated"
  /\ Rename("pending", "current")
  /\ saved' = saving /\ before' = saved
  /\ pc' = "idle"
  /\ UNCHANGED <<content, saving, bounds>>

(* Any file system call of save may fail: save returns false and leaves    *)
(* the files as they are.                                                  *)
CallFails ==
  /\ pc # "idle" /\ failures < MaxFailures
  /\ failures' = failures + 1
  /\ pc' = "idle"
  /\ UNCHANGED <<dir, disk, content, saving, saved, before, crashes, damage>>

-----------------------------------------------------------------------------
(* External: the file system and the machine.                              *)
WriteBack ==
  /\ disk' = dir
  /\ UNCHANGED <<dir, content, pc, saving, saved, before, bounds>>

ProcessCrash ==
  /\ pc # "idle" /\ crashes < MaxCrashes
  /\ crashes' = crashes + 1
  /\ pc' = "idle"
  /\ UNCHANGED <<dir, disk, content, saving, saved, before, failures, damage>>

PowerFailure ==
  /\ crashes < MaxCrashes
  /\ crashes' = crashes + 1
  /\ dir' = disk
  /\ pc' = "idle"
  /\ UNCHANGED <<disk, content, saving, saved, before, failures, damage>>

DamageFile(n) ==
  /\ damage < MaxDamage /\ Holds(dir, n) # 0
  /\ content' = [content EXCEPT ![dir[n]] = 0]
  /\ damage' = damage + 1
  /\ UNCHANGED <<dir, disk, pc, saving, saved, before, crashes, failures>>

Next ==
  \/ OpenPending \/ WritePending \/ ValidatePending
  \/ RotateCurrent \/ InstallPending \/ CallFails
  \/ WriteBack \/ ProcessCrash \/ PowerFailure
  \/ \E n \in Names : DamageFile(n)

Spec == Init /\ [][Next]_vars
-----------------------------------------------------------------------------
(* Types, and what save may assume of the directory between its steps.     *)
TypeOK ==
  /\ dir \in [Names -> Files \cup {NoFile}]
  /\ disk \in [Names -> Files \cup {NoFile}]
  /\ content \in [Files -> Revisions]
  /\ pc \in {"idle", "writing", "written", "validated", "rotated"}
  /\ saving \in Revisions /\ saved \in Revisions /\ before \in Revisions
  /\ crashes \in 0 .. MaxCrashes /\ failures \in 0 .. MaxFailures
  /\ damage \in 0 .. MaxDamage
  /\ pc # "idle" => dir["pending"] # NoFile
  /\ pc = "rotated" => dir["current"] = NoFile

(* Once save has returned true for a revision, a load gives that one or a  *)
(* later one: now, after a crash at this point, and after a power failure. *)
(* Files are undamaged; refuted where renames are not written through.     *)
SavedIsDurable ==
  damage = 0 => Recovered(dir) >= saved /\ Recovered(disk) >= saved

(* While nothing interrupts a save, one damaged file costs at most the last *)
(* saved revision: recovery "must return the intact previous revision"      *)
(* (durable_session_store_test).                                            *)
DamageCostsOneRevision ==
  crashes = 0 /\ failures = 0 /\ damage <= 1 => Recovered(dir) >= before

=============================================================================
