------------------------------- MODULE Preflight -------------------------------
(***************************************************************************)
(* The preflight command of the bridge program (main.cpp): it lists a      *)
(* project folder, fingerprints the list through one temporary file of the *)
(* machine, backs the folder up, copies its assets into an exchange folder *)
(* and writes five documents that describe what it did.                    *)
(*                                                                         *)
(* A run is one process.  Runs share the project, the temporary file and   *)
(* the output folder; the musician edits the project meanwhile, and a      *)
(* write may fail or the process end between any two of its steps.         *)
(* A fingerprint is modelled by what was hashed: nothing here depends on   *)
(* two contents having the same hash.                                      *)
(***************************************************************************)
EXTENDS Integers, FiniteSets

CONSTANTS Runs,       \* processes that run the command
          Kind,       \* file name -> "audio", "midi", "project" or "unknown"
          Contents,   \* what a file may hold
          None,       \* no file, no list, nothing written
          LastDocument,  \* 5: session, diagnostics, readiness, report and guide
          MaxEdits,   \* bound: changes the musician makes to the project
          MaxFaults   \* bound: failed writes and ended processes

ASSUME KindAssumption ==
    \A f \in DOMAIN Kind : Kind[f] \in {"audio", "midi", "project", "unknown"}
ASSUME NoneAssumption ==
    None \notin Contents \cup Runs /\ None # [f \in DOMAIN Kind |-> None]
ASSUME LastDocumentAssumption == LastDocument \in Nat \ {0}

VARIABLES source,   \* the project folder: file -> contents or None
          tmp,      \* the temporary file: None, or the list written in it
          backup,   \* Backup/<project> of the output: file -> contents
          exchange, \* Exchange of the output: asset -> contents
          docs,     \* document number -> the run that wrote it last
          run,      \* run -> what the process holds
          edits, faults,
          seen      \* run -> file -> what the project held while it ran

preVars == <<source, tmp, backup, exchange, docs, run, edits, faults, seen>>

Files   == DOMAIN Kind
Assets  == {f \in Files : Kind[f] \in {"audio", "midi"}}
Torn    == "torn"      \* a file whose writing stopped midway
Named   == "named"     \* listed by name only
Documents == 1 .. LastDocument
Nothing == [f \in Files |-> None]

Ended(r)  == run[r].pc \in {"completed", "failed"}
Active(r) == run[r].pc # "idle" /\ ~Ended(r)

\* A run is quiet until another is active, the project changes or a write
\* fails when the file is closed, which write_text does not look at.
Disturbed == [r \in Runs |-> [run[r] EXCEPT !.quiet = @ /\ ~Active(r)]]

\* What a process holds before it works, and again once it has ended.
Fresh == [pc |-> "idle", backs |-> TRUE, copies |-> TRUE, todo |-> {}, list |-> Nothing,
          print |-> None, done |-> FALSE, next |-> 1, quiet |-> TRUE]

PreflightInit ==
    /\ source \in [Files -> Contents]
    /\ tmp = None /\ backup = Nothing /\ exchange = Nothing
    /\ docs = [d \in Documents |-> None]
    /\ run = [r \in Runs |-> Fresh]
    /\ edits = 0 /\ faults = 0
    /\ seen = [r \in Runs |-> [f \in Files |-> {}]]

At(r, pc) == run[r].pc = pc
Fault == faults < MaxFaults /\ faults' = faults + 1
Go(r, pc) == run' = [run EXCEPT ![r].pc = pc]
Ends(r, pc) == run' = [run EXCEPT ![r] = [Fresh EXCEPT !.pc = pc, !.done = run[r].done]]

(* Options accepted, the output folder is created, wherever it is: what    *)
(* follows is a refusal if it is nested, else the scan.                    *)
Begins(r, next, backs, copies, alone) ==
    run' = [Disturbed EXCEPT ![r].pc = next,
                             ![r].quiet = alone, ![r].backs = backs, ![r].copies = copies,
                             ![r].todo = Files]

MakeOutput(r, next, backs, copies) ==
    /\ At(r, "idle")
    /\ \/ (\A o \in Runs \ {r} : ~Active(o)) /\ Begins(r, next, backs, copies, TRUE)
       \/ (\E o \in Runs \ {r} : Active(o)) /\ Begins(r, next, backs, copies, FALSE)
    /\ seen' = [seen EXCEPT ![r] = [f \in Files |-> {source[f]}]]
    /\ UNCHANGED <<source, tmp, backup, exchange, docs, edits, faults>>

(* Only now, with the folder there, is one inside the project refused.     *)
RefuseNested(r) ==
    /\ At(r, "nested")
    /\ Ends(r, "failed")
    /\ UNCHANGED <<source, tmp, backup, exchange, docs, edits, faults, seen>>

\* Assets are listed with their fingerprint, project files by their name,
\* and the remaining files are counted.
Listed(f) == IF source[f] = None \/ Kind[f] = "unknown" THEN None
             ELSE IF f \in Assets THEN source[f] ELSE Named

Scan(r) ==
    /\ At(r, "scan")
    /\ \E f \in run[r].todo :
          run' = [run EXCEPT ![r].todo = @ \ {f},
                             ![r].list = [@ EXCEPT ![f] = Listed(f)],
                             ![r].pc = IF run[r].todo = {f} THEN "stage" ELSE "scan"]
    /\ UNCHANGED <<source, tmp, backup, exchange, docs, edits, faults, seen>>

(* session_fingerprint: open and truncate, write, hash, remove. *)
StageOpen(r) ==
    /\ At(r, "stage")
    /\ tmp' = Nothing
    /\ Go(r, "write")
    /\ UNCHANGED <<source, backup, exchange, docs, edits, faults, seen>>

\* Two writers of one file: each writes from its start, what the longer list
\* has beyond the shorter stays.
Over(list, old) == [f \in Files |-> IF list[f] = None THEN old[f] ELSE list[f]]

StageWrite(r) ==
    /\ At(r, "write")
    /\ \/ /\ tmp' = IF tmp = None THEN None ELSE Over(run[r].list, tmp)
          /\ Go(r, "hash")
          /\ UNCHANGED faults
       \/ /\ Fault
          /\ \/ Ends(r, "failed")
             \/ run' = [run EXCEPT ![r].pc = "hash", ![r].quiet = FALSE]
          /\ UNCHANGED tmp
    /\ UNCHANGED <<source, backup, exchange, docs, edits, seen>>

(* A missing file (None) is hashed as "unreadable" and is no error. *)
StageHash(r) ==
    /\ At(r, "hash")
    /\ run' = [run EXCEPT ![r].pc = "clear",
                          ![r].print = tmp]
    /\ UNCHANGED <<source, tmp, backup, exchange, docs, edits, faults, seen>>

(* The removal's error is not looked at: another run may have removed it. *)
StageRemove(r) ==
    /\ At(r, "clear")
    /\ tmp' = None
    /\ run' = [run EXCEPT ![r].pc = IF run[r].backs THEN "backup" ELSE "copy",
                          ![r].todo = IF run[r].backs THEN Files
                                      ELSE {f \in Assets : run[r].list[f] # None}]
    /\ UNCHANGED <<source, backup, exchange, docs, edits, faults, seen>>

ToCopy(r, done) ==
    run' = [run EXCEPT ![r].pc = "copy", ![r].done = done,
                       ![r].todo = {f \in Assets : run[r].list[f] # None}]

BackupOverwrites(r, f) ==  \* mutant: copy_options::overwrite_existing
    /\ At(r, "backup") /\ f \in run[r].todo
    /\ source[f] # None
    /\ backup' = [backup EXCEPT ![f] = source[f]]
    /\ run' = [run EXCEPT ![r].todo = @ \ {f}]
    /\ UNCHANGED <<source, tmp, exchange, docs, edits, faults, seen>>

BackupSkips(r, f) ==  \* mutant: copy_options::skip_existing
    /\ At(r, "backup") /\ f \in run[r].todo
    /\ source[f] # None
    /\ backup' = [backup EXCEPT ![f] = IF @ = None THEN source[f] ELSE @]
    /\ run' = [run EXCEPT ![r].todo = @ \ {f}]
    /\ UNCHANGED <<source, tmp, exchange, docs, edits, faults, seen>>

(* fs::copy of the folder, one file at a time in the order of the folder.  *)
(* It replaces nothing: a file that is there already is an error, and so   *)
(* is a failed write; either ends the copy, and the run goes on.           *)
BackupFile(r, f) ==
    /\ At(r, "backup") /\ f \in run[r].todo
    /\ source[f] # None
    /\ \/ /\ backup[f] = None
          /\ backup' = [backup EXCEPT ![f] = source[f]]
          /\ run' = [run EXCEPT ![r].todo = @ \ {f}]
          /\ UNCHANGED faults
       \/ /\ backup[f] # None
          /\ ToCopy(r, FALSE)
          /\ UNCHANGED <<backup, faults>>
       \/ /\ backup[f] = None
          /\ Fault
          /\ backup' \in {backup, [backup EXCEPT ![f] = Torn]}
          /\ ToCopy(r, FALSE)
    /\ UNCHANGED <<source, tmp, exchange, docs, edits, seen>>

BackupEnds(r) ==
    /\ At(r, "backup")
    /\ \A f \in run[r].todo : source[f] = None
    /\ ToCopy(r, TRUE)
    /\ UNCHANGED <<source, tmp, backup, exchange, docs, edits, faults, seen>>

CopyKeepsOld(r) ==  \* mutant: an asset copied by an earlier run is kept
    /\ At(r, "copy") /\ run[r].copies
    /\ \E f \in run[r].todo :
          /\ source[f] # None
          /\ exchange' = [exchange EXCEPT ![f] = IF @ = None THEN source[f] ELSE @]
          /\ run' = [run EXCEPT ![r].todo = @ \ {f}]
    /\ UNCHANGED <<source, tmp, backup, docs, edits, faults, seen>>

(* copy_safely overwrites; an asset that is gone ends the run. *)
CopyAsset(r) ==
    /\ At(r, "copy") /\ run[r].copies
    /\ \E f \in run[r].todo :
          \/ /\ source[f] # None
             /\ exchange' = [exchange EXCEPT ![f] = source[f]]
             /\ run' = [run EXCEPT ![r].todo = @ \ {f}]
             /\ UNCHANGED faults
          \/ /\ source[f] = None
             /\ Ends(r, "failed")
             /\ UNCHANGED <<exchange, faults>>
          \/ /\ source[f] # None
             /\ Fault
             /\ exchange' \in {exchange, [exchange EXCEPT ![f] = Torn]}
             /\ Ends(r, "failed")
    /\ UNCHANGED <<source, tmp, backup, docs, edits, seen>>

CopyEnds(r) ==
    /\ At(r, "copy")
    /\ run[r].todo = {} \/ ~run[r].copies
    /\ Go(r, "document")
    /\ UNCHANGED <<source, tmp, backup, exchange, docs, edits, faults, seen>>

\* What follows a document that is taken for written.
Written(held, r) ==
    \/ held.next < LastDocument /\ run' = [run EXCEPT ![r] = [held EXCEPT !.next = @ + 1]]
    \/ held.next = LastDocument /\ Ends(r, "completed")

(* The documents in their order.  A write that fails ends the run,         *)
(* unless it is the one of the last buffer, when the file is closed.       *)
WriteDocument(r) ==
    /\ At(r, "document")
    /\ \/ /\ docs' = [docs EXCEPT ![run[r].next] = r]
          /\ Written(run[r], r)
          /\ UNCHANGED faults
       \/ /\ Fault
          /\ docs' = [docs EXCEPT ![run[r].next] = Torn]
          /\ Ends(r, "failed") \/ Written([run[r] EXCEPT !.quiet = FALSE], r)
    /\ UNCHANGED <<source, tmp, backup, exchange, edits, seen>>

(* The process ends between two steps; what it wrote stays. *)
Killed(r) ==
    /\ Active(r)
    /\ Fault
    /\ Ends(r, "failed")
    /\ UNCHANGED <<source, tmp, backup, exchange, docs, edits, seen>>

(* The musician changes, adds or deletes a file of the project. *)
Edit(f) ==
    /\ edits < MaxEdits /\ edits' = edits + 1
    /\ \E c \in (Contents \cup {None}) \ {source[f]} :
          /\ source' = [source EXCEPT ![f] = c]
          /\ seen' = [r \in Runs |-> IF Active(r) THEN [seen[r] EXCEPT ![f] = @ \cup {c}]
                                     ELSE seen[r]]
    /\ run' = Disturbed
    /\ UNCHANGED <<tmp, backup, exchange, docs, faults>>

Step(r) ==
    \/ \E next \in {"nested", "scan"}, backs, copies \in BOOLEAN :
          MakeOutput(r, next, backs, copies)
    \/ RefuseNested(r) \/ Scan(r)
    \/ StageOpen(r) \/ StageWrite(r) \/ StageHash(r) \/ StageRemove(r)
    \/ \E f \in Files : BackupFile(r, f)
    \/ BackupEnds(r) \/ CopyAsset(r) \/ CopyEnds(r) \/ WriteDocument(r)

PreflightNext ==
    \/ \E r \in Runs : Step(r) \/ Killed(r)
    \/ \E f \in Files : Edit(f)

PreflightSpec == PreflightInit /\ [][PreflightNext]_preVars

-----------------------------------------------------------------------------
(* No later run changes or removes a file of a backup: "Retain this backup *)
(* until the imported DAW session is verified" asks the musician to rely   *)
(* on it while preflight may be run again into the same output.            *)
BackupsSurvive ==
    [][\A f \in Files : backup[f] # None => backup'[f] = backup[f]]_preVars

(* A run that reports its backup as created has in it every file that the  *)
(* project held all the while, with contents the project held during this  *)
(* run and no earlier ones: not those another run, ended or concurrent,    *)
(* left in the same folder.                                                *)
BackupReportIsTrue ==
    \A r \in Runs : run[r].done =>
        \A f \in Files : None \notin seen[r][f] => backup[f] \in seen[r][f]

(* A run that completes with nobody beside it, and with no write lost as   *)
(* its file was closed, describes one project: its fingerprint is of its   *)
(* own list, whatever an ended run left behind, the exchange holds the     *)
(* listed assets as they were hashed, and all documents are its own.       *)
QuietRunsAreConsistent ==
    [][\A r \in Runs :
          run[r].pc # "completed" /\ run'[r].pc = "completed" /\ run[r].quiet /\ faults' = faults
             => /\ run[r].print = run[r].list
                /\ \A d \in Documents : docs'[d] = r
                /\ run[r].copies =>
                      \A f \in Assets : run[r].list[f] # None
                                           => exchange'[f] = run[r].list[f]]_preVars
=============================================================================
