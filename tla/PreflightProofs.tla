---------------------------- MODULE PreflightProofs ----------------------------
(* What a backup is worth, for any number of runs, files, contents, edits   *)
(* and failures: none is touched by a later run, and one reported as        *)
(* created holds what the project held.                                     *)
EXTENDS Preflight, TLAPS

Places == {"idle", "nested", "scan", "stage", "write", "hash", "clear", "backup", "copy",
           "document", "completed", "failed"}
Lists == [Files -> Contents \cup {None, Named}]
RunStates == [pc : Places, backs : BOOLEAN, copies : BOOLEAN, todo : SUBSET Files,
              list : Lists, print : Lists \cup {None}, done : BOOLEAN, next : Nat,
              quiet : BOOLEAN]

Typed ==
  /\ source \in [Files -> Contents \cup {None}]
  /\ tmp \in Lists \cup {None}
  /\ backup \in [Files -> Contents \cup {None, Torn}]
  /\ run \in [Runs -> RunStates]
  /\ seen \in [Runs -> [Files -> SUBSET (Contents \cup {None})]]
-----------------------------------------------------------------------------
(* Only BackupFile writes to the backup, and only where there is nothing.   *)
LEMMA BackupFileKeeps ==
  ASSUME Typed, NEW r \in Runs, NEW g \in Files, BackupFile(r, g)
  PROVE  /\ backup' \in [Files -> Contents \cup {None, Torn}]
         /\ \A f \in Files : backup[f] # None => backup'[f] = backup[f]
  BY DEF BackupFile, Typed

LEMMA StepKeeps ==
  ASSUME Typed, [PreflightNext]_preVars
  PROVE  \A f \in Files : backup[f] # None => backup'[f] = backup[f]
<1>1. CASE UNCHANGED preVars
  BY <1>1 DEF preVars
<1>2. ASSUME NEW r \in Runs, NEW g \in Files, BackupFile(r, g)
      PROVE  \A f \in Files : backup[f] # None => backup'[f] = backup[f]
  BY <1>2, BackupFileKeeps
<1>3. ASSUME NEW r \in Runs,
             \/ \E next \in {"nested", "scan"}, backs, copies \in BOOLEAN :
                  MakeOutput(r, next, backs, copies)
             \/ RefuseNested(r) \/ Scan(r)
             \/ StageOpen(r) \/ StageWrite(r) \/ StageHash(r) \/ StageRemove(r)
             \/ BackupEnds(r) \/ CopyAsset(r) \/ CopyEnds(r) \/ WriteDocument(r)
             \/ Killed(r)
      PROVE  UNCHANGED backup
  BY <1>3 DEF MakeOutput, RefuseNested, Scan, StageOpen, StageWrite, StageHash,
              StageRemove, BackupEnds, CopyAsset, CopyEnds, WriteDocument, Killed
<1>4. ASSUME NEW g \in Files, Edit(g) PROVE UNCHANGED backup
  BY <1>4 DEF Edit
<1>5. QED BY <1>1, <1>2, <1>3, <1>4 DEF PreflightNext, Step
-----------------------------------------------------------------------------
LEMMA FreshTyped == Fresh \in RunStates
  BY DEF Fresh, RunStates, Places, Lists, Nothing

(* Being disturbed changes nothing but whether a run is quiet.              *)
LEMMA DisturbedTyped ==
  ASSUME Typed
  PROVE  /\ Disturbed \in [Runs -> RunStates]
         /\ \A q \in Runs : /\ Disturbed[q].pc = run[q].pc
                            /\ Disturbed[q].done = run[q].done
                            /\ Disturbed[q].todo = run[q].todo
<1>1. ASSUME NEW q \in Runs
      PROVE  LET d == [run[q] EXCEPT !.quiet = run[q].quiet /\ ~Active(q)]
             IN  /\ d \in RunStates
                 /\ d.pc = run[q].pc /\ d.done = run[q].done /\ d.todo = run[q].todo
  <2>1. run[q] \in RunStates
    BY DEF Typed
  <2>2. (run[q].quiet /\ ~Active(q)) \in BOOLEAN
    OBVIOUS
  <2>3. QED BY <2>1, <2>2 DEF RunStates
<1>2. QED BY <1>1 DEF Disturbed

(* What a run's own step may do to its state.                               *)
LEMMA GoTyped ==
  ASSUME Typed, NEW r \in Runs, NEW pc \in Places,
         Go(r, pc) \/ (pc \in {"failed", "completed"} /\ Ends(r, pc))
  PROVE  /\ run' \in [Runs -> RunStates]
         /\ \A q \in Runs \ {r} : run'[q] = run[q]
         /\ run'[r].pc = pc /\ run'[r].done = run[r].done
<1>1. run[r] \in RunStates
  BY DEF Typed
<1>2. CASE Go(r, pc)
  BY <1>1, <1>2 DEF Go, RunStates, Typed
<1>3. CASE Ends(r, pc)
  <2>1. [Fresh EXCEPT !.pc = pc, !.done = run[r].done] \in RunStates
    BY <1>1, FreshTyped DEF RunStates
  <2>2. QED BY <1>3, <2>1, FreshTyped DEF Ends, Typed, RunStates
<1>4. QED BY <1>2, <1>3
-----------------------------------------------------------------------------
(* A step of one run that is not about the backup.                          *)
Plain(r) ==
  /\ Typed'
  /\ Active(r) /\ run'[r].pc \notin {"idle", "backup"} /\ run'[r].done = run[r].done
  /\ \A q \in Runs \ {r} : run'[q] = run[q]
  /\ UNCHANGED <<source, backup, seen>>

LEMMA OverTyped ==
  ASSUME NEW list \in Lists, NEW old \in Lists
  PROVE  Over(list, old) \in Lists
  BY DEF Over, Lists

LEMMA ScanIsPlain ==
  ASSUME Typed, NEW r \in Runs, Scan(r)
  PROVE  Plain(r)
<1>1. run[r] \in RunStates
  BY DEF Typed
<1>2. PICK f \in run[r].todo :
        run' = [run EXCEPT ![r].todo = @ \ {f}, ![r].list = [@ EXCEPT ![f] = Listed(f)],
                           ![r].pc = IF run[r].todo = {f} THEN "stage" ELSE "scan"]
  BY DEF Scan
<1>3. f \in Files
  BY <1>1 DEF RunStates
<1>4. [run[r].list EXCEPT ![f] = Listed(f)] \in Lists
  <2>1. Listed(f) \in Contents \cup {None, Named}
    BY <1>3 DEF Listed, Typed
  <2>2. QED BY <1>1, <1>3, <2>1 DEF RunStates, Lists
<1> DEFINE list == [run[r].list EXCEPT ![f] = Listed(f)]
           pc == IF run[r].todo = {f} THEN "stage" ELSE "scan"
           held == [run[r] EXCEPT !.todo = @ \ {f}, !.list = list, !.pc = pc]
<1>5. run' = [run EXCEPT ![r] = held]
  BY <1>2
<1>6. held \in RunStates /\ held.pc = pc /\ held.done = run[r].done
  <2>1. list \in Lists /\ pc \in Places
    BY <1>4 DEF Places
  <2> HIDE DEF list, pc
  <2>2. QED BY <1>1, <2>1 DEF RunStates
<1>7. pc \in {"stage", "scan"}
  OBVIOUS
<1> HIDE DEF held, pc
<1>8. run' \in [Runs -> RunStates] /\ run'[r] = held /\ \A q \in Runs \ {r} : run'[q] = run[q]
  BY <1>5, <1>6 DEF Typed
<1>9. QED BY <1>6, <1>7, <1>8 DEF Plain, Typed, Scan, At, Active, Ended

LEMMA StageIsPlain ==
  ASSUME Typed, NEW r \in Runs,
         RefuseNested(r) \/ StageOpen(r) \/ StageWrite(r) \/ StageHash(r)
  PROVE  Plain(r)
<1>1. run[r] \in RunStates
  BY DEF Typed
<1>2. Nothing \in Lists
  BY DEF Nothing, Lists
<1>3. CASE RefuseNested(r)
  <2>1. Ends(r, "failed") /\ At(r, "nested") /\ UNCHANGED <<source, tmp, backup, seen>>
    BY <1>3 DEF RefuseNested
  <2>2. QED BY <2>1, GoTyped DEF Plain, Typed, Places, At, Active, Ended
<1>4. CASE StageOpen(r)
  <2>1. Go(r, "write") /\ At(r, "stage") /\ tmp' = Nothing /\ UNCHANGED <<source, backup, seen>>
    BY <1>4 DEF StageOpen
  <2>2. QED BY <1>2, <2>1, GoTyped DEF Plain, Typed, Places, At, Active, Ended
<1>5. CASE StageWrite(r)
  <2>1. At(r, "write") /\ UNCHANGED <<source, backup, seen>>
    BY <1>5 DEF StageWrite
  <2>2. tmp' \in Lists \cup {None}
    BY <1>1, <1>5, OverTyped DEF StageWrite, Typed, RunStates
  <2>3. CASE Go(r, "hash") \/ Ends(r, "failed")
    BY <2>1, <2>2, <2>3, GoTyped DEF Plain, Typed, Places, At, Active, Ended
  <2>4. CASE run' = [run EXCEPT ![r].pc = "hash", ![r].quiet = FALSE]
    <3>1. /\ run' \in [Runs -> RunStates]
          /\ \A q \in Runs \ {r} : run'[q] = run[q]
          /\ run'[r].pc = "hash" /\ run'[r].done = run[r].done
      BY <1>1, <2>4 DEF Typed, RunStates, Places
    <3>2. QED BY <2>1, <2>2, <3>1 DEF Plain, Typed, At, Active, Ended
  <2>5. QED BY <1>5, <2>3, <2>4 DEF StageWrite
<1>6. CASE StageHash(r)
  <2>1. /\ run' \in [Runs -> RunStates]
        /\ \A q \in Runs \ {r} : run'[q] = run[q]
        /\ run'[r].pc = "clear" /\ run'[r].done = run[r].done
    BY <1>1, <1>6 DEF StageHash, Typed, RunStates, Places
  <2>2. QED BY <1>6, <2>1 DEF StageHash, Plain, Typed, At, Active, Ended
<1>7. QED BY <1>3, <1>4, <1>5, <1>6

LEMMA CopyIsPlain ==
  ASSUME Typed, NEW r \in Runs,
         CopyAsset(r) \/ CopyEnds(r) \/ WriteDocument(r) \/ Killed(r)
  PROVE  Plain(r)
<1>1. run[r] \in RunStates
  BY DEF Typed
<1>2. CASE CopyAsset(r)
  <2>1. At(r, "copy") /\ UNCHANGED <<source, tmp, backup, seen>>
    BY <1>2 DEF CopyAsset
  <2>2. CASE Ends(r, "failed")
    BY <2>1, <2>2, GoTyped DEF Plain, Typed, Places, At, Active, Ended
  <2>3. ASSUME NEW f \in run[r].todo, run' = [run EXCEPT ![r].todo = @ \ {f}]
        PROVE  Plain(r)
    <3>1. /\ run' \in [Runs -> RunStates]
          /\ \A q \in Runs \ {r} : run'[q] = run[q]
          /\ run'[r].pc = run[r].pc /\ run'[r].done = run[r].done
      BY <1>1, <2>3 DEF Typed, RunStates
    <3>2. QED BY <2>1, <3>1 DEF Plain, Typed, At, Active, Ended
  <2>4. QED BY <1>2, <2>2, <2>3 DEF CopyAsset
<1>3. CASE CopyEnds(r)
  <2>1. Go(r, "document") /\ At(r, "copy") /\ UNCHANGED <<source, tmp, backup, seen>>
    BY <1>3 DEF CopyEnds
  <2>2. QED BY <2>1, GoTyped DEF Plain, Typed, Places, At, Active, Ended
<1>4. CASE WriteDocument(r)
  <2>1. At(r, "document") /\ UNCHANGED <<source, tmp, backup, seen>>
    BY <1>4 DEF WriteDocument
  <2>2. CASE Ends(r, "failed") \/ Ends(r, "completed")
    BY <2>1, <2>2, GoTyped DEF Plain, Typed, Places, At, Active, Ended
  <2>3. ASSUME NEW held \in {run[r], [run[r] EXCEPT !.quiet = FALSE]},
               run' = [run EXCEPT ![r] = [held EXCEPT !.next = @ + 1]]
        PROVE  Plain(r)
    <3>1. held \in RunStates /\ held.pc = run[r].pc /\ held.done = run[r].done
      BY <1>1, <2>3 DEF RunStates
    <3>2. /\ [held EXCEPT !.next = @ + 1] \in RunStates
          /\ [held EXCEPT !.next = @ + 1].pc = run[r].pc
          /\ [held EXCEPT !.next = @ + 1].done = run[r].done
      BY <3>1 DEF RunStates
    <3>3. /\ run' \in [Runs -> RunStates]
          /\ \A q \in Runs \ {r} : run'[q] = run[q]
          /\ run'[r].pc = run[r].pc /\ run'[r].done = run[r].done
      BY <2>3, <3>2 DEF Typed
    <3>4. QED BY <2>1, <3>3 DEF Plain, Typed, At, Active, Ended
  <2>4. QED BY <1>4, <2>2, <2>3 DEF WriteDocument, Written
<1>5. CASE Killed(r)
  <2>1. Ends(r, "failed") /\ Active(r) /\ UNCHANGED <<source, tmp, backup, seen>>
    BY <1>5 DEF Killed
  <2>2. QED BY <2>1, GoTyped DEF Plain, Typed, Places, Active, Ended
<1>6. QED BY <1>2, <1>3, <1>4, <1>5
-----------------------------------------------------------------------------
(* The steps that start, make and end a backup.                             *)
Copying(r, done) ==
  run'[r].pc = "copy" /\ run'[r].done = done

LEMMA ToCopyTyped ==
  ASSUME Typed, NEW r \in Runs, NEW done \in BOOLEAN, ToCopy(r, done)
  PROVE  /\ run' \in [Runs -> RunStates]
         /\ \A q \in Runs \ {r} : run'[q] = run[q]
         /\ Copying(r, done)
<1>1. run[r] \in RunStates
  BY DEF Typed
<1>2. {f \in Assets : run[r].list[f] # None} \in SUBSET Files
  BY DEF Assets
<1> DEFINE todo == {f \in Assets : run[r].list[f] # None}
           held == [run[r] EXCEPT !.pc = "copy", !.done = done, !.todo = todo]
<1>3. held \in RunStates /\ held.pc = "copy" /\ held.done = done
  <2>1. todo \in SUBSET Files
    BY <1>2
  <2> HIDE DEF todo
  <2>2. QED BY <1>1, <2>1 DEF RunStates, Places
<1>4. run' = [run EXCEPT ![r] = held]
  BY DEF ToCopy
<1> HIDE DEF held
<1>5. QED BY <1>3, <1>4 DEF Typed, Copying

LEMMA StageRemoveTyped ==
  ASSUME Typed, NEW r \in Runs, StageRemove(r)
  PROVE  /\ Typed' /\ UNCHANGED <<source, backup, seen>>
         /\ \A q \in Runs \ {r} : run'[q] = run[q]
         /\ Active(r) /\ run'[r].pc \in {"backup", "copy"} /\ run'[r].done = run[r].done
         /\ run'[r].pc = "backup" => run'[r].todo = Files
<1>1. run[r] \in RunStates
  BY DEF Typed
<1> DEFINE pc == IF run[r].backs THEN "backup" ELSE "copy"
           todo == IF run[r].backs THEN Files ELSE {f \in Assets : run[r].list[f] # None}
           held == [run[r] EXCEPT !.pc = pc, !.todo = todo]
<1>2. pc \in {"backup", "copy"} /\ todo \in SUBSET Files /\ (pc = "backup" => todo = Files)
  BY DEF Assets
<1>3. run' = [run EXCEPT ![r] = held]
  BY DEF StageRemove
<1>4. held \in RunStates /\ held.pc = pc /\ held.done = run[r].done /\ held.todo = todo
  <2> HIDE DEF todo, pc
  <2>1. QED BY <1>1, <1>2 DEF RunStates, Places
<1> HIDE DEF held, pc, todo
<1>5. /\ run' \in [Runs -> RunStates] /\ run'[r] = held
      /\ \A q \in Runs \ {r} : run'[q] = run[q]
  BY <1>3, <1>4 DEF Typed
<1>6. QED BY <1>2, <1>4, <1>5 DEF StageRemove, Typed, At, Active, Ended

(* One file is copied, or the copy ends early and reports no success.       *)
LEMMA BackupFileTyped ==
  ASSUME Typed, NEW r \in Runs, NEW g \in Files, BackupFile(r, g)
  PROVE  /\ Typed' /\ UNCHANGED <<source, seen>>
         /\ At(r, "backup")
         /\ \A q \in Runs \ {r} : run'[q] = run[q]
         /\ \/ /\ run'[r].pc = "backup" /\ run'[r].done = run[r].done
               /\ run'[r].todo = run[r].todo \ {g} /\ backup'[g] = source[g]
            \/ Copying(r, FALSE)
<1>1. run[r] \in RunStates
  BY DEF Typed
<1>2. At(r, "backup") /\ UNCHANGED <<source, tmp, seen>>
  BY DEF BackupFile
<1>3. backup' \in [Files -> Contents \cup {None, Torn}]
  BY BackupFileKeeps
<1>4. CASE ToCopy(r, FALSE)
  BY <1>2, <1>3, <1>4, ToCopyTyped DEF Typed
<1>5. CASE /\ backup' = [backup EXCEPT ![g] = source[g]]
           /\ run' = [run EXCEPT ![r].todo = @ \ {g}]
  <2>1. /\ run' \in [Runs -> RunStates]
        /\ \A q \in Runs \ {r} : run'[q] = run[q]
        /\ run'[r].pc = run[r].pc /\ run'[r].done = run[r].done
        /\ run'[r].todo = run[r].todo \ {g}
    BY <1>1, <1>5 DEF Typed, RunStates
  <2>2. backup'[g] = source[g]
    BY <1>5 DEF Typed
  <2>3. QED BY <1>2, <1>3, <2>1, <2>2 DEF Typed, At
<1>6. QED BY <1>4, <1>5 DEF BackupFile

LEMMA BackupEndsTyped ==
  ASSUME Typed, NEW r \in Runs, BackupEnds(r)
  PROVE  /\ Typed' /\ UNCHANGED <<source, backup, seen>>
         /\ At(r, "backup") /\ \A f \in run[r].todo : source[f] = None
         /\ \A q \in Runs \ {r} : run'[q] = run[q]
         /\ Copying(r, TRUE)
<1>1. ToCopy(r, TRUE)
  BY DEF BackupEnds
<1>2. QED BY <1>1, ToCopyTyped DEF BackupEnds, Typed

LEMMA MakeOutputTyped ==
  ASSUME Typed, NEW r \in Runs, NEW pc \in {"nested", "scan"}, NEW backs \in BOOLEAN,
         NEW copies \in BOOLEAN, MakeOutput(r, pc, backs, copies)
  PROVE  /\ Typed' /\ UNCHANGED <<source, backup>>
         /\ At(r, "idle") /\ run'[r].pc \in {"nested", "scan"} /\ run'[r].done = run[r].done
         /\ \A q \in Runs \ {r} : /\ run'[q].pc = run[q].pc /\ run'[q].done = run[q].done
                                  /\ run'[q].todo = run[q].todo
                                  /\ seen'[q] = seen[q]
         /\ seen'[r] = [f \in Files |-> {source[f]}]
<1>1. Disturbed \in [Runs -> RunStates] /\ Disturbed[r].done = run[r].done
  BY DisturbedTyped
<1>2. PICK alone \in BOOLEAN : Begins(r, pc, backs, copies, alone)
  BY DEF MakeOutput
<1> DEFINE held == [Disturbed[r] EXCEPT !.pc = pc, !.quiet = alone, !.backs = backs,
                                        !.copies = copies, !.todo = Files]
<1>3. run' = [Disturbed EXCEPT ![r] = held] /\ At(r, "idle")
  BY <1>2 DEF MakeOutput, Begins
<1>4. held \in RunStates /\ held.pc = pc /\ held.done = run[r].done
  <2>1. Disturbed[r] \in RunStates /\ pc \in Places /\ Files \in SUBSET Files
    BY <1>1 DEF Places
  <2> HIDE DEF Files
  <2>2. QED BY <1>1, <2>1 DEF RunStates
<1>5. seen' \in [Runs -> [Files -> SUBSET (Contents \cup {None})]]
  <2>1. [f \in Files |-> {source[f]}] \in [Files -> SUBSET (Contents \cup {None})]
    BY DEF Typed
  <2>2. QED BY <2>1 DEF MakeOutput, Typed
<1>6. /\ seen'[r] = [f \in Files |-> {source[f]}]
      /\ \A q \in Runs \ {r} : seen'[q] = seen[q]
  BY DEF MakeOutput, Typed
<1> HIDE DEF held
<1>7. /\ run' \in [Runs -> RunStates] /\ run'[r] = held
      /\ \A q \in Runs \ {r} : run'[q] = Disturbed[q]
  BY <1>1, <1>4, <1>3
<1>8. Typed' /\ UNCHANGED <<source, backup>>
  BY <1>5, <1>7 DEF MakeOutput, Typed
<1>9. \A q \in Runs \ {r} : /\ run'[q].pc = run[q].pc /\ run'[q].done = run[q].done
                          /\ run'[q].todo = run[q].todo
  BY <1>7, DisturbedTyped
<1>10. QED BY <1>3, <1>6, <1>7, <1>8, <1>9, <1>4

LEMMA EditTyped ==
  ASSUME Typed, NEW g \in Files, Edit(g)
  PROVE  /\ Typed' /\ UNCHANGED backup
         /\ \A q \in Runs : /\ run'[q].pc = run[q].pc /\ run'[q].done = run[q].done
                            /\ run'[q].todo = run[q].todo
                            /\ \A f \in Files : seen[q][f] \subseteq seen'[q][f]
                            /\ Active(q) => seen'[q][g] = seen[q][g] \cup {source'[g]}
         /\ \A f \in Files \ {g} : source'[f] = source[f]
<1>1. PICK c \in Contents \cup {None} :
        /\ source' = [source EXCEPT ![g] = c]
        /\ seen' = [r \in Runs |-> IF Active(r) THEN [seen[r] EXCEPT ![g] = @ \cup {c}]
                                   ELSE seen[r]]
  BY DEF Edit
<1>2. source' \in [Files -> Contents \cup {None}] /\ source'[g] = c
      /\ \A f \in Files \ {g} : source'[f] = source[f]
  BY <1>1 DEF Typed
<1>3. ASSUME NEW q \in Runs
      PROVE  /\ seen'[q] \in [Files -> SUBSET (Contents \cup {None})]
             /\ \A f \in Files : seen[q][f] \subseteq seen'[q][f]
             /\ Active(q) => seen'[q][g] = seen[q][g] \cup {c}
  <2>1. seen[q] \in [Files -> SUBSET (Contents \cup {None})]
    BY DEF Typed
  <2>2. CASE Active(q)
    <3>1. seen'[q] = [seen[q] EXCEPT ![g] = @ \cup {c}]
      BY <1>1, <2>2
    <3>2. QED BY <2>1, <3>1
  <2>3. CASE ~Active(q)
    <3>1. seen'[q] = seen[q]
      BY <1>1, <2>3
    <3>2. QED BY <2>1, <2>3, <3>1
  <2>4. QED BY <2>2, <2>3
<1>4. seen' \in [Runs -> [Files -> SUBSET (Contents \cup {None})]]
  BY <1>1, <1>3
<1>5. run' = Disturbed /\ UNCHANGED <<tmp, backup>>
  BY DEF Edit
<1>6. Typed'
  BY <1>2, <1>4, <1>5, DisturbedTyped DEF Typed
<1>7. QED BY <1>2, <1>3, <1>5, <1>6, DisturbedTyped
-----------------------------------------------------------------------------
(* What makes a report of a backup true: a run that works has seen what the *)
(* project holds now, and what it has copied so far it has seen as well.    *)
Faithful(r, files) ==
  \A f \in files : None \notin seen[r][f] => backup[f] \in seen[r][f]

Watched ==
  \A r \in Runs :
    /\ Active(r) => \A f \in Files : source[f] \in seen[r][f]
    /\ At(r, "backup") => Faithful(r, Files \ run[r].todo)
    /\ run[r].done => ~At(r, "idle") /\ Faithful(r, Files)

(* What a run has copied and seen stays so while others work and the        *)
(* project changes: no copy is replaced, and what was seen was seen.        *)
LEMMA FaithfulStays ==
  ASSUME NEW r \in Runs, NEW files \in SUBSET Files, Faithful(r, files),
         \A f \in Files : backup[f] # None => backup'[f] = backup[f],
         \A f \in Files : seen[r][f] \subseteq seen'[r][f]
  PROVE  Faithful(r, files)'
  BY DEF Faithful

(* A run that does nothing itself.                                          *)
LEMMA OthersWatched ==
  ASSUME Typed, Watched, NEW q \in Runs,
         run'[q].pc = run[q].pc, run'[q].done = run[q].done, run'[q].todo = run[q].todo,
         \A f \in Files : backup[f] # None => backup'[f] = backup[f],
         seen'[q] = seen[q], source' = source
  PROVE  /\ Active(q)' => \A f \in Files : source'[f] \in seen'[q][f]
         /\ At(q, "backup")' => Faithful(q, Files \ run[q].todo)'
         /\ run'[q].done => ~At(q, "idle")' /\ Faithful(q, Files)'
  BY DEF Watched, Faithful, Active, Ended, At

LEMMA PlainWatched ==
  ASSUME Typed, Watched, NEW r \in Runs, Plain(r)
  PROVE  Watched'
<1>1. Active(r)' => \A f \in Files : source'[f] \in seen'[r][f]
  BY DEF Plain, Watched
<1>2. run'[r].done => Faithful(r, Files)'
  BY DEF Plain, Watched, Faithful
<1>3. ~At(r, "backup")' /\ ~At(r, "idle")'
  BY DEF Plain, At
<1>4. QED BY <1>1, <1>2, <1>3, OthersWatched DEF Plain, Watched

LEMMA BackupFileWatched ==
  ASSUME Typed, Watched, NEW r \in Runs, NEW g \in Files, BackupFile(r, g)
  PROVE  Watched'
<1>1. \A f \in Files : backup[f] # None => backup'[f] = backup[f]
  BY BackupFileKeeps
<1>2. /\ UNCHANGED <<source, seen>> /\ At(r, "backup")
      /\ \A q \in Runs \ {r} : run'[q] = run[q]
  BY BackupFileTyped
<1>3. \A f \in Files : source'[f] \in seen'[r][f]
  BY <1>2 DEF Watched, Active, Ended, At
<1>4. CASE /\ run'[r].pc = "backup" /\ run'[r].done = run[r].done
           /\ run'[r].todo = run[r].todo \ {g} /\ backup'[g] = source[g]
  <2>1. Faithful(r, Files \ run[r].todo)'
    <3>1. \A f \in Files \ run[r].todo : None \notin seen'[r][f] => backup'[f] \in seen'[r][f]
      BY <1>1, <1>2 DEF Watched, Faithful
    <3>2. backup'[g] \in seen'[r][g]
      BY <1>2, <1>3, <1>4
    <3>3. QED BY <1>4, <3>1, <3>2 DEF Faithful
  <2>2. run'[r].done => Faithful(r, Files)'
    BY <1>1, <1>2, <1>4 DEF Watched, Faithful
  <2>3. QED BY <1>1, <1>2, <1>3, <1>4, <2>1, <2>2, OthersWatched DEF Watched, At
<1>5. CASE Copying(r, FALSE)
  <2>1. run'[r].pc = "copy" /\ run'[r].done = FALSE
    BY <1>5 DEF Copying
  <2>2. QED BY <1>1, <1>2, <1>3, <2>1, OthersWatched DEF Watched, At
<1>6. QED BY <1>4, <1>5, BackupFileTyped

(* The files not yet copied when the copy ends were not there.              *)
LEMMA BackupEndsWatched ==
  ASSUME Typed, Watched, NEW r \in Runs, BackupEnds(r)
  PROVE  Watched'
<1>1. /\ UNCHANGED <<source, backup, seen>> /\ At(r, "backup")
      /\ \A f \in run[r].todo : source[f] = None
      /\ \A q \in Runs \ {r} : run'[q] = run[q]
      /\ run'[r].pc = "copy" /\ run'[r].done = TRUE
  BY BackupEndsTyped DEF Copying
<1>2. \A f \in Files : source'[f] \in seen'[r][f]
  BY <1>1 DEF Watched, Active, Ended, At
<1>3. Faithful(r, Files)'
  <2>1. \A f \in Files \ run[r].todo : None \notin seen'[r][f] => backup'[f] \in seen'[r][f]
    BY <1>1 DEF Watched, Faithful
  <2>2. ASSUME NEW f \in Files, f \in run[r].todo PROVE None \in seen'[r][f]
    BY <1>1, <1>2, <2>2
  <2>3. QED BY <2>1, <2>2 DEF Faithful
<1>4. QED BY <1>1, <1>2, <1>3, OthersWatched DEF Watched, At

LEMMA StageRemoveWatched ==
  ASSUME Typed, Watched, NEW r \in Runs, StageRemove(r)
  PROVE  Watched'
<1>1. /\ UNCHANGED <<source, backup, seen>>
      /\ \A q \in Runs \ {r} : run'[q] = run[q]
      /\ Active(r) /\ run'[r].pc \in {"backup", "copy"} /\ run'[r].done = run[r].done
      /\ run'[r].pc = "backup" => run'[r].todo = Files
  BY StageRemoveTyped
<1>2. \A f \in Files : source'[f] \in seen'[r][f]
  BY <1>1 DEF Watched
<1>3. At(r, "backup")' => Faithful(r, Files \ run[r].todo)'
  BY <1>1 DEF At, Faithful
<1>4. run'[r].done => Faithful(r, Files)'
  BY <1>1 DEF Watched, Faithful
<1>5. QED BY <1>1, <1>2, <1>3, <1>4, OthersWatched DEF Watched, At

LEMMA MakeOutputWatched ==
  ASSUME Typed, Watched, NEW r \in Runs, NEW pc \in {"nested", "scan"},
         NEW backs \in BOOLEAN, NEW copies \in BOOLEAN, MakeOutput(r, pc, backs, copies)
  PROVE  Watched'
<1>1. /\ UNCHANGED <<source, backup>>
      /\ At(r, "idle") /\ run'[r].pc \in {"nested", "scan"} /\ run'[r].done = run[r].done
      /\ \A q \in Runs \ {r} : /\ run'[q].pc = run[q].pc /\ run'[q].done = run[q].done
                               /\ run'[q].todo = run[q].todo
                               /\ seen'[q] = seen[q]
      /\ seen'[r] = [f \in Files |-> {source[f]}]
  BY MakeOutputTyped
<1>2. \A f \in Files : source'[f] \in seen'[r][f]
  BY <1>1
<1>3. ~run'[r].done /\ ~At(r, "backup")'
  BY <1>1 DEF Watched, At
<1>4. QED BY <1>1, <1>2, <1>3, OthersWatched DEF Watched

LEMMA EditWatched ==
  ASSUME Typed, Watched, NEW g \in Files, Edit(g)
  PROVE  Watched'
<1>1. ASSUME NEW q \in Runs
      PROVE  /\ run'[q].pc = run[q].pc /\ run'[q].done = run[q].done
             /\ run'[q].todo = run[q].todo
  BY EditTyped, Zenon
<1>2. ASSUME NEW q \in Runs, NEW f \in Files PROVE seen[q][f] \subseteq seen'[q][f]
  BY EditTyped, Zenon
<1>3. ASSUME NEW q \in Runs, Active(q) PROVE source'[g] \in seen'[q][g]
  <2>1. seen'[q][g] = seen[q][g] \cup {source'[g]}
    BY <1>3, EditTyped, Zenon
  <2>2. QED BY <2>1
<1>4. UNCHANGED backup /\ \A f \in Files \ {g} : source'[f] = source[f]
  BY EditTyped, Zenon
<1>5. ASSUME NEW q \in Runs, Active(q)', NEW f \in Files PROVE source'[f] \in seen'[q][f]
  <2>1. Active(q)
    BY <1>1, <1>5 DEF Active, Ended, At
  <2>2. CASE f = g
    BY <1>3, <2>1, <2>2
  <2>3. CASE f # g
    <3>1. source[f] \in seen[q][f]
      BY <2>1 DEF Watched
    <3>2. source'[f] = source[f]
      BY <1>4, <2>3
    <3>3. QED BY <1>2, <3>1, <3>2
  <2>4. QED BY <2>2, <2>3
<1>6. ASSUME NEW q \in Runs, NEW files \in SUBSET Files, Faithful(q, files)
      PROVE  Faithful(q, files)'
  BY <1>2, <1>4, <1>6, FaithfulStays
<1>7. ASSUME NEW q \in Runs, At(q, "backup")' PROVE Faithful(q, Files \ run[q].todo)'
  <2>1. Faithful(q, Files \ run[q].todo)
    BY <1>1, <1>7 DEF Watched, At
  <2>2. QED BY <1>1, <1>2, <1>4, <2>1 DEF Faithful
<1>8. ASSUME NEW q \in Runs, run'[q].done PROVE ~At(q, "idle")' /\ Faithful(q, Files)'
  <2>1. ~At(q, "idle") /\ Faithful(q, Files)
    BY <1>1, <1>8 DEF Watched
  <2>2. QED BY <1>1, <1>6, <2>1 DEF At
<1>9. QED BY <1>5, <1>7, <1>8 DEF Watched
-----------------------------------------------------------------------------
Inv == Typed /\ Watched

LEMMA InvHolds == PreflightSpec => []Inv
<1>1. PreflightInit => Inv
  <2>1. ASSUME PreflightInit PROVE Typed
    BY <2>1, FreshTyped DEF PreflightInit, Typed, Nothing, Lists
  <2>2. ASSUME PreflightInit PROVE Watched
    BY <2>2 DEF PreflightInit, Watched, Fresh, Active, Ended, At
  <2>3. QED BY <2>1, <2>2 DEF Inv
<1>2. Inv /\ [PreflightNext]_preVars => Inv'
  <2> SUFFICES ASSUME Typed, Watched, [PreflightNext]_preVars PROVE Typed' /\ Watched'
    BY DEF Inv
  <2>1. CASE UNCHANGED preVars
    BY <2>1 DEF preVars, Typed, Watched, Faithful, Active, Ended, At
  <2>2. ASSUME NEW r \in Runs, NEW next \in {"nested", "scan"}, NEW backs \in BOOLEAN,
               NEW copies \in BOOLEAN, MakeOutput(r, next, backs, copies)
        PROVE  Typed' /\ Watched'
    BY <2>2, MakeOutputTyped, MakeOutputWatched
  <2>3. ASSUME NEW r \in Runs, NEW g \in Files, BackupFile(r, g)
        PROVE  Typed' /\ Watched'
    BY <2>3, BackupFileTyped, BackupFileWatched
  <2>4. ASSUME NEW r \in Runs, BackupEnds(r) PROVE Typed' /\ Watched'
    BY <2>4, BackupEndsTyped, BackupEndsWatched
  <2>5. ASSUME NEW r \in Runs, StageRemove(r) PROVE Typed' /\ Watched'
    BY <2>5, StageRemoveTyped, StageRemoveWatched
  <2>6. ASSUME NEW r \in Runs,
               \/ Scan(r)
               \/ RefuseNested(r) \/ StageOpen(r) \/ StageWrite(r) \/ StageHash(r)
               \/ CopyAsset(r) \/ CopyEnds(r) \/ WriteDocument(r) \/ Killed(r)
        PROVE  Typed' /\ Watched'
    <3>1. Plain(r)
      BY <2>6, ScanIsPlain, StageIsPlain, CopyIsPlain
    <3>2. QED BY <3>1, PlainWatched DEF Plain
  <2>7. ASSUME NEW g \in Files, Edit(g) PROVE Typed' /\ Watched'
    BY <2>7, EditTyped, EditWatched
  <2>8. QED BY <2>1, <2>2, <2>3, <2>4, <2>5, <2>6, <2>7 DEF PreflightNext, Step
<1>3. QED BY <1>1, <1>2, PTL DEF PreflightSpec

(* Whatever the runs do, in turn or at once, and wherever they fail or end, *)
(* a file of a backup stays what it was: backup_project never overwrites.   *)
THEOREM BackupsStay == PreflightSpec => BackupsSurvive
<1>1. Inv /\ [PreflightNext]_preVars
        => [\A f \in Files : backup[f] # None => backup'[f] = backup[f]]_preVars
  BY StepKeeps DEF Inv
<1>2. QED BY <1>1, InvHolds, PTL DEF PreflightSpec, BackupsSurvive

(* A backup that backup_project reports as created holds what the project   *)
(* held during that run, of every file that was there all the while: what   *)
(* other runs left or leave in the folder never passes for it.              *)
THEOREM ReportsAreTrue == PreflightSpec => []BackupReportIsTrue
<1>1. Inv => BackupReportIsTrue
  BY DEF Inv, Watched, Faithful, BackupReportIsTrue
<1>2. QED BY <1>1, InvHolds, PTL
-----------------------------------------------------------------------------
(* What a quiet run has at each of its places: the list is of the project   *)
(* as it is, the temporary file and the fingerprint are of that list, what  *)
(* the exchange has of it is what was listed, and the documents are its own.*)
Scanned(r, files) == \A f \in files : run[r].list[f] = Listed(f)
Exchanged(r, files) == \A f \in files : run[r].list[f] # None => exchange[f] = run[r].list[f]
Consistent(r) ==
  /\ At(r, "document") \/ run[r].next = 1
  /\ At(r, "scan") => Scanned(r, Files \ run[r].todo)
  /\ At(r, "nested") \/ At(r, "scan") \/ Scanned(r, Files)
  /\ At(r, "write") => tmp = Nothing
  /\ At(r, "hash") => tmp = run[r].list
  /\ run[r].pc \in {"clear", "backup", "copy", "document"} => run[r].print = run[r].list
  /\ At(r, "copy") /\ run[r].copies => Exchanged(r, Assets \ run[r].todo)
  /\ At(r, "document") =>
       /\ run[r].copies => Exchanged(r, Assets)
       /\ \A d \in Documents : d < run[r].next => docs[d] = r

(* A run is quiet only while it is the only one that works.                 *)
Alone(r) == \A o \in Runs \ {r} : ~Active(o)
Stored ==
  /\ DOMAIN docs = Documents /\ DOMAIN exchange = Files /\ faults \in Nat
Neat ==
  /\ Stored
  /\ \A r \in Runs : /\ At(r, "idle") => run[r].next = 1
                     /\ Active(r) /\ run[r].quiet => Consistent(r) /\ Alone(r)

(* A quiet run that completes in this step, with no write lost, did so      *)
(* consistently.                                                            *)
Completes(r) ==
  run[r].pc # "completed" /\ run'[r].pc = "completed" /\ run[r].quiet /\ faults' = faults
    => /\ run[r].print = run[r].list
       /\ \A d \in Documents : docs'[d] = r
       /\ run[r].copies =>
             \A f \in Assets : run[r].list[f] # None => exchange'[f] = run[r].list[f]

(* A run's own step: of the others, none that works is quiet.               *)
LEMMA OwnStep ==
  ASSUME Typed, Neat, Stored', NEW r \in Runs, Active(r),
         \A q \in Runs \ {r} : run'[q] = run[q],
         run'[r].pc # "idle",
         Active(r)' /\ run'[r].quiet => run[r].quiet,
         Consistent(r) /\ Active(r)' /\ run'[r].quiet => Consistent(r)',
         run'[r].pc # "completed" \/ Completes(r)
  PROVE  Neat' /\ \A q \in Runs : Completes(q)
<1>1. ASSUME NEW q \in Runs
      PROVE  /\ At(q, "idle")' => run'[q].next = 1
             /\ Active(q)' /\ run'[q].quiet => Consistent(q)' /\ Alone(q)'
             /\ Completes(q)
  <2>1. CASE q = r
    <3>1. Active(r)' /\ run'[r].quiet => Consistent(r) /\ Alone(r)
      BY DEF Neat
    <3>2. Alone(r) => Alone(r)'
      BY DEF Alone, Active, Ended
    <3>3. run'[r].pc # "completed" => Completes(r)
      BY DEF Completes
    <3>4. ~At(r, "idle")'
      BY DEF At
    <3>5. QED BY <2>1, <3>1, <3>2, <3>3, <3>4
  <2>2. CASE q # r
    <3>1. run'[q] = run[q]
      BY <2>2
    <3>2. ~(Active(q) /\ run[q].quiet)
      BY <2>2 DEF Neat, Alone
    <3>3. ~(Active(q)' /\ run'[q].quiet)
      BY <3>1, <3>2 DEF Active, Ended
    <3>4. At(q, "idle")' => run'[q].next = 1
      BY <3>1 DEF At, Neat
    <3>5. Completes(q)
      BY <3>1 DEF Completes
    <3>6. QED BY <3>3, <3>4, <3>5
  <2>3. QED BY <2>1, <2>2
<1>2. QED BY <1>1 DEF Neat

(* A run that ends, but for one that completes.                             *)
LEMMA EndsNeat ==
  ASSUME Typed, Neat, Stored', NEW r \in Runs, Active(r), Ends(r, "failed")
  PROVE  Neat' /\ \A q \in Runs : Completes(q)
<1>1. /\ \A q \in Runs \ {r} : run'[q] = run[q]
      /\ run'[r].pc = "failed"
  BY GoTyped DEF Places
<1>2. ~Active(r)'
  BY <1>1 DEF Active, Ended, At
<1>3. QED BY <1>1, <1>2, OwnStep
-----------------------------------------------------------------------------
LEMMA StagesNeat ==
  ASSUME Typed, Neat, NEW r \in Runs,
         RefuseNested(r) \/ StageOpen(r) \/ StageWrite(r) \/ StageHash(r)
  PROVE  Neat' /\ \A q \in Runs : Completes(q)
<1>1. run[r] \in RunStates
  BY DEF Typed
<1>2. /\ UNCHANGED <<source, docs, exchange>>
      /\ faults' = faults \/ faults' = faults + 1
  BY DEF RefuseNested, StageOpen, StageWrite, StageHash, Fault
<1>3. Stored'
  BY <1>2 DEF Neat, Stored
<1>4. \A f \in Files : Listed(f)' = Listed(f)
  BY <1>2 DEF Listed
<1>5. Active(r)
  BY DEF RefuseNested, StageOpen, StageWrite, StageHash, At, Active, Ended
<1>6. CASE Ends(r, "failed")
  BY <1>3, <1>5, <1>6, EndsNeat
<1>7. CASE StageOpen(r)
  <2>1. /\ run' = [run EXCEPT ![r].pc = "write"] /\ tmp' = Nothing
        /\ At(r, "stage")
    BY <1>7 DEF StageOpen, Go
  <2>2. /\ \A q \in Runs \ {r} : run'[q] = run[q]
        /\ run'[r].pc = "write" /\ run'[r].list = run[r].list /\ run'[r].next = run[r].next
        /\ run'[r].quiet = run[r].quiet
    BY <1>1, <2>1 DEF Typed, RunStates
  <2>3. Consistent(r) => Consistent(r)'
    BY <1>4, <2>1, <2>2 DEF Consistent, Scanned, At
  <2>4. QED BY <1>3, <1>5, <2>2, <2>3, OwnStep
<1>8. ASSUME StageWrite(r), ~Ends(r, "failed")
      PROVE  Neat' /\ \A q \in Runs : Completes(q)
  <2>1. /\ At(r, "write")
        /\ \/ /\ run' = [run EXCEPT ![r].pc = "hash"]
              /\ tmp' = IF tmp = None THEN None ELSE Over(run[r].list, tmp)
           \/ run' = [run EXCEPT ![r].pc = "hash", ![r].quiet = FALSE]
    BY <1>8 DEF StageWrite, Go
  <2>2. CASE /\ run' = [run EXCEPT ![r].pc = "hash"]
             /\ tmp' = IF tmp = None THEN None ELSE Over(run[r].list, tmp)
    <3>1. /\ \A q \in Runs \ {r} : run'[q] = run[q]
          /\ run'[r].pc = "hash" /\ run'[r].list = run[r].list /\ run'[r].next = run[r].next
          /\ run'[r].quiet = run[r].quiet
      BY <1>1, <2>2 DEF Typed, RunStates
    <3>2. ASSUME Consistent(r) PROVE tmp' = run[r].list
      <4>1. tmp = Nothing /\ Nothing # None
        BY <2>1, <3>2, NoneAssumption DEF Consistent, Nothing, Files
      <4>2. run[r].list \in [Files -> Contents \cup {None, Named}]
        BY <1>1 DEF RunStates, Lists
      <4>3. Over(run[r].list, Nothing) = run[r].list
        BY <4>2 DEF Over, Nothing
      <4>4. QED BY <2>2, <4>1, <4>3
    <3>3. Consistent(r) => Consistent(r)'
      BY <1>4, <2>1, <3>1, <3>2 DEF Consistent, Scanned, At
    <3>4. QED BY <1>3, <1>5, <3>1, <3>3, OwnStep
  <2>3. CASE run' = [run EXCEPT ![r].pc = "hash", ![r].quiet = FALSE]
    <3>1. /\ \A q \in Runs \ {r} : run'[q] = run[q]
          /\ run'[r].pc = "hash" /\ run'[r].quiet = FALSE
      BY <1>1, <2>3 DEF Typed, RunStates
    <3>2. QED BY <1>3, <1>5, <3>1, OwnStep
  <2>4. QED BY <2>1, <2>2, <2>3
<1>9. CASE StageHash(r)
  <2>1. run' = [run EXCEPT ![r].pc = "clear", ![r].print = tmp] /\ At(r, "hash")
    BY <1>9 DEF StageHash
  <2>2. /\ \A q \in Runs \ {r} : run'[q] = run[q]
        /\ run'[r].pc = "clear" /\ run'[r].list = run[r].list /\ run'[r].next = run[r].next
        /\ run'[r].print = tmp /\ run'[r].quiet = run[r].quiet
    BY <1>1, <2>1 DEF Typed, RunStates
  <2>3. Consistent(r) => Consistent(r)'
    BY <1>4, <2>1, <2>2 DEF Consistent, Scanned, At
  <2>4. QED BY <1>3, <1>5, <2>2, <2>3, OwnStep
<1>10. QED BY <1>6, <1>7, <1>8, <1>9 DEF RefuseNested

LEMMA ScanNeat ==
  ASSUME Typed, Neat, NEW r \in Runs, Scan(r)
  PROVE  Neat' /\ \A q \in Runs : Completes(q)
<1>1. run[r] \in RunStates
  BY DEF Typed
<1>2. UNCHANGED <<source, docs, exchange, faults>> /\ At(r, "scan")
  BY DEF Scan
<1>3. Stored' /\ Active(r)
  BY <1>2 DEF Neat, Stored, At, Active, Ended
<1>4. \A f \in Files : Listed(f)' = Listed(f)
  BY <1>2 DEF Listed
<1>5. PICK f \in run[r].todo :
        run' = [run EXCEPT ![r].todo = @ \ {f}, ![r].list = [@ EXCEPT ![f] = Listed(f)],
                           ![r].pc = IF run[r].todo = {f} THEN "stage" ELSE "scan"]
  BY DEF Scan
<1> DEFINE list == [run[r].list EXCEPT ![f] = Listed(f)]
           pc == IF run[r].todo = {f} THEN "stage" ELSE "scan"
<1>6. run' = [run EXCEPT ![r].todo = @ \ {f}, ![r].list = list, ![r].pc = pc]
  BY <1>5
<1>7. /\ pc \in {"stage", "scan"} /\ (pc = "stage" => run[r].todo = {f})
      /\ f \in Files /\ list[f] = Listed(f)
      /\ \A g \in Files \ {f} : list[g] = run[r].list[g]
  BY <1>1 DEF RunStates, Lists
<1> HIDE DEF list, pc
<1>8. /\ \A q \in Runs \ {r} : run'[q] = run[q]
      /\ run'[r].pc = pc /\ run'[r].list = list /\ run'[r].next = run[r].next
      /\ run'[r].quiet = run[r].quiet /\ run'[r].todo = run[r].todo \ {f}
  BY <1>1, <1>6 DEF Typed, RunStates
<1>9. ASSUME Consistent(r) PROVE Consistent(r)'
  <2>1. \A g \in Files \ (run[r].todo \ {f}) : list[g] = Listed(g)'
    BY <1>2, <1>4, <1>7, <1>9 DEF Consistent, Scanned
  <2>2. run'[r].next = 1
    BY <1>2, <1>8, <1>9 DEF Consistent, At
  <2>3. CASE pc = "scan"
    BY <1>8, <2>1, <2>2, <2>3 DEF Consistent, Scanned, At
  <2>4. CASE pc = "stage"
    BY <1>7, <1>8, <2>1, <2>2, <2>4 DEF Consistent, Scanned, At
  <2>5. QED BY <1>7, <2>3, <2>4
<1>10. QED BY <1>3, <1>7, <1>8, <1>9, OwnStep
-----------------------------------------------------------------------------
(* The copy into the exchange starts with all that was listed still to do.  *)
LEMMA ToCopyNeat ==
  ASSUME Typed, Neat, Stored', NEW r \in Runs, NEW done \in BOOLEAN,
         ToCopy(r, done), At(r, "backup"), UNCHANGED source
  PROVE  Neat' /\ \A q \in Runs : Completes(q)
<1>1. run[r] \in RunStates
  BY DEF Typed
<1> DEFINE todo == {f \in Assets : run[r].list[f] # None}
<1>2. \A f \in Assets \ todo : run[r].list[f] = None
  OBVIOUS
<1>3. run' = [run EXCEPT ![r].pc = "copy", ![r].done = done, ![r].todo = todo]
  BY DEF ToCopy
<1> HIDE DEF todo
<1>4. /\ \A q \in Runs \ {r} : run'[q] = run[q]
      /\ run'[r].pc = "copy" /\ run'[r].list = run[r].list /\ run'[r].next = run[r].next
      /\ run'[r].quiet = run[r].quiet /\ run'[r].todo = todo /\ run'[r].print = run[r].print
  BY <1>1, <1>3 DEF Typed, RunStates
<1>5. \A f \in Files : Listed(f)' = Listed(f)
  BY DEF Listed
<1>6. Consistent(r) => Consistent(r)'
  BY <1>2, <1>4, <1>5 DEF Consistent, Scanned, Exchanged, At
<1>7. Active(r)
  BY DEF At, Active, Ended
<1>8. QED BY <1>4, <1>6, <1>7, OwnStep

LEMMA RemoveNeat ==
  ASSUME Typed, Neat, NEW r \in Runs, StageRemove(r)
  PROVE  Neat' /\ \A q \in Runs : Completes(q)
<1>1. run[r] \in RunStates
  BY DEF Typed
<1>2. UNCHANGED <<source, docs, exchange, faults>> /\ At(r, "clear")
  BY DEF StageRemove
<1>3. Stored' /\ Active(r)
  BY <1>2 DEF Neat, Stored, At, Active, Ended
<1> DEFINE pc == IF run[r].backs THEN "backup" ELSE "copy"
           todo == IF run[r].backs THEN Files ELSE {f \in Assets : run[r].list[f] # None}
<1>4. run' = [run EXCEPT ![r].pc = pc, ![r].todo = todo]
  BY DEF StageRemove
<1>5. /\ pc \in {"backup", "copy"}
      /\ \A f \in Assets \ todo : pc = "copy" => run[r].list[f] = None
  OBVIOUS
<1> HIDE DEF pc, todo
<1>6. /\ \A q \in Runs \ {r} : run'[q] = run[q]
      /\ run'[r].pc = pc /\ run'[r].list = run[r].list /\ run'[r].next = run[r].next
      /\ run'[r].quiet = run[r].quiet /\ run'[r].todo = todo /\ run'[r].print = run[r].print
  BY <1>1, <1>4 DEF Typed, RunStates
<1>7. \A f \in Files : Listed(f)' = Listed(f)
  BY <1>2 DEF Listed
<1>8. Consistent(r) => Consistent(r)'
  BY <1>2, <1>5, <1>6, <1>7 DEF Consistent, Scanned, Exchanged, At
<1>9. QED BY <1>3, <1>5, <1>6, <1>8, OwnStep

LEMMA BackupNeat ==
  ASSUME Typed, Neat, NEW r \in Runs, BackupEnds(r) \/ \E g \in Files : BackupFile(r, g)
  PROVE  Neat' /\ \A q \in Runs : Completes(q)
<1>1. run[r] \in RunStates
  BY DEF Typed
<1>2. UNCHANGED <<source, docs, exchange>> /\ At(r, "backup")
  BY DEF BackupEnds, BackupFile
<1>3. Stored' /\ Active(r)
  <2>1. faults' = faults \/ faults' = faults + 1
    BY DEF BackupEnds, BackupFile, Fault
  <2>2. QED BY <1>2, <2>1 DEF Neat, Stored, At, Active, Ended
<1>4. CASE \E done \in BOOLEAN : ToCopy(r, done)
  BY <1>2, <1>3, <1>4, ToCopyNeat
<1>5. ASSUME NEW g \in Files, run' = [run EXCEPT ![r].todo = @ \ {g}]
      PROVE  Neat' /\ \A q \in Runs : Completes(q)
  <2>1. /\ \A q \in Runs \ {r} : run'[q] = run[q]
        /\ run'[r].pc = run[r].pc /\ run'[r].list = run[r].list /\ run'[r].next = run[r].next
        /\ run'[r].quiet = run[r].quiet /\ run'[r].print = run[r].print
    BY <1>1, <1>5 DEF Typed, RunStates
  <2>2. \A f \in Files : Listed(f)' = Listed(f)
    BY <1>2 DEF Listed
  <2>3. Consistent(r) => Consistent(r)'
    BY <1>2, <2>1, <2>2 DEF Consistent, Scanned, At
  <2>4. run'[r].pc \notin {"idle", "completed"}
    BY <1>2, <2>1 DEF At
  <2>5. QED BY <1>3, <2>1, <2>3, <2>4, OwnStep
<1>6. QED BY <1>4, <1>5 DEF BackupEnds, BackupFile

(* An asset that was listed and is there is what was listed.                *)
LEMMA CopyNeat ==
  ASSUME Typed, Neat, NEW r \in Runs, CopyAsset(r)
  PROVE  Neat' /\ \A q \in Runs : Completes(q)
<1>1. run[r] \in RunStates
  BY DEF Typed
<1>2. UNCHANGED <<source, docs>> /\ At(r, "copy")
  BY DEF CopyAsset
<1>3. Stored' /\ Active(r)
  BY <1>2 DEF Neat, Stored, At, Active, Ended, CopyAsset, Fault
<1>4. CASE Ends(r, "failed")
  BY <1>3, <1>4, EndsNeat
<1>5. ASSUME NEW f \in run[r].todo, source[f] # None,
             exchange' = [exchange EXCEPT ![f] = source[f]],
             run' = [run EXCEPT ![r].todo = @ \ {f}]
      PROVE  Neat' /\ \A q \in Runs : Completes(q)
  <2>1. /\ \A q \in Runs \ {r} : run'[q] = run[q]
        /\ run'[r].pc = run[r].pc /\ run'[r].list = run[r].list /\ run'[r].next = run[r].next
        /\ run'[r].quiet = run[r].quiet /\ run'[r].print = run[r].print
        /\ run'[r].todo = run[r].todo \ {f} /\ run'[r].copies = run[r].copies
    BY <1>1, <1>5 DEF Typed, RunStates
  <2>2. f \in Files /\ \A g \in Files : Listed(g)' = Listed(g)
    BY <1>1, <1>2 DEF Listed, RunStates
  <2>3. /\ exchange'[f] = source[f]
        /\ \A g \in Files \ {f} : exchange'[g] = exchange[g]
    BY <1>5, <2>2 DEF Neat, Stored
  <2>4. ASSUME Consistent(r) PROVE Consistent(r)'
    <3>1. Scanned(r, Files)
      BY <1>2, <2>4 DEF Consistent, At
    <3>2. f \in Assets => run[r].list[f] = source[f]
      BY <1>5, <2>2, <3>1 DEF Scanned, Listed, Assets
    <3>3. run[r].copies => Exchanged(r, Assets \ run[r].todo)
      BY <1>2, <2>4 DEF Consistent
    <3>4. run[r].copies =>
            \A g \in Assets \ (run[r].todo \ {f}) :
               run[r].list[g] # None => exchange'[g] = run[r].list[g]
      BY <2>3, <3>2, <3>3 DEF Exchanged, Assets
    <3>5. run'[r].copies => Exchanged(r, Assets \ run[r].todo)'
      BY <2>1, <3>4 DEF Exchanged
    <3>6. QED BY <1>2, <2>1, <2>2, <2>4, <3>1, <3>5 DEF Consistent, Scanned, At
  <2>5. run'[r].pc \notin {"idle", "completed"}
    BY <1>2, <2>1 DEF At
  <2>6. QED BY <1>3, <2>1, <2>4, <2>5, OwnStep
<1>6. QED BY <1>4, <1>5 DEF CopyAsset

LEMMA CopyEndsNeat ==
  ASSUME Typed, Neat, NEW r \in Runs, CopyEnds(r)
  PROVE  Neat' /\ \A q \in Runs : Completes(q)
<1>1. run[r] \in RunStates
  BY DEF Typed
<1>2. /\ UNCHANGED <<source, docs, exchange, faults>> /\ At(r, "copy")
      /\ run' = [run EXCEPT ![r].pc = "document"]
      /\ run[r].todo = {} \/ ~run[r].copies
  BY DEF CopyEnds, Go
<1>3. Stored' /\ Active(r)
  BY <1>2 DEF Neat, Stored, At, Active, Ended
<1>4. /\ \A q \in Runs \ {r} : run'[q] = run[q]
      /\ run'[r].pc = "document" /\ run'[r].list = run[r].list /\ run'[r].next = run[r].next
      /\ run'[r].quiet = run[r].quiet /\ run'[r].print = run[r].print
      /\ run'[r].copies = run[r].copies
  BY <1>1, <1>2 DEF Typed, RunStates
<1>5. \A f \in Files : Listed(f)' = Listed(f)
  BY <1>2 DEF Listed
<1>6. ASSUME Consistent(r) PROVE Consistent(r)'
  <2>1. run[r].next = 1
    BY <1>2, <1>6 DEF Consistent, At
  <2>2. \A d \in Documents : ~(d < run'[r].next)
    BY <1>4, <2>1, LastDocumentAssumption DEF Documents
  <2>3. run'[r].copies => Exchanged(r, Assets)'
    BY <1>2, <1>4, <1>6 DEF Consistent, Exchanged
  <2>4. QED BY <1>2, <1>4, <1>5, <1>6, <2>2, <2>3 DEF Consistent, Scanned, At
<1>7. QED BY <1>3, <1>4, <1>6, OwnStep
-----------------------------------------------------------------------------
(* The documents are written in their order; the last completes the run.    *)
LEMMA DocumentNeat ==
  ASSUME Typed, Neat, NEW r \in Runs, WriteDocument(r)
  PROVE  Neat' /\ \A q \in Runs : Completes(q)
<1>1. run[r] \in RunStates
  BY DEF Typed
<1>2. UNCHANGED <<source, exchange>> /\ At(r, "document")
  BY DEF WriteDocument
<1>3. Stored' /\ Active(r)
  BY <1>2 DEF Neat, Stored, At, Active, Ended, WriteDocument, Fault
<1>4. CASE Ends(r, "failed")
  BY <1>3, <1>4, EndsNeat
<1>5. ASSUME Fault, Written([run[r] EXCEPT !.quiet = FALSE], r)
      PROVE  Neat' /\ \A q \in Runs : Completes(q)
  <2>1. faults' # faults
    BY <1>5 DEF Fault, Neat, Stored
  <2>2. CASE Ends(r, "completed")
    <3>1. /\ \A q \in Runs \ {r} : run'[q] = run[q]
          /\ run'[r].pc = "completed"
      BY <2>2, GoTyped DEF Places
    <3>2. ~Active(r)'
      BY <3>1 DEF Active, Ended, At
    <3>3. QED BY <1>3, <2>1, <3>1, <3>2, OwnStep DEF Completes
  <2>3. CASE run' = [run EXCEPT ![r] = [[run[r] EXCEPT !.quiet = FALSE] EXCEPT !.next = @ + 1]]
    <3>1. /\ \A q \in Runs \ {r} : run'[q] = run[q]
          /\ run'[r].pc = run[r].pc /\ run'[r].quiet = FALSE
      BY <1>1, <2>3 DEF Typed, RunStates
    <3>2. run'[r].pc \notin {"idle", "completed"}
      BY <1>2, <3>1 DEF At
    <3>3. QED BY <1>3, <3>1, <3>2, OwnStep
  <2>4. QED BY <1>5, <2>2, <2>3 DEF Written
<1>6. ASSUME docs' = [docs EXCEPT ![run[r].next] = r], Written(run[r], r)
      PROVE  Neat' /\ \A q \in Runs : Completes(q)
  <2>1. run[r].next \in Nat
    BY <1>1 DEF RunStates
  <2>2. ASSUME Consistent(r), NEW d \in Documents, d <= run[r].next PROVE docs'[d] = r
    <3>1. d \in Nat
      BY LastDocumentAssumption DEF Documents
    <3>2. CASE d = run[r].next
      BY <1>6, <3>2 DEF Neat, Stored
    <3>3. CASE d < run[r].next
      <4>1. docs[d] = r
        BY <1>2, <2>2, <3>3 DEF Consistent
      <4>2. d # run[r].next
        BY <2>1, <3>1, <3>3
      <4>3. QED BY <1>6, <4>1, <4>2 DEF Neat, Stored
    <3>4. QED BY <2>1, <2>2, <3>1, <3>2, <3>3
  <2>3. CASE Ends(r, "completed") /\ run[r].next = LastDocument
    <3>1. /\ \A q \in Runs \ {r} : run'[q] = run[q]
          /\ run'[r].pc = "completed"
      BY <2>3, GoTyped DEF Places
    <3>2. ~Active(r)'
      BY <3>1 DEF Active, Ended, At
    <3>3. Completes(r)
      <4> SUFFICES ASSUME run[r].quiet
                   PROVE  /\ run[r].print = run[r].list
                          /\ \A d \in Documents : docs'[d] = r
                          /\ run[r].copies => \A f \in Assets :
                                run[r].list[f] # None => exchange'[f] = run[r].list[f]
        BY DEF Completes
      <4>1. Consistent(r)
        BY <1>3 DEF Neat
      <4>2. run[r].print = run[r].list /\ (run[r].copies => Exchanged(r, Assets))
        BY <1>2, <4>1 DEF Consistent, At
      <4>3. \A d \in Documents : d <= run[r].next
        BY <2>3, LastDocumentAssumption DEF Documents
      <4>4. QED BY <1>2, <2>2, <4>1, <4>2, <4>3 DEF Exchanged
    <3>4. QED BY <1>3, <3>1, <3>2, <3>3, OwnStep
  <2>4. CASE run' = [run EXCEPT ![r] = [run[r] EXCEPT !.next = @ + 1]]
    <3>1. /\ \A q \in Runs \ {r} : run'[q] = run[q]
          /\ run'[r].pc = run[r].pc /\ run'[r].list = run[r].list
          /\ run'[r].next = run[r].next + 1
          /\ run'[r].quiet = run[r].quiet /\ run'[r].print = run[r].print
          /\ run'[r].copies = run[r].copies
      BY <1>1, <2>4 DEF Typed, RunStates
    <3>2. \A f \in Files : Listed(f)' = Listed(f)
      BY <1>2 DEF Listed
    <3>3. ASSUME Consistent(r) PROVE Consistent(r)'
      <4>1. ASSUME NEW d \in Documents, d < run'[r].next PROVE docs'[d] = r
        <5>1. d <= run[r].next
          BY <2>1, <3>1, <4>1, LastDocumentAssumption DEF Documents
        <5>2. QED BY <2>2, <3>3, <5>1
      <4>2. run'[r].copies => Exchanged(r, Assets)'
        BY <1>2, <3>1, <3>3 DEF Consistent, Exchanged
      <4>3. QED BY <1>2, <3>1, <3>2, <3>3, <4>1, <4>2 DEF Consistent, Scanned, At
    <3>4. run'[r].pc \notin {"idle", "completed"}
      BY <1>2, <3>1 DEF At
    <3>5. QED BY <1>3, <3>1, <3>3, <3>4, OwnStep
  <2>5. QED BY <1>6, <2>3, <2>4 DEF Written
<1>7. QED BY <1>4, <1>5, <1>6 DEF WriteDocument
-----------------------------------------------------------------------------
(* Who is disturbed and works is not quiet.                                 *)
LEMMA DisturbedNotQuiet ==
  ASSUME Typed, NEW q \in Runs
  PROVE  /\ Disturbed[q].quiet => ~Active(q)
         /\ Disturbed[q].next = run[q].next
<1>1. run[q] \in RunStates
  BY DEF Typed
<1>2. PICK quiet \in BOOLEAN : quiet = (run[q].quiet /\ ~Active(q))
  OBVIOUS
<1>3. Disturbed[q] = [run[q] EXCEPT !.quiet = quiet]
  BY <1>2 DEF Disturbed
<1>4. Disturbed[q].quiet = quiet /\ Disturbed[q].next = run[q].next
  BY <1>1, <1>3 DEF RunStates
<1>5. QED BY <1>2, <1>4

LEMMA EditNeat ==
  ASSUME Typed, Neat, NEW g \in Files, Edit(g)
  PROVE  Neat' /\ \A q \in Runs : Completes(q)
<1>1. run' = Disturbed /\ UNCHANGED <<docs, exchange, faults>>
  BY DEF Edit
<1>2. Stored'
  BY <1>1 DEF Neat, Stored
<1>3. ASSUME NEW q \in Runs
      PROVE  /\ run'[q].pc = run[q].pc /\ run'[q].next = run[q].next
             /\ run'[q].quiet => ~Active(q)
  BY <1>1, DisturbedTyped, DisturbedNotQuiet
<1>4. \A q \in Runs : ~(Active(q)' /\ run'[q].quiet) /\ Completes(q)
  BY <1>3 DEF Active, Ended, At, Completes
<1>5. \A q \in Runs : At(q, "idle")' => run'[q].next = 1
  BY <1>3 DEF At, Neat
<1>6. QED BY <1>2, <1>4, <1>5 DEF Neat

LEMMA MakeOutputNeat ==
  ASSUME Typed, Neat, NEW r \in Runs, NEW pc \in {"nested", "scan"}, NEW backs \in BOOLEAN,
         NEW copies \in BOOLEAN, MakeOutput(r, pc, backs, copies)
  PROVE  Neat' /\ \A q \in Runs : Completes(q)
<1>1. Disturbed \in [Runs -> RunStates] /\ Disturbed[r] \in RunStates
  BY DisturbedTyped
<1>2. PICK alone \in BOOLEAN : /\ Begins(r, pc, backs, copies, alone)
                               /\ alone => \A o \in Runs \ {r} : ~Active(o)
  BY DEF MakeOutput
<1>3. At(r, "idle") /\ UNCHANGED <<docs, exchange, faults>>
  BY DEF MakeOutput
<1>4. run' = [Disturbed EXCEPT ![r].pc = pc, ![r].quiet = alone, ![r].backs = backs,
                               ![r].copies = copies, ![r].todo = Files]
  BY <1>2 DEF Begins
<1>5. /\ \A q \in Runs \ {r} : run'[q] = Disturbed[q]
      /\ run'[r].pc = pc /\ run'[r].todo = Files /\ run'[r].next = Disturbed[r].next
      /\ run'[r].quiet = alone
  <2> HIDE DEF Files, Disturbed
  <2>1. QED BY <1>1, <1>4 DEF RunStates
<1>6. Stored'
  BY <1>3 DEF Neat, Stored
<1>7. ASSUME NEW q \in Runs \ {r}
      PROVE  /\ run'[q].pc = run[q].pc /\ run'[q].next = run[q].next
             /\ run'[q].quiet => ~Active(q)
  BY <1>5, DisturbedTyped, DisturbedNotQuiet
<1>8. ASSUME NEW q \in Runs \ {r}
      PROVE  /\ ~(Active(q)' /\ run'[q].quiet) /\ Completes(q)
             /\ At(q, "idle")' => run'[q].next = 1
  BY <1>7 DEF Active, Ended, At, Completes, Neat
<1>9. run'[r].next = 1
  BY <1>3, <1>5, DisturbedNotQuiet DEF Neat
<1>10. Consistent(r)'
  BY <1>5, <1>9 DEF Consistent, Scanned, At
<1>11. run'[r].quiet => Alone(r)'
  <2>1. ASSUME run'[r].quiet, NEW o \in Runs \ {r} PROVE ~Active(o)'
    BY <1>2, <1>5, <1>7, <2>1 DEF Active, Ended, At
  <2>2. QED BY <2>1 DEF Alone
<1>12. ~At(r, "idle")' /\ Completes(r)
  BY <1>5 DEF At, Completes
<1>13. QED BY <1>6, <1>8, <1>10, <1>11, <1>12 DEF Neat

LEMMA KilledNeat ==
  ASSUME Typed, Neat, NEW r \in Runs, Killed(r)
  PROVE  Neat' /\ \A q \in Runs : Completes(q)
<1>1. Stored' /\ Active(r) /\ Ends(r, "failed")
  BY DEF Killed, Fault, Neat, Stored
<1>2. QED BY <1>1, EndsNeat

LEMMA StepNeat ==
  ASSUME Typed, Neat, [PreflightNext]_preVars
  PROVE  Neat' /\ \A q \in Runs : Completes(q)
<1>1. CASE UNCHANGED preVars
  BY <1>1 DEF preVars, Neat, Stored, Consistent, Scanned, Exchanged, Listed, Alone, Active,
              Ended, At, Completes
<1>2. ASSUME NEW r \in Runs, NEW next \in {"nested", "scan"}, NEW backs \in BOOLEAN,
             NEW copies \in BOOLEAN, MakeOutput(r, next, backs, copies)
      PROVE  Neat' /\ \A q \in Runs : Completes(q)
  BY <1>2, MakeOutputNeat
<1>3. ASSUME NEW r \in Runs,
             \/ RefuseNested(r) \/ StageOpen(r) \/ StageWrite(r) \/ StageHash(r)
             \/ Scan(r) \/ StageRemove(r)
      PROVE  Neat' /\ \A q \in Runs : Completes(q)
  BY <1>3, StagesNeat, ScanNeat, RemoveNeat
<1>4. ASSUME NEW r \in Runs, BackupEnds(r) \/ \E g \in Files : BackupFile(r, g)
      PROVE  Neat' /\ \A q \in Runs : Completes(q)
  BY <1>4, BackupNeat
<1>5. ASSUME NEW r \in Runs, CopyAsset(r) \/ CopyEnds(r) \/ WriteDocument(r) \/ Killed(r)
      PROVE  Neat' /\ \A q \in Runs : Completes(q)
  BY <1>5, CopyNeat, CopyEndsNeat, DocumentNeat, KilledNeat
<1>6. ASSUME NEW g \in Files, Edit(g)
      PROVE  Neat' /\ \A q \in Runs : Completes(q)
  BY <1>6, EditNeat
<1>7. QED BY <1>1, <1>2, <1>3, <1>4, <1>5, <1>6 DEF PreflightNext, Step

(* A run that nobody disturbs and that completes with no write lost has     *)
(* described one project, however many ran, failed and were killed before   *)
(* it: session_fingerprint hashed its own list although the temporary file  *)
(* has one name for all, and copy_safely left in the exchange what the      *)
(* list names.                                                              *)
THEOREM QuietRunsDescribeOneProject == PreflightSpec => QuietRunsAreConsistent
<1>1. PreflightInit => Neat
  <2> SUFFICES ASSUME PreflightInit PROVE Neat
    OBVIOUS
  <2>1. Stored
    BY DEF PreflightInit, Stored, Nothing
  <2>2. \A r \in Runs : run[r].next = 1 /\ ~Active(r)
    BY DEF PreflightInit, Fresh, Active, Ended, At
  <2>3. QED BY <2>1, <2>2 DEF Neat
<1>2. Inv /\ Neat /\ [PreflightNext]_preVars => Neat'
  BY StepNeat DEF Inv
<1>3. Inv /\ Neat /\ [PreflightNext]_preVars
        => [\A r \in Runs :
              run[r].pc # "completed" /\ run'[r].pc = "completed" /\ run[r].quiet
                /\ faults' = faults
                => /\ run[r].print = run[r].list
                   /\ \A d \in Documents : docs'[d] = r
                   /\ run[r].copies =>
                         \A f \in Assets : run[r].list[f] # None
                                              => exchange'[f] = run[r].list[f]]_preVars
  BY StepNeat DEF Inv, Completes
<1>4. QED BY InvHolds, <1>1, <1>2, <1>3, PTL DEF PreflightSpec, QuietRunsAreConsistent
=============================================================================
