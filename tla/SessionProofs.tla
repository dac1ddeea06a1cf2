---------------------------- MODULE SessionProofs ----------------------------
(***************************************************************************)
(* Sessions stored, merged and imported.                                   *)
(*                                                                         *)
(* Store: for every number of files, revisions, crashes, failures and      *)
(* damaged files.  The invariant says which revision each of the three     *)
(* names holds between any two calls of save.  It needs that no file has   *)
(* two names, or writing the pending one would tear a saved revision.      *)
(*                                                                         *)
(* Merge: for every number of changes.  A plan is what plan_merge made of  *)
(* the two branches, whatever was answered since.                          *)
(*                                                                         *)
(* Import: for every project and normalisation of names.  A file is        *)
(* written of a session that validate passed, and in memory only content   *)
(* hashes are added to it, which the file leaves out.                      *)
(***************************************************************************)
EXTENDS SessionStore, SessionPipeline, FiniteSetTheorems, WellFoundedInduction, TLAPS

USE StoreAssumption DEF Names

(* No file has two names, in memory or on the disk.                        *)
Apart(d) == \A m, n \in Names : d[m] = d[n] /\ d[m] # NoFile => m = n
FilesApart == Apart(dir) /\ Apart(disk)

(* A save is later than what was saved before it.                          *)
Ordered ==
  /\ before <= saved /\ saved <= saving
  /\ pc # "idle" => saved < saving

(* Written through, the disk lags behind by an opened pending file.        *)
WrittenThrough ==
  WriteThrough =>
    /\ disk["current"] = dir["current"] /\ disk["previous"] = dir["previous"]
    /\ disk["pending"] = dir["pending"] \/ disk["pending"] = NoFile

(* Undamaged: the last saved revision is the current file or, when a save  *)
(* ended between its two renames, the previous one; and a pending file is  *)
(* torn or later than it.                                                  *)
Undamaged ==
  WriteThrough /\ damage = 0 =>
    /\ dir["current"] # NoFile => Holds(dir, "current") = saved
    /\ dir["current"] = NoFile /\ saved # 0 => Holds(dir, "previous") = saved
    /\ Holds(dir, "pending") = 0 \/ Holds(dir, "pending") > saved
    /\ pc = "written" => Holds(dir, "pending") \in {0, saving}
    /\ pc \in {"validated", "rotated"} => Holds(dir, "pending") = saving

(* Uninterrupted: of the files that matter at this point of a save, one is *)
(* damaged at most, and none before the damage.                            *)
Intact(name, r) == Holds(dir, name) = r
Uninterrupted ==
  crashes = 0 /\ failures = 0 /\ damage <= 1 =>
    /\ pc # "rotated" =>
         /\ Intact("current", saved) \/ Intact("current", 0)
         /\ Intact("previous", before) \/ Intact("previous", 0)
         /\ Intact("current", saved) \/ Intact("previous", before)
         /\ damage = 0 => Intact("current", saved) /\ Intact("previous", before)
         /\ dir["current"] = NoFile => saved = 0
    /\ pc \in {"idle", "writing"} => Intact("pending", 0)
    /\ pc = "written" => Intact("pending", 0) \/ Intact("pending", saving)
    /\ pc \in {"validated", "rotated"} => Intact("pending", saving) \/ Intact("pending", 0)
    /\ pc = "validated" /\ ~Intact("pending", saving) =>
         damage = 1 /\ Intact("current", saved) /\ Intact("previous", before)
    /\ pc = "rotated" =>
         /\ Intact("previous", saved) \/ Intact("previous", 0)
         /\ Intact("previous", saved) \/ Intact("pending", saving)
         /\ damage = 0 => Intact("previous", saved) /\ Intact("pending", saving)

Inv == TypeOK /\ FilesApart /\ Ordered /\ WrittenThrough /\ Undamaged /\ Uninterrupted
-----------------------------------------------------------------------------
(* Before the first save there is no file, and nothing was saved.          *)
LEMMA Starts == Init => Inv
  BY DEF Init, Inv, TypeOK, FilesApart, Apart, Ordered, WrittenThrough, Undamaged, Uninterrupted,
         Intact, Holds, Revisions

(* A save only opens while it may take a revision, and its pending file    *)
(* stays where it is until it is installed.                                *)
LEMMA TypesKept == Inv /\ [Next]_vars => TypeOK'
<1> SUFFICES ASSUME Inv, [Next]_vars PROVE TypeOK'
  OBVIOUS
<1> USE DEF Inv, TypeOK, Holds, Revisions
<1>1. CASE OpenPending
  BY <1>1 DEF OpenPending, Unused, bounds
<1>2. CASE WritePending
  BY <1>2 DEF WritePending, bounds
<1>3. CASE ValidatePending
  BY <1>3 DEF ValidatePending, bounds
<1>4. CASE RotateCurrent
  BY <1>4 DEF RotateCurrent, Rename, bounds
<1>5. CASE InstallPending
  BY <1>5 DEF InstallPending, Rename, bounds
<1>6. CASE CallFails
  BY <1>6 DEF CallFails, bounds
<1>7. CASE WriteBack
  BY <1>7 DEF WriteBack, bounds
<1>8. CASE ProcessCrash
  BY <1>8 DEF ProcessCrash, bounds
<1>9. CASE PowerFailure
  BY <1>9 DEF PowerFailure, bounds
<1>10. ASSUME NEW n \in Names, DamageFile(n) PROVE TypeOK'
  BY <1>10 DEF DamageFile
<1>11. CASE UNCHANGED vars
  BY <1>11 DEF vars
<1>12. QED
  BY <1>1, <1>2, <1>3, <1>4, <1>5, <1>6, <1>7, <1>8, <1>9, <1>10, <1>11 DEF Next

(* A new pending file is one no name has, and a rename moves a name.       *)
LEMMA FilesStayApart == Inv /\ [Next]_vars => FilesApart'
<1> SUFFICES ASSUME Inv, [Next]_vars PROVE FilesApart'
  OBVIOUS
<1> USE DEF Inv, TypeOK, FilesApart, Apart
<1>1. CASE OpenPending
  BY <1>1 DEF OpenPending, Unused, bounds
<1>2. CASE WritePending
  BY <1>2 DEF WritePending, bounds
<1>3. CASE ValidatePending
  BY <1>3 DEF ValidatePending, bounds
<1>4. CASE RotateCurrent
  BY <1>4 DEF RotateCurrent, Rename, bounds
<1>5. CASE InstallPending
  BY <1>5 DEF InstallPending, Rename, bounds
<1>6. CASE CallFails
  BY <1>6 DEF CallFails, bounds
<1>7. CASE WriteBack
  BY <1>7 DEF WriteBack, bounds
<1>8. CASE ProcessCrash
  BY <1>8 DEF ProcessCrash, bounds
<1>9. CASE PowerFailure
  BY <1>9 DEF PowerFailure, bounds
<1>10. ASSUME NEW n \in Names, DamageFile(n) PROVE FilesApart'
  BY <1>10 DEF DamageFile
<1>11. CASE UNCHANGED vars
  BY <1>11 DEF vars
<1>12. QED
  BY <1>1, <1>2, <1>3, <1>4, <1>5, <1>6, <1>7, <1>8, <1>9, <1>10, <1>11 DEF Next

(* Revisions are numbered as saves begin, and saved when they end.         *)
LEMMA OrderKept == Inv /\ [Next]_vars => Ordered'
<1> SUFFICES ASSUME Inv, [Next]_vars PROVE Ordered'
  OBVIOUS
<1> USE DEF Inv, TypeOK, Ordered, Revisions
<1>1. CASE OpenPending
  BY <1>1 DEF OpenPending, Unused, bounds
<1>2. CASE WritePending
  BY <1>2 DEF WritePending, bounds
<1>3. CASE ValidatePending
  BY <1>3 DEF ValidatePending, bounds
<1>4. CASE RotateCurrent
  BY <1>4 DEF RotateCurrent, Rename, bounds
<1>5. CASE InstallPending
  BY <1>5 DEF InstallPending, Rename, bounds
<1>6. CASE CallFails
  BY <1>6 DEF CallFails, bounds
<1>7. CASE WriteBack
  BY <1>7 DEF WriteBack, bounds
<1>8. CASE ProcessCrash
  BY <1>8 DEF ProcessCrash, bounds
<1>9. CASE PowerFailure
  BY <1>9 DEF PowerFailure, bounds
<1>10. ASSUME NEW n \in Names, DamageFile(n) PROVE Ordered'
  BY <1>10 DEF DamageFile
<1>11. CASE UNCHANGED vars
  BY <1>11 DEF vars
<1>12. QED
  BY <1>1, <1>2, <1>3, <1>4, <1>5, <1>6, <1>7, <1>8, <1>9, <1>10, <1>11 DEF Next

(* A rename puts the whole directory on the disk.                          *)
LEMMA DiskFollows == Inv /\ [Next]_vars => WrittenThrough'
<1> SUFFICES ASSUME Inv, [Next]_vars PROVE WrittenThrough'
  OBVIOUS
<1> USE DEF Inv, TypeOK, WrittenThrough
<1>1. CASE OpenPending
  BY <1>1 DEF OpenPending, Unused, bounds
<1>2. CASE WritePending
  BY <1>2 DEF WritePending, bounds
<1>3. CASE ValidatePending
  BY <1>3 DEF ValidatePending, bounds
<1>4. CASE RotateCurrent
  BY <1>4 DEF RotateCurrent, Rename, bounds
<1>5. CASE InstallPending
  BY <1>5 DEF InstallPending, Rename, bounds
<1>6. CASE CallFails
  BY <1>6 DEF CallFails, bounds
<1>7. CASE WriteBack
  BY <1>7 DEF WriteBack, bounds
<1>8. CASE ProcessCrash
  BY <1>8 DEF ProcessCrash, bounds
<1>9. CASE PowerFailure
  BY <1>9 DEF PowerFailure, bounds
<1>10. ASSUME NEW n \in Names, DamageFile(n) PROVE WrittenThrough'
  BY <1>10 DEF DamageFile
<1>11. CASE UNCHANGED vars
  BY <1>11 DEF vars
<1>12. QED
  BY <1>1, <1>2, <1>3, <1>4, <1>5, <1>6, <1>7, <1>8, <1>9, <1>10, <1>11 DEF Next

(* Of the two renames the first leaves the saved revision as the previous  *)
(* one, the second replaces it by a later one.                             *)
LEMMA UndamagedKept == Inv /\ [Next]_vars => Undamaged'
<1> SUFFICES ASSUME Inv, [Next]_vars PROVE Undamaged'
  OBVIOUS
<1> USE DEF Inv, TypeOK, FilesApart, Apart, Ordered, WrittenThrough, Undamaged, Holds, Revisions
<1>1. CASE OpenPending
  BY <1>1 DEF OpenPending, Unused, bounds
<1>2. CASE WritePending
  BY <1>2 DEF WritePending, bounds
<1>3. CASE ValidatePending
  BY <1>3 DEF ValidatePending, bounds
<1>4. CASE RotateCurrent
  BY <1>4 DEF RotateCurrent, Rename, bounds
<1>5. CASE InstallPending
  BY <1>5 DEF InstallPending, Rename, bounds
<1>6. CASE CallFails
  BY <1>6 DEF CallFails, bounds
<1>7. CASE WriteBack
  BY <1>7 DEF WriteBack, bounds
<1>8. CASE ProcessCrash
  BY <1>8 DEF ProcessCrash, bounds
<1>9. CASE PowerFailure
  BY <1>9 DEF PowerFailure, bounds
<1>10. ASSUME NEW n \in Names, DamageFile(n) PROVE Undamaged'
  BY <1>10 DEF DamageFile
<1>11. CASE UNCHANGED vars
  BY <1>11 DEF vars
<1>12. QED
  BY <1>1, <1>2, <1>3, <1>4, <1>5, <1>6, <1>7, <1>8, <1>9, <1>10, <1>11 DEF Next

(* A save that was validated has the good pending file that makes up for   *)
(* rotating a damaged current one over the previous one.                   *)
LEMMA UninterruptedKept == Inv /\ [Next]_vars => Uninterrupted'
<1> SUFFICES ASSUME Inv, [Next]_vars PROVE Uninterrupted'
  OBVIOUS
<1> USE DEF Inv, TypeOK, FilesApart, Apart, Ordered, Uninterrupted, Intact, Holds, Revisions
<1>1. CASE OpenPending
  BY <1>1 DEF OpenPending, Unused, bounds
<1>2. CASE WritePending
  BY <1>2 DEF WritePending, bounds
<1>3. CASE ValidatePending
  BY <1>3 DEF ValidatePending, bounds
<1>4. CASE RotateCurrent
  BY <1>4 DEF RotateCurrent, Rename, bounds
<1>5. CASE InstallPending
  BY <1>5 DEF InstallPending, Rename, bounds
<1>6. CASE CallFails
  BY <1>6 DEF CallFails, bounds
<1>7. CASE WriteBack
  BY <1>7 DEF WriteBack, bounds
<1>8. CASE ProcessCrash
  BY <1>8 DEF ProcessCrash, bounds
<1>9. CASE PowerFailure
  BY <1>9 DEF PowerFailure, bounds
<1>10. ASSUME NEW n \in Names, DamageFile(n) PROVE Uninterrupted'
  BY <1>10 DEF DamageFile
<1>11. CASE UNCHANGED vars
  BY <1>11 DEF vars
<1>12. QED
  BY <1>1, <1>2, <1>3, <1>4, <1>5, <1>6, <1>7, <1>8, <1>9, <1>10, <1>11 DEF Next

(* The invariant holds of every state.                                     *)
THEOREM InvariantHolds == Spec => []Inv
<1>1. Init => Inv
  BY Starts
<1>2. Inv /\ [Next]_vars => Inv'
  BY TypesKept, FilesStayApart, OrderKept, DiskFollows, UndamagedKept, UninterruptedKept DEF Inv
<1>3. QED
  BY <1>1, <1>2, PTL DEF Spec
-----------------------------------------------------------------------------
(* What a load of this directory finds, now and after a power failure.     *)
LEMMA LoadFindsSaved ==
  Inv /\ WriteThrough => SavedIsDurable
<1> SUFFICES ASSUME Inv, WriteThrough, damage = 0
             PROVE  Recovered(dir) >= saved /\ Recovered(disk) >= saved
  BY DEF SavedIsDurable
<1> USE DEF Inv, TypeOK, Undamaged, Revisions
<1>1. \/ dir["current"] # NoFile /\ Holds(dir, "current") = saved
      \/ dir["current"] = NoFile /\ (saved = 0 \/ Holds(dir, "previous") = saved)
  OBVIOUS
<1>2. Recovered(dir) >= saved
  BY <1>1 DEF Recovered, Holds, Ordered
<1>3. /\ Holds(disk, "current") = Holds(dir, "current")
      /\ Holds(disk, "previous") = Holds(dir, "previous")
      /\ Holds(disk, "pending") \in {0, Holds(dir, "pending")}
  BY DEF WrittenThrough, Holds
<1>4. Recovered(disk) >= saved
  BY <1>1, <1>3 DEF Recovered, Holds, Ordered
<1>5. QED
  BY <1>2, <1>4

(* One damaged file leaves the last saved revision or the one before it.   *)
LEMMA DamageLeavesOne == Inv => DamageCostsOneRevision
  BY DEF Inv, TypeOK, Ordered, Uninterrupted, Intact, Holds, Recovered, DamageCostsOneRevision,
         Revisions
-----------------------------------------------------------------------------
(* The variables have their types; a save in progress has a pending file   *)
(* and, between its renames, no current one.                               *)
THEOREM TypeCorrect == Spec => []TypeOK
  BY InvariantHolds, PTL DEF Inv

(* Where renames are written through, what save returned true for is not   *)
(* lost: not by a failing call, a crash of the process or a power failure  *)
(* at any point of a later save, nor by any number of them.                *)
THEOREM SavedStaysDurable ==
  ASSUME WriteThrough PROVE Spec => []SavedIsDurable
<1>1. Inv => SavedIsDurable
  BY LoadFindsSaved
<1>2. QED
  BY <1>1, InvariantHolds, PTL

(* While no save is interrupted, one damaged file costs at most the last   *)
(* saved revision, whichever file it is and whenever it is damaged.        *)
THEOREM DamageIsContained == Spec => []DamageCostsOneRevision
<1>1. Inv => DamageCostsOneRevision
  BY DamageLeavesOne
<1>2. QED
  BY <1>1, InvariantHolds, PTL
-----------------------------------------------------------------------------
(* Merging.  A plan is what plan_merge made of the two branches; answers   *)
(* and extracted sections only add to it.                                  *)
MadeOf(made, hardware, daw) ==
  /\ "conflicts" \in DOMAIN made /\ made.conflicts = DetectConflicts(hardware, daw)
  /\ "automatic" \in DOMAIN made
  /\ made.automatic = Automatic(hardware, daw, made.conflicts)
PlanOfBranches ==
  /\ changes \in [Sides -> Branch]
  /\ plan # NoPlan => MadeOf(plan, changes["hardware"], changes["daw"])

LEMMA Making ==
  ASSUME NEW hardware, NEW daw, NEW made, NEW resolutions, NEW ready
  PROVE  /\ MadeOf(Planned(hardware, daw), hardware, daw)
         /\ MadeOf(made, hardware, daw) =>
              /\ MadeOf([made EXCEPT !.resolutions = resolutions, !.ready = ready],
                        hardware, daw)
              /\ MadeOf([made EXCEPT !.extracted = TRUE], hardware, daw)
<1>1. MadeOf(Planned(hardware, daw), hardware, daw)
  BY DEF MadeOf, Planned
<1>2. ASSUME MadeOf(made, hardware, daw),
             NEW m \in {[made EXCEPT !.resolutions = resolutions, !.ready = ready],
                        [made EXCEPT !.extracted = TRUE]}
      PROVE  MadeOf(m, hardware, daw)
  <2>1. DOMAIN m = DOMAIN made
    OBVIOUS
  <2>2. m.conflicts = made.conflicts /\ m.automatic = made.automatic
    BY <1>2 DEF MadeOf
  <2>3. QED BY <1>2, <2>1, <2>2, Zenon DEF MadeOf
<1>3. QED BY <1>1, <1>2

LEMMA PlanFields ==
  ASSUME PlanOfBranches, plan # NoPlan
  PROVE  /\ plan.conflicts = DetectConflicts(changes["hardware"], changes["daw"])
         /\ plan.automatic = Automatic(changes["hardware"], changes["daw"], plan.conflicts)
BY DEF PlanOfBranches, MadeOf

LEMMA PlanOfBranchesKept == PlanOfBranches /\ [MergeNext]_mergeVars => PlanOfBranches'
<1> SUFFICES ASSUME PlanOfBranches, [MergeNext]_mergeVars PROVE PlanOfBranches'
  OBVIOUS
<1>1. ASSUME NEW side \in Sides, NEW cs \in Branch, CreateBranch(side, cs)
      PROVE  PlanOfBranches'
  BY <1>1 DEF CreateBranch, PlanOfBranches
<1>2. CASE PlanMerge
  BY <1>2, Making DEF PlanMerge, PlanOfBranches
<1>3. ASSUME NEW field, NEW choice, NEW value, Resolve(field, choice, value)
      PROVE  PlanOfBranches'
  <2>1. PICK resolutions, ready :
          plan' = [plan EXCEPT !.resolutions = resolutions, !.ready = ready]
    BY <1>3 DEF Resolve
  <2>2. plan # NoPlan /\ changes' = changes
    BY <1>3 DEF Resolve
  <2>3. QED BY <2>1, <2>2, Making DEF PlanOfBranches
<1>4. CASE ExtractSection
  BY <1>4, Making DEF ExtractSection, PlanOfBranches
<1>5. CASE SessionMoves
  BY <1>5 DEF SessionMoves, PlanOfBranches
<1>6. CASE UNCHANGED mergeVars
  BY <1>6 DEF mergeVars, PlanOfBranches
<1>7. QED BY <1>1, <1>2, <1>3, <1>4, <1>5, <1>6 DEF MergeNext

(* A change that is not in conflict goes in.                               *)
LEMMA PlansLoseNothing == PlanOfBranches => NothingLost
<1> SUFFICES ASSUME PlanOfBranches, plan # NoPlan, NEW side \in Sides,
                    NEW c \in Range(changes[side]),
                    \A p \in plan.conflicts : FieldOf(p) # c.field
             PROVE  c \in plan.automatic
  BY DEF NothingLost
<1>1. c \in Free(changes[side], changes["hardware"], plan.conflicts)
  BY DEF Free, FieldOf
<1>2. QED BY <1>1, PlanFields DEF Automatic, Sides

(* Of a field that is in no conflict all changes of the other side say the *)
(* same: two that differ would be a pair of detect_conflicts.              *)
LEMMA PlansOverwriteNothing == PlanOfBranches => NothingOverwritten
<1> DEFINE hardware == changes["hardware"]  daw == changes["daw"]
<1> SUFFICES ASSUME PlanOfBranches, plan # NoPlan, NEW c \in plan.automatic,
                    NEW side \in Sides, NEW d \in Range(changes[side]), d.field = c.field
             PROVE  c \in Range(changes[side])
  BY DEF NothingOverwritten
<1>1. \A p \in plan.conflicts : hardware[p[1]].field # c.field
  BY PlanFields DEF Automatic, Free
<1>2. c \in Range(hardware) \/ c \in Range(daw)
  BY PlanFields DEF Automatic, Free
<1>3. ASSUME NEW x \in Range(hardware), NEW y \in Range(daw),
             x.field = c.field, y.field = c.field
      PROVE  x.after = y.after
  <2>1. PICK i \in DOMAIN hardware : x = hardware[i]
    BY DEF Range
  <2>2. PICK j \in DOMAIN daw : y = daw[j]
    BY DEF Range
  <2>3. <<i, j>> \notin plan.conflicts
    BY <1>1, <1>3, <2>1
  <2>4. QED BY <1>3, <2>1, <2>2, <2>3, PlanFields DEF DetectConflicts, Differ
<1>4. CASE d \in Range(hardware) /\ c \in Range(daw) /\ side = "hardware"
  <2>1. d \in Change /\ c \in Change
    BY <1>4 DEF PlanOfBranches, Branch, Sides, Range
  <2>2. d.after = c.after
    BY <1>3, <1>4
  <2>3. d = c
    BY <2>1, <2>2 DEF Change
  <2>4. QED BY <2>3
<1>5. CASE d \in Range(daw) /\ c \in Range(hardware) /\ side = "daw"
  <2>1. d \in Change /\ c \in Change
    BY <1>5 DEF PlanOfBranches, Branch, Sides, Range
  <2>2. c.after = d.after
    BY <1>3, <1>5
  <2>3. d = c
    BY <2>1, <2>2 DEF Change
  <2>4. QED BY <2>3
<1>6. QED BY <1>2, <1>4, <1>5 DEF Sides

LEMMA MergeStarts == MergeInit => PlanOfBranches
<1> SUFFICES ASSUME MergeInit PROVE PlanOfBranches
  OBVIOUS
<1>1. <<>> \in [1 .. 0 -> Change]
  OBVIOUS
<1>2. <<>> \in Branch
  BY <1>1, MergeAssumption DEF Branch
<1>3. QED BY <1>2 DEF MergeInit, PlanOfBranches

LEMMA PlansComeFromBranches == MergeSpec => []PlanOfBranches
BY MergeStarts, PlanOfBranchesKept, PTL DEF MergeSpec

(* A merge drops nobody's work unseen: however many changes the two sides  *)
(* bring, each goes in or its field is shown as a conflict.                *)
THEOREM MergeLosesNothing == MergeSpec => []NothingLost
BY PlansComeFromBranches, PlansLoseNothing, PTL

(* Nothing a merge sets by itself differs from what a side that changed    *)
(* the same field set it to.                                               *)
THEOREM MergeOverwritesNothing == MergeSpec => []NothingOverwritten
BY PlansComeFromBranches, PlansOverwriteNothing, PTL

-----------------------------------------------------------------------------
(* Importing.  Lists of a project are sequences, so of the samples of a    *)
(* name there is a last and of the tracks of a name a first one.           *)
LEMMA ProjectLists ==
  ASSUME NEW p \in Projects
  PROVE  /\ Len(p.samples) \in Nat /\ DOMAIN p.samples = 1 .. Len(p.samples)
         /\ DOMAIN p.tracks \subseteq Nat
         /\ \A i \in DOMAIN p.samples : p.samples[i] \in XpjNames
BY ImportAssumption DEF Project

LEMMA LeastElement ==
  ASSUME NEW S \in SUBSET Nat, S # {}
  PROVE  \E i \in S : \A j \in S : i <= j
<1> DEFINE R == {ss \in Nat \X Nat : ss[1] < ss[2]}
<1>1. PICK i \in S : \A j \in S : <<j, i>> \notin R
  <2>1. IsWellFoundedOn(R, Nat)
    BY NatLessThanWellFounded DEF OpToRel
  <2> HIDE DEF R
  <2>2. QED BY <2>1, WFMin
<1>2. ASSUME NEW j \in S PROVE i <= j
  <2>1. <<j, i>> \in R <=> j < i
    OBVIOUS
  <2>2. QED BY <1>1, <2>1
<1>3. QED BY <1>2

LEMMA GreatestElement ==
  ASSUME NEW n \in Nat, NEW S \in SUBSET (1 .. n), S # {}
  PROVE  \E i \in S : \A j \in S : j <= i
<1> DEFINE T == {k \in 0 .. n : n - k \in S}
<1>1. T \in SUBSET Nat /\ T # {}
  <2>1. PICK x \in S : x \in 1 .. n
    OBVIOUS
  <2>2. n - x \in 0 .. n /\ n - (n - x) = x
    BY <2>1
  <2>3. n - x \in T
    BY <2>1, <2>2
  <2>4. T \in SUBSET Nat
    OBVIOUS
  <2> HIDE DEF T
  <2>5. QED BY <2>3, <2>4
<1>2. PICK k \in T : \A j \in T : k <= j
  <2> HIDE DEF T
  <2>1. QED BY <1>1, LeastElement
<1>3. ASSUME NEW j \in S PROVE j <= n - k
  <2>1. j \in 1 .. n /\ n - j \in 0 .. n /\ n - (n - j) = j
    OBVIOUS
  <2>2. n - j \in T
    BY <2>1
  <2>3. k <= n - j
    BY <1>2, <2>2
  <2>4. QED BY <2>1, <2>3
<1>4. QED BY <1>3

LEMMA AssetFound ==
  ASSUME NEW p \in Projects, NEW file, AssetOf(p, file) # None
  PROVE  \E i \in DOMAIN p.samples :
           p.samples[i] = file /\ AssetOf(p, file) = <<i, StableId[p.samples[i]]>>
<1> DEFINE S == SamplesNamed(p, file)
           last == CHOOSE i \in S : \A j \in S : j <= i
<1>1. S # {} /\ AssetOf(p, file) = Assets(p)[last].id
  BY DEF AssetOf
<1>2. S \in SUBSET (1 .. Len(p.samples)) /\ Len(p.samples) \in Nat
  BY ProjectLists DEF SamplesNamed
<1>3. last \in S
  <2> HIDE DEF S
  <2>1. QED BY <1>1, <1>2, GreatestElement
<1>4. QED BY <1>1, <1>3 DEF Assets, SamplesNamed

LEMMA TrackFound ==
  ASSUME NEW p \in Projects, NEW name, TracksNamed(p, name) # {}
  PROVE  TrackOf(p, name) \in DOMAIN p.tracks /\ p.tracks[TrackOf(p, name)].name = name
<1> DEFINE S == TracksNamed(p, name)
<1>1. S \in SUBSET Nat
  BY ProjectLists DEF TracksNamed
<1>2. TrackOf(p, name) \in S
  <2>1. TrackOf(p, name) = CHOOSE i \in S : \A j \in S : i <= j
    BY DEF TrackOf
  <2> HIDE DEF S
  <2>2. S # {}
    BY DEF S
  <2>3. QED BY <1>1, <2>1, <2>2, LeastElement
<1>3. QED BY <1>2 DEF TracksNamed

(* An identifier that validate found once resolves to its only owner.      *)
LEMMA Resolves ==
  ASSUME NEW values, ~DuplicateIds(values), NEW i \in DOMAIN values
  PROVE  ResolvesOnce(values, values[i].id)
<1>1. {j \in DOMAIN values : values[j].id = values[i].id} = {i}
  BY DEF DuplicateIds
<1>2. QED BY <1>1, FS_Singleton DEF ResolvesOnce

LEMMA NothingToReport ==
  ASSUME NEW s, Validate(s) = {}
  PROVE  /\ ~DuplicateIds(s.tracks) /\ ~DuplicateIds(s.pads) /\ ~DuplicateIds(s.slices)
         /\ ~DuplicateIds(s.programs) /\ ~DuplicateIds(s.sequences) /\ ~DuplicateIds(s.clips)
<1>1. ~DuplicateIds(s.tracks)
  BY "duplicate_track_id" \notin Validate(s) DEF Validate
<1>2. ~DuplicateIds(s.pads)
  BY "duplicate_pad_id" \notin Validate(s) DEF Validate
<1>3. ~DuplicateIds(s.slices)
  BY "duplicate_slice_id" \notin Validate(s) DEF Validate
<1>4. ~DuplicateIds(s.programs)
  BY "duplicate_program_id" \notin Validate(s) DEF Validate
<1>5. ~DuplicateIds(s.sequences)
  BY "duplicate_sequence_id" \notin Validate(s) DEF Validate
<1>6. ~DuplicateIds(s.clips)
  BY "duplicate_clip_id" \notin Validate(s) DEF Validate
<1>7. QED BY <1>1, <1>2, <1>3, <1>4, <1>5, <1>6

(* What is in a file, and what of it validate has found to be unique.  The *)
(* file has no programs, but they were checked before it was written.      *)
FileOf(p) == Serialized(Session(p))

LEMMA FileFields ==
  ASSUME NEW p
  PROVE  /\ FileOf(p).assets =
              [i \in DOMAIN Assets(p) |-> [id |-> Assets(p)[i].id, file |-> Assets(p)[i].file]]
         /\ FileOf(p).tracks = [i \in DOMAIN p.tracks |-> [id |-> i, name |-> p.tracks[i].name]]
         /\ FileOf(p).sequences = [j \in DOMAIN p.sequences |-> [id |-> SequenceKeys(p)[j]]]
         /\ FileOf(p).pads = Pads(p) /\ FileOf(p).slices = Slices(p)
         /\ FileOf(p).clips = Clips(p) /\ FileOf(p).songs = Songs(p)
         /\ FileOf(p).events = MidiEvents(p)
<1> DEFINE s == Session(p)
<1>1. /\ s.assets = Assets(p) /\ s.pads = Pads(p) /\ s.slices = Slices(p)
      /\ s.clips = Clips(p) /\ s.events = MidiEvents(p) /\ s.songs = Songs(p)
      /\ s.tracks = [i \in DOMAIN p.tracks |-> [id |-> i, name |-> p.tracks[i].name]]
      /\ s.sequences = [j \in DOMAIN p.sequences |-> [id |-> SequenceKeys(p)[j]]]
  BY DEF Session
<1> HIDE DEF s
<1>2. FileOf(p) = Serialized(s)
  BY DEF FileOf, s
<1>3. QED BY <1>1, <1>2 DEF Serialized

LEMMA ValidFiles ==
  ASSUME NEW p, Validate(Session(p)) = {}
  PROVE  /\ ~DuplicateIds(FileOf(p).tracks) /\ ~DuplicateIds(Pads(p))
         /\ ~DuplicateIds(Slices(p)) /\ ~DuplicateIds(Programs(p))
         /\ ~DuplicateIds(FileOf(p).sequences) /\ ~DuplicateIds(Clips(p))
<1> DEFINE s == Session(p)
<1>1. /\ s.tracks = FileOf(p).tracks /\ s.sequences = FileOf(p).sequences
      /\ s.pads = Pads(p) /\ s.slices = Slices(p) /\ s.programs = Programs(p)
      /\ s.clips = Clips(p)
  BY FileFields DEF Session
<1> HIDE DEF s
<1>2. Validate(s) = {}
  BY DEF s
<1>3. QED BY <1>1, <1>2, NothingToReport

(* A sequence is known by its key, and a clip by its sequence and track.   *)
LEMMA KeysDiffer ==
  ASSUME NEW p, Validate(Session(p)) = {},
         NEW i \in DOMAIN p.sequences, NEW j \in DOMAIN p.sequences,
         SequenceKeys(p)[i] = SequenceKeys(p)[j]
  PROVE  i = j
<1> DEFINE q == FileOf(p).sequences
<1>1. q = [k \in DOMAIN p.sequences |-> [id |-> SequenceKeys(p)[k]]]
  BY FileFields
<1>2. ~DuplicateIds(q)
  BY ValidFiles
<1> HIDE DEF q
<1>3. i \in DOMAIN q /\ j \in DOMAIN q /\ q[i].id = q[j].id
  BY <1>1
<1>4. QED BY <1>2, <1>3 DEF DuplicateIds

LEMMA ClipAt ==
  ASSUME NEW p, NEW x \in ClipPlaces(p)
  PROVE  LET c == p.sequences[x[1]].clips[x[2]]
         IN  /\ x = <<x[1], x[2]>> /\ x[1] \in DOMAIN p.sequences
             /\ x[2] \in ClipsOf(p, x[1]) /\ x[2] \in DOMAIN p.sequences[x[1]].clips
             /\ TracksNamed(p, c.track) # {}
             /\ Clips(p)[x].id = <<SequenceKeys(p)[x[1]], TrackOf(p, c.track)>>
             /\ Clips(p)[x].track = TrackOf(p, c.track)
             /\ Clips(p)[x].sequence = SequenceKeys(p)[x[1]]
<1>1. x = <<x[1], x[2]>> /\ x[1] \in DOMAIN p.sequences /\ x[2] \in ClipsOf(p, x[1])
  BY DEF ClipPlaces
<1>2. Clips(p)[x] = Clip(p, SequenceKeys(p)[x[1]], p.sequences[x[1]].clips[x[2]])
  BY DEF Clips
<1>3. QED BY <1>1, <1>2 DEF Clip, ClipsOf

LEMMA ClipsDiffer ==
  ASSUME NEW p, Validate(Session(p)) = {}, NEW x \in ClipPlaces(p), NEW y \in ClipPlaces(p),
         Clips(p)[x].sequence = Clips(p)[y].sequence, Clips(p)[x].track = Clips(p)[y].track
  PROVE  x = y
<1>1. Clips(p)[x].id = Clips(p)[y].id
  BY ClipAt
<1>2. ~DuplicateIds(Clips(p)) /\ x \in DOMAIN Clips(p) /\ y \in DOMAIN Clips(p)
  BY ValidFiles DEF Clips
<1>3. QED BY <1>1, <1>2 DEF DuplicateIds

LEMMA ClipNotes ==
  ASSUME NEW p \in Projects, NEW j \in DOMAIN p.sequences
  PROVE  /\ Len(p.sequences[j].clips) \in Nat
         /\ DOMAIN p.sequences[j].clips = 1 .. Len(p.sequences[j].clips)
         /\ \A k \in DOMAIN p.sequences[j].clips : p.sequences[j].clips[k].notes \in Nat
<1> DEFINE Notes == [track : XpjNames, notes : Nat]
           Entry == [key : Int \cup {None}, clips : Seq(Notes)]
<1>1. p.sequences \in Seq(Entry)
  BY ImportAssumption DEF Project
<1>2. p.sequences[j] \in Entry
  <2> HIDE DEF Entry
  <2>1. QED BY <1>1
<1>3. p.sequences[j].clips \in Seq(Notes)
  <2> HIDE DEF Notes
  <2>1. QED BY <1>2
<1>4. \A k \in DOMAIN p.sequences[j].clips : p.sequences[j].clips[k] \in Notes
  <2> HIDE DEF Notes
  <2>1. QED BY <1>3
<1>5. QED BY <1>3, <1>4

(* The notes of a sequence are numbered in order, so of two one has fewer  *)
(* earlier notes: they are finitely many.                                  *)
LEMMA NoteAt ==
  ASSUME NEW p, NEW e \in NotePlaces(p)
  PROVE  /\ e = <<e[1], e[2]>> /\ e[1] \in ClipPlaces(p)
         /\ e[2] \in 1 .. p.sequences[e[1][1]].clips[e[1][2]].notes
BY DEF NotePlaces

LEMMA EarlierFinite ==
  ASSUME NEW p \in Projects, NEW e \in NotePlaces(p)
  PROVE  IsFiniteSet(Earlier(p, e))
<1> DEFINE j == e[1][1]
           clips == p.sequences[j].clips
           notes == [c \in DOMAIN clips |-> {<<j, c>>} \X (1 .. clips[c].notes)]
           all == UNION Range(notes)
<1>1. j \in DOMAIN p.sequences
  BY NoteAt, ClipAt
<1>2. /\ Len(clips) \in Nat /\ DOMAIN clips = 1 .. Len(clips)
      /\ \A c \in DOMAIN clips : clips[c].notes \in Nat
  BY <1>1, ClipNotes
<1>3. IsFiniteSet(DOMAIN clips)
  <2>1. IsFiniteSet(1 .. Len(clips))
    <3>1. 1 \in Int /\ Len(clips) \in Int
      BY <1>2
    <3> HIDE DEF clips
    <3>2. QED BY <3>1, FS_Interval
  <2>2. QED BY <1>2, <2>1
<1>4. Earlier(p, e) \subseteq all
  <2> SUFFICES ASSUME NEW d \in Earlier(p, e) PROVE d \in all
    OBVIOUS
  <2>1. d \in NotePlaces(p) /\ d[1][1] = j
    BY DEF Earlier
  <2>2. /\ d = <<d[1], d[2]>> /\ d[1] = <<d[1][1], d[1][2]>> /\ d[1][2] \in DOMAIN clips
        /\ d[2] \in 1 .. clips[d[1][2]].notes
    BY <2>1, NoteAt, ClipAt
  <2>3. d[1] = <<j, d[1][2]>>
    BY <2>1, <2>2
  <2> DEFINE c == d[1][2]
  <2>4. d \in {<<j, c>>} \X (1 .. clips[c].notes)
    BY <2>2, <2>3
  <2>5. c \in DOMAIN notes /\ notes[c] = {<<j, c>>} \X (1 .. clips[c].notes)
    BY <2>2
  <2> HIDE DEF notes
  <2>6. QED BY <2>4, <2>5 DEF Range
<1>5. \A T \in Range(notes) : IsFiniteSet(T)
  <2> SUFFICES ASSUME NEW c \in DOMAIN clips
               PROVE  IsFiniteSet({<<j, c>>} \X (1 .. clips[c].notes))
    BY DEF Range
  <2>1. clips[c].notes \in Int /\ 1 \in Int
    BY <1>2
  <2> HIDE DEF clips, j
  <2>2. IsFiniteSet(1 .. clips[c].notes)
    BY <2>1, FS_Interval
  <2>3. IsFiniteSet({<<j, c>>})
    BY FS_Singleton
  <2>4. QED BY <2>2, <2>3, FS_Product
<1>6. notes \in Surjection(DOMAIN clips, Range(notes))
  <2>1. DOMAIN notes = DOMAIN clips /\ notes = [c \in DOMAIN notes |-> notes[c]]
    OBVIOUS
  <2> HIDE DEF notes, clips
  <2>2. QED BY <2>1 DEF Surjection, Range
<1> HIDE DEF notes, clips
<1>7. IsFiniteSet(Range(notes))
  BY <1>3, <1>6, FS_Surjection
<1>8. IsFiniteSet(all)
  BY <1>5, <1>7, FS_UNION
<1>9. QED BY <1>4, <1>8, FS_Subset

LEMMA EarlierGrows ==
  ASSUME NEW p \in Projects, NEW d \in NotePlaces(p), NEW e \in NotePlaces(p),
         d \in Earlier(p, e)
  PROVE  Cardinality(Earlier(p, d)) < Cardinality(Earlier(p, e))
<1> DEFINE E == Earlier(p, e)  D == Earlier(p, d)
<1>1. \A n \in NotePlaces(p) : n[1][2] \in Int /\ n[2] \in Int
  <2> TAKE n \in NotePlaces(p)
  <2>1. n[2] \in Int
    BY NoteAt
  <2>2. n[1][1] \in DOMAIN p.sequences /\ n[1][2] \in DOMAIN p.sequences[n[1][1]].clips
    BY NoteAt, ClipAt
  <2>3. n[1][2] \in Int
    BY <2>2, ClipNotes
  <2>4. QED BY <2>1, <2>3
<1>2. D \cup {d} \subseteq E /\ d \notin D
  BY <1>1 DEF Earlier
<1>3. IsFiniteSet(E) /\ IsFiniteSet(D)
  BY EarlierFinite
<1> HIDE DEF E, D
<1>4. Cardinality(D \cup {d}) = Cardinality(D) + 1 /\ IsFiniteSet(D \cup {d})
  BY <1>2, <1>3, FS_AddElement
<1>5. Cardinality(D \cup {d}) <= Cardinality(E)
  BY <1>2, <1>3, FS_Subset
<1>6. Cardinality(D) \in Nat /\ Cardinality(E) \in Nat
  BY <1>3, FS_CardinalityType
<1>7. Cardinality(D) < Cardinality(E)
  BY <1>4, <1>5, <1>6
<1>8. QED BY <1>7 DEF D, E

LEMMA EventsDiffer ==
  ASSUME NEW p \in Projects, Validate(Session(p)) = {}
  PROVE  ~DuplicateIds(MidiEvents(p))
<1> SUFFICES ASSUME NEW d \in NotePlaces(p), NEW e \in NotePlaces(p), d # e,
                    MidiEvents(p)[d].id = MidiEvents(p)[e].id
             PROVE  FALSE
  BY DEF DuplicateIds, MidiEvents
<1>1. /\ SequenceKeys(p)[d[1][1]] = SequenceKeys(p)[e[1][1]]
      /\ Cardinality(Earlier(p, d)) = Cardinality(Earlier(p, e))
  BY DEF MidiEvents
<1>2. /\ d = <<d[1], d[2]>> /\ e = <<e[1], e[2]>>
      /\ d[1] = <<d[1][1], d[1][2]>> /\ e[1] = <<e[1][1], e[1][2]>>
      /\ d[1][1] \in DOMAIN p.sequences /\ e[1][1] \in DOMAIN p.sequences
      /\ d[1][2] \in DOMAIN p.sequences[d[1][1]].clips
      /\ e[1][2] \in DOMAIN p.sequences[e[1][1]].clips
      /\ d[2] \in Int /\ e[2] \in Int
  BY NoteAt, ClipAt
<1>3. d[1][1] = e[1][1]
  BY <1>1, <1>2, KeysDiffer
<1>4. d[1][2] \in Int /\ e[1][2] \in Int
  BY <1>2, ClipNotes
<1>5. d \in Earlier(p, e) \/ e \in Earlier(p, d)
  <2>1. d[1][2] # e[1][2] \/ d[2] # e[2]
    BY <1>2, <1>3
  <2>2. \/ d[1][2] < e[1][2] \/ (d[1][2] = e[1][2] /\ d[2] < e[2])
        \/ e[1][2] < d[1][2] \/ (e[1][2] = d[1][2] /\ e[2] < d[2])
    BY <1>2, <1>4, <2>1
  <2>3. QED BY <1>3, <2>2 DEF Earlier
<1>6. /\ Cardinality(Earlier(p, d)) \in Nat
      /\ ~(Cardinality(Earlier(p, d)) < Cardinality(Earlier(p, e)))
      /\ ~(Cardinality(Earlier(p, e)) < Cardinality(Earlier(p, d)))
  BY <1>1, EarlierFinite, FS_CardinalityType
<1>7. QED BY <1>5, <1>6, EarlierGrows

(* What an import writes refers to what it wrote: every reference is taken *)
(* from the element that it names, or from the project's tables.           *)
LEMMA AssetsInFile ==
  ASSUME NEW p
  PROVE  /\ DOMAIN FileOf(p).assets = DOMAIN p.samples
         /\ \A n \in DOMAIN p.samples : /\ FileOf(p).assets[n].id = <<n, StableId[p.samples[n]]>>
                                       /\ FileOf(p).assets[n].file = p.samples[n]
<1> DEFINE from == Assets(p)  assets == FileOf(p).assets
<1>1. assets = [n \in DOMAIN from |-> [id |-> from[n].id, file |-> from[n].file]]
  BY FileFields
<1>2. DOMAIN from = DOMAIN p.samples
      /\ \A n \in DOMAIN p.samples : /\ from[n].id = <<n, StableId[p.samples[n]]>>
                                    /\ from[n].file = p.samples[n]
  BY DEF Assets
<1> HIDE DEF from, assets
<1>3. DOMAIN assets = DOMAIN p.samples
      /\ \A n \in DOMAIN p.samples : /\ assets[n].id = <<n, StableId[p.samples[n]]>>
                                    /\ assets[n].file = p.samples[n]
  BY <1>1, <1>2
<1>4. QED BY <1>3 DEF assets

LEMMA AssetsResolve ==
  ASSUME NEW p \in Projects, NEW file, AssetOf(p, file) # None
  PROVE  ResolvesOnce(FileOf(p).assets, AssetOf(p, file))
<1> DEFINE assets == FileOf(p).assets
<1>1. PICK i \in DOMAIN p.samples : AssetOf(p, file) = <<i, StableId[p.samples[i]]>>
  BY AssetFound
<1>2. DOMAIN assets = DOMAIN p.samples
      /\ \A n \in DOMAIN p.samples : assets[n].id = <<n, StableId[p.samples[n]]>>
  BY AssetsInFile
<1> HIDE DEF assets
<1>3. ~DuplicateIds(assets)
  BY <1>2 DEF DuplicateIds
<1>4. ResolvesOnce(assets, AssetOf(p, file))
  BY <1>1, <1>2, <1>3, Resolves
<1>5. QED BY <1>4 DEF assets

LEMMA TracksResolve ==
  ASSUME NEW p, Validate(Session(p)) = {}, NEW i \in DOMAIN p.tracks
  PROVE  ResolvesOnce(FileOf(p).tracks, i)
<1> DEFINE tracks == FileOf(p).tracks
<1>1. tracks = [n \in DOMAIN p.tracks |-> [id |-> n, name |-> p.tracks[n].name]]
  BY FileFields
<1>2. ~DuplicateIds(tracks)
  BY ValidFiles
<1> HIDE DEF tracks
<1>3. i \in DOMAIN tracks /\ tracks[i].id = i
  BY <1>1
<1>4. ResolvesOnce(tracks, i)
  BY <1>2, <1>3, Resolves
<1>5. QED BY <1>4 DEF tracks

LEMMA SequencesResolve ==
  ASSUME NEW p, Validate(Session(p)) = {}, NEW j \in DOMAIN p.sequences
  PROVE  ResolvesOnce(FileOf(p).sequences, SequenceKeys(p)[j])
<1> DEFINE sequences == FileOf(p).sequences
<1>1. sequences = [n \in DOMAIN p.sequences |-> [id |-> SequenceKeys(p)[n]]]
  BY FileFields
<1>2. ~DuplicateIds(sequences)
  BY ValidFiles
<1> HIDE DEF sequences
<1>3. j \in DOMAIN sequences /\ sequences[j].id = SequenceKeys(p)[j]
  BY <1>1
<1>4. ResolvesOnce(sequences, SequenceKeys(p)[j])
  BY <1>2, <1>3, Resolves
<1>5. QED BY <1>4 DEF sequences

LEMMA PadAt ==
  ASSUME NEW p, NEW x \in PadPlaces(p)
  PROVE  /\ x = <<x[1], x[2]>> /\ x[1] \in DrumTracks(p) /\ x[2] \in PadsOf(p, x[1])
         /\ x \in DOMAIN Pads(p) /\ Pads(p)[x] \in Range(Pads(p))
         /\ Pads(p)[x].index = x[2] /\ Pads(p)[x].program = ProgramId(p.tracks[x[1]])
         /\ Pads(p)[x].asset = AssetOf(p, p.tracks[x[1]].instruments[x[2]].file)
<1>1. x = <<x[1], x[2]>> /\ x[1] \in DrumTracks(p) /\ x[2] \in PadsOf(p, x[1])
  BY DEF PadPlaces
<1>2. x \in DOMAIN Pads(p) /\ Pads(p)[x] = Pad(p, p.tracks[x[1]], x[2])
  BY DEF Pads
<1>3. QED BY <1>1, <1>2 DEF Pad, Range

LEMMA ImportsResolve ==
  ASSUME NEW p \in Projects, Validate(Session(p)) = {}
  PROVE  ReferencesResolve(FileOf(p))
<1> DEFINE f == FileOf(p)
<1>1. /\ f.pads = Pads(p) /\ f.slices = Slices(p) /\ f.clips = Clips(p) /\ f.songs = Songs(p)
      /\ f.events = MidiEvents(p)
  BY FileFields
<1>2. /\ \A i \in DOMAIN p.tracks : ResolvesOnce(f.tracks, i)
      /\ \A j \in DOMAIN p.sequences : ResolvesOnce(f.sequences, SequenceKeys(p)[j])
      /\ \A file : AssetOf(p, file) # None => ResolvesOnce(f.assets, AssetOf(p, file))
  BY TracksResolve, SequencesResolve, AssetsResolve
<1>3. /\ ~DuplicateIds(Pads(p)) /\ ~DuplicateIds(Slices(p)) /\ ~DuplicateIds(MidiEvents(p))
  BY ValidFiles, EventsDiffer
<1> HIDE DEF f
<1>4. \A x \in ClipPlaces(p) :
        /\ ResolvesOnce(f.tracks, Clips(p)[x].track)
        /\ ResolvesOnce(f.sequences, Clips(p)[x].sequence)
  <2> TAKE x \in ClipPlaces(p)
  <2> DEFINE name == p.sequences[x[1]].clips[x[2]].track
  <2>1. /\ x[1] \in DOMAIN p.sequences /\ TracksNamed(p, name) # {}
        /\ Clips(p)[x].track = TrackOf(p, name)
        /\ Clips(p)[x].sequence = SequenceKeys(p)[x[1]]
    BY ClipAt
  <2> HIDE DEF name
  <2>2. TrackOf(p, name) \in DOMAIN p.tracks
    BY <2>1, TrackFound
  <2>3. QED BY <1>2, <2>1, <2>2
<1>5. ASSUME NEW c \in Range(f.clips)
      PROVE  ResolvesOnce(f.tracks, c.track) /\ ResolvesOnce(f.sequences, c.sequence)
  <2>1. PICK x \in ClipPlaces(p) : c = Clips(p)[x]
    BY <1>1 DEF Range, Clips
  <2>2. QED BY <1>4, <2>1
<1>6. ASSUME NEW e \in Range(f.events)
      PROVE  ResolvesOnce(f.events, e.id) /\ ResolvesOnce(f.tracks, e.track)
  <2>1. PICK n \in NotePlaces(p) : n \in DOMAIN f.events /\ e = f.events[n]
                                   /\ e.track = Clips(p)[n[1]].track
    BY <1>1 DEF Range, MidiEvents
  <2>2. n[1] \in ClipPlaces(p)
    BY NoteAt
  <2>3. ResolvesOnce(f.tracks, e.track)
    BY <1>4, <2>1, <2>2
  <2>4. ~DuplicateIds(f.events)
    BY <1>1, <1>3
  <2>5. ResolvesOnce(f.events, e.id)
    BY <2>1, <2>4, Resolves
  <2>6. QED BY <2>3, <2>5
<1>7. ASSUME NEW song \in Range(f.songs), NEW step \in song.steps
      PROVE  ResolvesOnce(f.sequences, step.sequence)
  <2>1. PICK i \in DOMAIN Songs(p) : song = Songs(p)[i]
    BY <1>1 DEF Range
  <2>2. song.steps = {item \in Range(p.songs[i]) : item.sequence \in KnownKeys(p)}
    BY <2>1 DEF Songs
  <2>3. step.sequence \in KnownKeys(p)
    BY <2>2
  <2>4. QED BY <1>2, <2>3 DEF KnownKeys
<1>8. ASSUME NEW pad \in Range(f.pads)
      PROVE  /\ ResolvesOnce(f.pads, pad.id)
             /\ pad.asset # None => ResolvesOnce(f.assets, pad.asset)
  <2>1. PICK x \in PadPlaces(p) : pad = Pads(p)[x]
    BY <1>1 DEF Range, Pads
  <2>2. x \in DOMAIN f.pads /\ pad = f.pads[x]
    BY <1>1, <2>1, PadAt
  <2>3. ResolvesOnce(f.pads, pad.id)
    BY <1>1, <1>3, <2>2, Resolves
  <2>4. pad.asset = AssetOf(p, p.tracks[x[1]].instruments[x[2]].file)
    BY <2>1, PadAt
  <2>5. QED BY <1>2, <2>3, <2>4
<1>9. ASSUME NEW slice \in Range(f.slices)
      PROVE  /\ ResolvesOnce(f.slices, slice.id)
             /\ slice.asset # None => ResolvesOnce(f.assets, slice.asset)
  <2>1. PICK x \in DOMAIN Slices(p) : slice = Slices(p)[x]
    BY <1>1 DEF Range
  <2>2. x \in PadPlaces(p) /\ slice.asset = Pads(p)[x].asset
    BY <2>1 DEF Slices
  <2>3. ResolvesOnce(f.slices, slice.id)
    BY <1>1, <1>3, <2>1, Resolves
  <2>4. slice.asset = AssetOf(p, p.tracks[x[1]].instruments[x[2]].file)
    BY <2>2, PadAt
  <2>5. QED BY <1>2, <2>3, <2>4
<1>10. ReferencesResolve(f)
  BY <1>5, <1>6, <1>7, <1>8, <1>9 DEF ReferencesResolve
<1>11. QED BY <1>10 DEF f

(* Two drum tracks whose program names have one identifier would be two    *)
(* programs of that identifier, so pads that share one are of one track.   *)
LEMMA ProgramsDiffer ==
  ASSUME NEW p, Validate(Session(p)) = {}, NEW h \in DrumTracks(p), NEW i \in DrumTracks(p),
         ProgramId(p.tracks[h]) = ProgramId(p.tracks[i])
  PROVE  h = i
<1>1. ~DuplicateIds(Programs(p))
  BY ValidFiles
<1>2. /\ h \in DOMAIN Programs(p) /\ Programs(p)[h].id = ProgramId(p.tracks[h])
      /\ i \in DOMAIN Programs(p) /\ Programs(p)[i].id = ProgramId(p.tracks[i])
  BY DEF Programs
<1>3. QED BY <1>1, <1>2 DEF DuplicateIds

LEMMA ImportsKeepKits ==
  ASSUME NEW p \in Projects, Validate(Session(p)) = {}
  PROVE  KitsKept(p, FileOf(p))
<1> DEFINE f == FileOf(p)
<1>1. f.pads = Pads(p)
  BY FileFields
<1>2. DOMAIN f.assets = DOMAIN p.samples
      /\ \A n \in DOMAIN p.samples : /\ f.assets[n].id = <<n, StableId[p.samples[n]]>>
                                    /\ f.assets[n].file = p.samples[n]
  BY AssetsInFile
<1> HIDE DEF f
<1>3. ASSUME NEW i \in DrumTracks(p)
      PROVE  LET pads == {pad \in Range(f.pads) : pad.program = ProgramId(p.tracks[i])}
             IN  /\ {pad.index : pad \in pads} = PadsOf(p, i)
                 /\ \A pad \in pads : pad.asset # None =>
                      \E a \in Range(f.assets) :
                        /\ a.id = pad.asset
                        /\ a.file = p.tracks[i].instruments[pad.index].file
  <2> DEFINE pads == {pad \in Range(f.pads) : pad.program = ProgramId(p.tracks[i])}
  <2>1. \A pad \in pads : \E x \in PadPlaces(p) : x[1] = i /\ pad = Pads(p)[x]
    <3> TAKE pad \in pads
    <3>1. PICK x \in PadPlaces(p) : pad = Pads(p)[x]
      BY <1>1 DEF Range, Pads
    <3>2. x[1] \in DrumTracks(p) /\ pad.program = ProgramId(p.tracks[x[1]])
      BY <3>1, PadAt
    <3>3. x[1] = i
      BY <3>2, ProgramsDiffer
    <3>4. QED BY <3>1, <3>3
  <2>2. \A k \in PadsOf(p, i) : \E pad \in pads : pad.index = k
    <3> TAKE k \in PadsOf(p, i)
    <3> DEFINE x == <<i, k>>
    <3>1. x \in PadPlaces(p) /\ x[1] = i /\ x[2] = k
      BY DEF PadPlaces
    <3> HIDE DEF x
    <3>2. Pads(p)[x] \in pads /\ Pads(p)[x].index = k
      BY <1>1, <3>1, PadAt
    <3>3. QED BY <3>2
  <2>3. \A pad \in pads : pad.index \in PadsOf(p, i)
    BY <2>1, PadAt
  <2>4. ASSUME NEW pad \in pads, pad.asset # None
        PROVE  \E a \in Range(f.assets) :
                 a.id = pad.asset /\ a.file = p.tracks[i].instruments[pad.index].file
    <3>1. PICK x \in PadPlaces(p) : x[1] = i /\ pad = Pads(p)[x]
      BY <2>1
    <3> DEFINE file == p.tracks[i].instruments[pad.index].file
    <3>2. pad.asset = AssetOf(p, file)
      BY <3>1, PadAt
    <3> HIDE DEF file, pads
    <3>3. PICK n \in DOMAIN p.samples :
            p.samples[n] = file /\ pad.asset = <<n, StableId[p.samples[n]]>>
      BY <2>4, <3>2, AssetFound
    <3>4. n \in DOMAIN f.assets /\ f.assets[n].id = pad.asset /\ f.assets[n].file = file
      BY <1>2, <3>3
    <3>5. f.assets[n] \in Range(f.assets)
      BY <3>4 DEF Range
    <3>6. QED BY <3>4, <3>5 DEF file
  <2>5. {pad.index : pad \in pads} = PadsOf(p, i)
    <3> HIDE DEF pads
    <3>1. QED BY <2>2, <2>3
  <2> HIDE DEF pads
  <2>6. QED BY <2>4, <2>5 DEF pads
<1>4. KitsKept(p, f)
  BY <1>3 DEF KitsKept
<1>5. QED BY <1>4 DEF f

(* The notes of a clip are those of its sequence and track: another clip   *)
(* of both would have its identifier.                                      *)
LEMMA NotesOfClip ==
  ASSUME NEW p \in Projects, Validate(Session(p)) = {}, NEW x \in ClipPlaces(p)
  PROVE  Cardinality(NotesOf(FileOf(p), Clips(p)[x])) = p.sequences[x[1]].clips[x[2]].notes
<1> DEFINE n == p.sequences[x[1]].clips[x[2]].notes
           notes == NotesOf(FileOf(p), Clips(p)[x])
<1>1. n \in Nat
  <2>1. x[1] \in DOMAIN p.sequences /\ x[2] \in DOMAIN p.sequences[x[1]].clips
    BY ClipAt
  <2>2. QED BY <2>1, ClipNotes
<1>2. notes = {e \in NotePlaces(p) :
                 /\ SequenceKeys(p)[e[1][1]] = Clips(p)[x].sequence
                 /\ Clips(p)[e[1]].track = Clips(p)[x].track}
  <2>1. FileOf(p).events = MidiEvents(p)
    BY FileFields
  <2>2. QED BY <2>1 DEF NotesOf, MidiEvents
<1>3. notes = {x} \X (1 .. n)
  <2>1. ASSUME NEW e \in notes PROVE e \in {x} \X (1 .. n)
    <3>1. e \in NotePlaces(p) /\ Clips(p)[e[1]].track = Clips(p)[x].track
          /\ SequenceKeys(p)[e[1][1]] = Clips(p)[x].sequence
      BY <1>2, <2>1
    <3>2. e = <<e[1], e[2]>> /\ e[1] \in ClipPlaces(p)
          /\ e[2] \in 1 .. p.sequences[e[1][1]].clips[e[1][2]].notes
      BY <3>1, NoteAt
    <3>3. Clips(p)[e[1]].sequence = Clips(p)[x].sequence
      BY <3>1, <3>2, ClipAt
    <3>4. e[1] = x
      BY <3>1, <3>2, <3>3, ClipsDiffer
    <3>5. QED BY <3>2, <3>4
  <2>2. ASSUME NEW k \in 1 .. n PROVE <<x, k>> \in notes
    <3>1. <<x, k>> \in NotePlaces(p)
      BY DEF NotePlaces
    <3>2. SequenceKeys(p)[x[1]] = Clips(p)[x].sequence
      BY ClipAt
    <3>3. QED BY <1>2, <3>1, <3>2
  <2> HIDE DEF n, notes
  <2>3. QED BY <2>1, <2>2
<1> HIDE DEF n, notes
<1>4. IsFiniteSet(1 .. n) /\ Cardinality(1 .. n) = n
  <2>1. 1 \in Int /\ n \in Int /\ (IF 1 > n THEN 0 ELSE n - 1 + 1) = n
    BY <1>1
  <2>2. QED BY <2>1, FS_Interval
<1>5. IsFiniteSet({x}) /\ Cardinality({x}) = 1
  BY FS_Singleton
<1>6. Cardinality(notes) = n
  <2> DEFINE S == {x}  T == 1 .. n
  <2> HIDE DEF S, T
  <2>1. Cardinality(S \X T) = Cardinality(S) * Cardinality(T)
    BY <1>4, <1>5, FS_Product DEF S, T
  <2>2. Cardinality(S) = 1 /\ Cardinality(T) = n /\ notes = S \X T
    BY <1>3, <1>4, <1>5 DEF S, T
  <2>3. Cardinality(notes) = 1 * n
    BY <2>1, <2>2
  <2>4. QED BY <1>1, <2>3
<1>7. QED BY <1>6 DEF n, notes

LEMMA ImportsKeepClips ==
  ASSUME NEW p \in Projects, Validate(Session(p)) = {}
  PROVE  ClipsKept(p, FileOf(p))
<1> DEFINE f == FileOf(p)
<1>1. f.clips = Clips(p)
  BY FileFields
<1>2. f.tracks = [i \in DOMAIN p.tracks |-> [id |-> i, name |-> p.tracks[i].name]]
  BY FileFields
<1>3. f.sequences = [j \in DOMAIN p.sequences |-> [id |-> SequenceKeys(p)[j]]]
  BY FileFields
<1>4. \A x \in ClipPlaces(p) :
        Cardinality(NotesOf(f, Clips(p)[x])) = p.sequences[x[1]].clips[x[2]].notes
  BY NotesOfClip
<1> HIDE DEF f
<1>5. ASSUME NEW j \in DOMAIN p.sequences, NEW c \in Range(p.sequences[j].clips),
             TracksNamed(p, c.track) # {}
      PROVE  \E d \in Range(f.clips) :
               /\ f.tracks[d.track].name = c.track
               /\ d.sequence = f.sequences[j].id /\ Cardinality(NotesOf(f, d)) = c.notes
  <2>1. PICK k \in DOMAIN p.sequences[j].clips : c = p.sequences[j].clips[k]
    BY DEF Range
  <2> DEFINE x == <<j, k>>  d == Clips(p)[x]
  <2>2. x[1] = j /\ x[2] = k /\ x \in ClipPlaces(p)
    BY <1>5, <2>1 DEF ClipPlaces, ClipsOf
  <2> HIDE DEF x
  <2>3. d \in Range(f.clips)
    <3>1. x \in DOMAIN Clips(p)
      BY <2>2 DEF Clips
    <3>2. QED BY <1>1, <3>1 DEF Range
  <2>4. d.track = TrackOf(p, c.track) /\ d.sequence = SequenceKeys(p)[j]
    BY <2>1, <2>2, ClipAt
  <2>5. Cardinality(NotesOf(f, d)) = c.notes
    BY <1>4, <2>1, <2>2
  <2>6. f.tracks[TrackOf(p, c.track)].name = c.track
    BY <1>2, <1>5, TrackFound
  <2>7. f.sequences[j].id = SequenceKeys(p)[j]
    BY <1>3
  <2> HIDE DEF d
  <2>8. QED BY <2>3, <2>4, <2>5, <2>6, <2>7
<1>6. ClipsKept(p, f)
  BY <1>5 DEF ClipsKept
<1>7. QED BY <1>6 DEF f

-----------------------------------------------------------------------------
(* What import_xpj and the command leave: in memory only content hashes    *)
(* are added to a session that validate passed, what is reported written   *)
(* is what the project's own session says, which has no hashes, and a plan *)
(* lists the assets as they were when it was made.                         *)
AssetAt(p, i, hash) ==
  [id |-> <<i, StableId[p.samples[i]]>>, file |-> p.samples[i],
   fingerprint |-> hash, required |-> TRUE]
Hashed(p, assets) ==
  /\ DOMAIN assets = DOMAIN p.samples
  /\ \A i \in DOMAIN p.samples :
       assets[i] = AssetAt(p, i, None) \/ assets[i] = AssetAt(p, i, p.samples[i])

Kept(p, s) ==
  /\ DOMAIN s = DOMAIN Session(p)
  /\ \A part \in DOMAIN s \ {"assets"} : s[part] = Session(p)[part]
  /\ Hashed(p, s["assets"])

Written ==
  /\ output # None \/ told = "imported" => imported = "valid"
  /\ told = "imported" /\ ~lost => output = FileOf(project)
InMemory ==
  imported = "valid" => Validate(Session(project)) = {} /\ Kept(project, session)
Archived ==
  archive # None =>
    /\ imported = "valid"
    /\ \E assets : /\ Hashed(project, assets) /\ archive.entries = Range(assets)
                   /\ archive.ready => \A a \in Range(assets) : a.fingerprint # None
ImportInv == project \in Projects /\ Written /\ InMemory /\ Archived

LEMMA AssetFields ==
  \A p, i, hash :
    /\ AssetAt(p, i, hash).id = <<i, StableId[p.samples[i]]>>
    /\ AssetAt(p, i, hash).file = p.samples[i]
    /\ AssetAt(p, i, hash).fingerprint = hash
    /\ AssetAt(p, i, hash).required
    /\ \A other : [AssetAt(p, i, hash) EXCEPT !.fingerprint = other] = AssetAt(p, i, other)
<1> TAKE p, i, hash
<1>1. /\ AssetAt(p, i, hash).id = <<i, StableId[p.samples[i]]>>
      /\ AssetAt(p, i, hash).file = p.samples[i]
      /\ AssetAt(p, i, hash).fingerprint = hash
  BY DEF AssetAt
<1>2. AssetAt(p, i, hash).required
  BY DEF AssetAt
<1>3. ASSUME NEW other
      PROVE  [AssetAt(p, i, hash) EXCEPT !.fingerprint = other] = AssetAt(p, i, other)
  <2>1. \A x, y, h, t : [[id |-> x, file |-> y, fingerprint |-> h, required |-> t]
                          EXCEPT !.fingerprint = other]
          = [id |-> x, file |-> y, fingerprint |-> other, required |-> t]
    OBVIOUS
  <2>2. PICK t : t = TRUE
    OBVIOUS
  <2>3. \A h : AssetAt(p, i, h) = [id |-> <<i, StableId[p.samples[i]]>>,
                                  file |-> p.samples[i], fingerprint |-> h, required |-> t]
    BY <2>2 DEF AssetAt
  <2>4. QED BY <2>1, <2>3
<1>4. QED BY <1>1, <1>2, <1>3

(* Hashes are not written, so they make no difference to the file.         *)
LEMMA KeptParts ==
  ASSUME NEW p, NEW s, Kept(p, s)
  PROVE  /\ "assets" \in DOMAIN s /\ Hashed(p, s.assets)
         /\ s.pads = Pads(p)
         /\ Serialized(s) = FileOf(p)
<1> DEFINE t == Session(p)
<1>1. DOMAIN t = {"tempo", "assets", "tracks", "programs", "pads", "slices", "sequences",
                  "clips", "events", "songs"}
      /\ t.pads = Pads(p) /\ t.assets = Assets(p)
  BY DEF Session
<1> HIDE DEF t
<1>2. /\ DOMAIN s = DOMAIN t /\ Hashed(p, s["assets"])
      /\ \A part \in DOMAIN s \ {"assets"} : s[part] = t[part]
  BY DEF Kept, t
<1>3. /\ s.tempo = t.tempo /\ s.tracks = t.tracks /\ s.pads = t.pads /\ s.slices = t.slices
      /\ s.sequences = t.sequences /\ s.clips = t.clips /\ s.events = t.events
      /\ s.songs = t.songs
  BY <1>1, <1>2
<1>4. DOMAIN s.assets = DOMAIN t.assets
      /\ \A i \in DOMAIN t.assets : /\ s.assets[i].id = t.assets[i].id
                                   /\ s.assets[i].file = t.assets[i].file
  <2>1. DOMAIN t.assets = DOMAIN p.samples
        /\ \A i \in DOMAIN p.samples : /\ t.assets[i].id = <<i, StableId[p.samples[i]]>>
                                      /\ t.assets[i].file = p.samples[i]
    BY <1>1 DEF Assets
  <2>2. DOMAIN s.assets = DOMAIN p.samples
        /\ \A i \in DOMAIN p.samples : /\ s.assets[i].id = <<i, StableId[p.samples[i]]>>
                                      /\ s.assets[i].file = p.samples[i]
    BY <1>2, AssetFields DEF Hashed
  <2>3. QED BY <2>1, <2>2
<1>5. [i \in DOMAIN s.assets |-> [id |-> s.assets[i].id, file |-> s.assets[i].file]]
        = [i \in DOMAIN t.assets |-> [id |-> t.assets[i].id, file |-> t.assets[i].file]]
  BY <1>4
<1>6. Serialized(s) = Serialized(t)
  BY <1>3, <1>5 DEF Serialized
<1>7. QED BY <1>1, <1>2, <1>3, <1>6 DEF FileOf, t

LEMMA ImportStarts == ImportInit => ImportInv
BY DEF ImportInit, ImportInv, Written, InMemory, Archived

LEMMA WrittenKept == ImportInv /\ [ImportNext]_importVars => Written'
<1> SUFFICES ASSUME ImportInv, [ImportNext]_importVars PROVE Written'
  OBVIOUS
<1>1. CASE WriteOutput
  <2>1. imported = "valid" /\ imported' = imported /\ project' = project
    BY <1>1, ImportAssumption DEF WriteOutput, ImportInv, Written
  <2>2. Serialized(session) = FileOf(project)
    BY <2>1, KeptParts DEF ImportInv, InMemory
  <2>3. lost' \/ output' = FileOf(project')
    BY <1>1, <2>1, <2>2 DEF WriteOutput
  <2>4. QED BY <2>1, <2>3 DEF Written
<1>2. CASE OpenOutput
  BY <1>2 DEF OpenOutput, ImportInv, Written
<1>3. CASE CommandFails
  BY <1>3 DEF CommandFails, ImportInv, Written
<1>4. ASSUME imported = "nothing", UNCHANGED commandVars PROVE Written'
  BY <1>4 DEF ImportInv, Written, commandVars
<1>5. ASSUME UNCHANGED <<project, imported, commandVars>> PROVE Written'
  BY <1>5 DEF ImportInv, Written, commandVars
<1>6. QED
  BY <1>1, <1>2, <1>3, <1>4, <1>5
  DEF ImportNext, Inspect, ImportXpj, ImportRejected, ImportFails, Relink, PlanArchive,
      importVars

LEMMA InMemoryKept == ImportInv /\ [ImportNext]_importVars => InMemory'
<1> SUFFICES ASSUME ImportInv, [ImportNext]_importVars PROVE InMemory'
  OBVIOUS
<1>1. CASE ImportXpj
  <2>1. /\ session' = Session(project) /\ project' = project
        /\ imported' = "valid" => Validate(Session(project)) = {}
    BY <1>1 DEF ImportXpj
  <2>2. Hashed(project, Session(project)["assets"])
    <3>1. Session(project)["assets"] = Assets(project)
      BY DEF Session
    <3>2. Hashed(project, Assets(project))
      BY DEF Hashed, Assets, AssetAt
    <3>3. QED BY <3>1, <3>2
  <2>3. Kept(project', session')
    BY <2>1, <2>2 DEF Kept
  <2>4. QED BY <2>1, <2>3 DEF InMemory
<1>2. ASSUME NEW i \in DOMAIN project.samples, Relink(i) PROVE InMemory'
  <2>1. /\ imported = "valid" /\ session.assets[i].fingerprint = None
        /\ project' = project
        /\ session' = [session EXCEPT !.assets[i].fingerprint = session.assets[i].file]
    BY <1>2 DEF Relink
  <2>2. Validate(Session(project)) = {} /\ Kept(project, session)
    BY <2>1 DEF ImportInv, InMemory
  <2>3. "assets" \in DOMAIN session /\ Hashed(project, session.assets)
    BY <2>2, KeptParts
  <2>4. /\ DOMAIN session' = DOMAIN session
        /\ \A part \in DOMAIN session \ {"assets"} : session'[part] = session[part]
        /\ session'["assets"] = [session.assets EXCEPT ![i] =
             [session.assets[i] EXCEPT !.fingerprint = session.assets[i].file]]
    BY <2>1, <2>3
  <2>5. [session.assets[i] EXCEPT !.fingerprint = session.assets[i].file]
          = AssetAt(project, i, project.samples[i])
    BY <2>3, AssetFields DEF Hashed
  <2>6. Hashed(project, session'["assets"])
    BY <2>3, <2>4, <2>5 DEF Hashed
  <2>7. Kept(project, session')
    BY <2>2, <2>4, <2>6 DEF Kept
  <2>8. QED BY <2>1, <2>2, <2>7 DEF InMemory
<1>3. ASSUME project' = project, session' = session, imported' = imported PROVE InMemory'
  BY <1>3 DEF ImportInv, InMemory
<1>4. ASSUME imported' = "invalid" PROVE InMemory'
  BY <1>4 DEF InMemory
<1>5. QED
  BY <1>1, <1>2, <1>3, <1>4
  DEF ImportNext, Inspect, ImportRejected, ImportFails, OpenOutput, WriteOutput, CommandFails,
      PlanArchive, importVars

LEMMA ArchivedKept == ImportInv /\ [ImportNext]_importVars => Archived'
<1> SUFFICES ASSUME ImportInv, [ImportNext]_importVars PROVE Archived'
  OBVIOUS
<1>1. CASE PlanArchive
  <2>1. archive' = PlanOf(session) /\ imported' = "valid" /\ project' = project
    BY <1>1 DEF PlanArchive
  <2>2. Hashed(project, session.assets)
    BY <1>1, KeptParts DEF PlanArchive, ImportInv, InMemory
  <2>3. archive'.entries = Range(session.assets)
        /\ archive'.ready = (Missing(session) = {})
    BY <2>1 DEF PlanOf
  <2>4. ASSUME Missing(session) = {}, NEW a \in Range(session.assets)
        PROVE  a.fingerprint # None
    <3>1. PICK i \in DOMAIN project.samples : a = session.assets[i]
      BY <2>2 DEF Hashed, Range
    <3>2. a.required
      BY <2>2, <3>1, AssetFields DEF Hashed
    <3>3. QED BY <2>4, <3>2 DEF Missing
  <2>5. QED BY <2>1, <2>2, <2>3, <2>4 DEF Archived
<1>2. ASSUME imported = "nothing", archive' = archive PROVE Archived'
  BY <1>2 DEF ImportInv, Archived
<1>3. ASSUME imported' = imported, archive' = archive, project' = project PROVE Archived'
  BY <1>3 DEF ImportInv, Archived
<1>4. QED
  BY <1>1, <1>2, <1>3
  DEF ImportNext, Inspect, ImportXpj, ImportRejected, ImportFails, OpenOutput, WriteOutput,
      CommandFails, Relink, importVars

LEMMA ImportInvKept == ImportInv /\ [ImportNext]_importVars => ImportInv'
<1>1. ImportInv /\ [ImportNext]_importVars => (project \in Projects)'
  BY DEF ImportInv, ImportNext, Inspect, ImportXpj, ImportRejected, ImportFails, OpenOutput,
         WriteOutput, CommandFails, Relink, PlanArchive, importVars
<1>2. QED BY <1>1, WrittenKept, InMemoryKept, ArchivedKept DEF ImportInv

LEMMA ImportsAreOfTheProject == ImportSpec => []ImportInv
BY ImportStarts, ImportInvKept, PTL DEF ImportSpec

LEMMA WrittenIsWhole == ImportInv => WrittenImportsAreWhole
BY ImportsResolve, ImportsKeepKits, ImportsKeepClips
DEF ImportInv, Written, InMemory, WrittenImportsAreWhole

(* The asset a pad found by its file's name is one of the manifest's, and  *)
(* every asset of a ready plan has its hash.                               *)
LEMMA ReadyIsComplete == ImportInv => ReadyArchivesAreComplete
<1> SUFFICES ASSUME ImportInv, archive # None, archive.ready
             PROVE  /\ \A pad \in Range(session.pads) :
                         pad.asset # None =>
                           \E e \in archive.entries : e.id = pad.asset /\ e.fingerprint # None
                    /\ \A f \in Range(project.samples) :
                         \E e \in archive.entries : e.file = f /\ e.fingerprint = f
  BY DEF ReadyArchivesAreComplete
<1>1. PICK assets : /\ Hashed(project, assets) /\ archive.entries = Range(assets)
                    /\ \A a \in Range(assets) : a.fingerprint # None
  BY DEF ImportInv, Archived
<1>2. \A i \in DOMAIN project.samples :
        assets[i] \in archive.entries /\ assets[i] = AssetAt(project, i, project.samples[i])
  <2> TAKE i \in DOMAIN project.samples
  <2>1. assets[i] \in Range(assets)
    BY <1>1 DEF Hashed, Range
  <2>2. assets[i].fingerprint # None
    BY <1>1, <2>1
  <2>3. assets[i] # AssetAt(project, i, None)
    BY <2>2, AssetFields
  <2>4. QED BY <1>1, <2>1, <2>3 DEF Hashed
<1>3. project \in Projects /\ session.pads = Pads(project)
  BY KeptParts DEF ImportInv, Archived, InMemory
<1>4. ASSUME NEW pad \in Range(session.pads), pad.asset # None
      PROVE  \E e \in archive.entries : e.id = pad.asset /\ e.fingerprint # None
  <2>1. PICK x \in PadPlaces(project) : pad = Pad(project, project.tracks[x[1]], x[2])
    BY <1>3 DEF Range, Pads
  <2> DEFINE file == project.tracks[x[1]].instruments[x[2]].file
  <2>2. pad.asset = AssetOf(project, file)
    BY <2>1 DEF Pad
  <2> HIDE DEF file
  <2>3. PICK i \in DOMAIN project.samples : pad.asset = <<i, StableId[project.samples[i]]>>
    BY <1>3, <1>4, <2>2, AssetFound
  <2>4. assets[i].id = pad.asset /\ assets[i] \in archive.entries
    BY <1>2, <2>3, AssetFields
  <2>5. assets[i].fingerprint # None
    BY <1>1, <2>4
  <2>6. QED BY <2>4, <2>5
<1>5. ASSUME NEW f \in Range(project.samples)
      PROVE  \E e \in archive.entries : e.file = f /\ e.fingerprint = f
  <2>1. PICK i \in DOMAIN project.samples : f = project.samples[i]
    BY DEF Range
  <2>2. assets[i].file = f /\ assets[i].fingerprint = f
    BY <1>2, <2>1, AssetFields
  <2>3. QED BY <1>2, <2>2
<1>6. QED BY <1>4, <1>5

(* Whatever the project, a file the command reports as written, and that   *)
(* was not cut short as it was closed, is whole: no reference in it        *)
(* dangles or has two owners, however many names normalise to one          *)
(* identifier, the pads of a program are those of one kit, and no clip or  *)
(* note the import can bring over is missing.                              *)
THEOREM WrittenIsAlwaysWhole == ImportSpec => []WrittenImportsAreWhole
BY ImportsAreOfTheProject, WrittenIsWhole, PTL

(* An archive plan that says it is ready lists every sample of the         *)
(* project, hashed, and the asset of every pad that has one.               *)
THEOREM ReadyIsAlwaysComplete == ImportSpec => []ReadyArchivesAreComplete
BY ImportsAreOfTheProject, ReadyIsComplete, PTL

(* Importing and then merging is each of the two followed by itself, so    *)
(* what holds of both holds of the pipeline.                               *)
THEOREM PipelineKeepsBoth ==
  PipelineSpec =>
    [](WrittenImportsAreWhole /\ ReadyArchivesAreComplete /\ NothingLost /\ NothingOverwritten)
<1>1. PipelineInit => ImportInit /\ MergeInit
  BY DEF PipelineInit
<1>2. [PipelineNext]_<<importVars, mergeVars>> =>
        [ImportNext]_importVars /\ [MergeNext]_mergeVars
  BY DEF PipelineNext
<1>3. PipelineSpec => ImportSpec /\ MergeSpec
  BY <1>1, <1>2, PTL DEF PipelineSpec, ImportSpec, MergeSpec
<1>4. QED
  BY <1>3, WrittenIsAlwaysWhole, ReadyIsAlwaysComplete, MergeLosesNothing,
     MergeOverwritesNothing, PTL
=============================================================================
