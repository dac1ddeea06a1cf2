---------------------------- MODULE SessionMerge ----------------------------
(***************************************************************************)
(* Branching and merging of src/core/session_tools.cpp and                 *)
(* src/core/bridge_core.cpp: the hardware and the DAW edit a session on    *)
(* their own, plan_merge finds the conflicts and the user resolves them.   *)
(*                                                                         *)
(* A field stands for an entity and its field.  Policies only word a hint  *)
(* and are left out, as are ids, section names and the values before.      *)
(***************************************************************************)
EXTENDS Naturals, Sequences, FiniteSets, Functions

CONSTANTS Fields, Values,
          Empty,           \* the empty string: no value
          NoPlan,
          MaxChanges,      \* bound: changes in a branch
          MaxResolutions,  \* bound: resolutions in a plan
          MaxMoves         \* bound: revisions the session moves on

ASSUME MergeAssumption ==
  MaxChanges \in Nat /\ MaxResolutions \in Nat /\ MaxMoves \in Nat /\ Empty \notin Values

VARIABLES
  revision,     \* revision of the session both sides work on
  changes,      \* changes of the two branches since their base, in order
  base, head,   \* revision vectors of the branches: base and head
  plan          \* the merge plan

mergeVars == <<revision, changes, base, head, plan>>

Sides == {"hardware", "daw"}
Change == [field : Fields, after : Values]
Branch == UNION {[1 .. n -> Change] : n \in 0 .. MaxChanges}
Zero == [session |-> 0, hardware |-> 0, daw |-> 0]

(* detect_conflicts: every pair of changes of one field to different       *)
(* values, by their places in the branches.                                *)
Differ(c, d) == c.field = d.field /\ c.after # d.after
DetectConflictsFirst(hardware, daw) ==
  {p \in (DOMAIN hardware) \X {1} : daw # <<>> /\ Differ(hardware[p[1]], daw[1])}
DetectConflicts(hardware, daw) ==
  {p \in (DOMAIN hardware) \X (DOMAIN daw) : Differ(hardware[p[1]], daw[p[2]])}

FieldOf(conflict) == changes["hardware"][conflict[1]].field

(* plan_merge: what is not in conflict goes in; a DAW change that says     *)
(* what a change already in says is left out.                              *)
Free(own, hardware, conflicts) ==
  {c \in Range(own) : \A p \in conflicts : hardware[p[1]].field # c.field}
AutomaticByField(hardware, daw, conflicts) ==
  LET first(c) == \E j \in DOMAIN daw : daw[j] = c /\ \A i \in 1 .. j - 1 : daw[i].field # c.field
  IN  Free(hardware, hardware, conflicts) \cup {c \in Free(daw, hardware, conflicts) : first(c)}
Automatic(hardware, daw, conflicts) ==
  Free(hardware, hardware, conflicts) \cup Free(daw, hardware, conflicts)

Planned(hardware, daw) ==
  LET conflicts == DetectConflicts(hardware, daw)
  IN  [conflicts |-> conflicts,
       automatic |-> Automatic(hardware, daw, conflicts),
       resolutions |-> <<>>, extracted |-> FALSE,
       ready |-> conflicts = {}]
-----------------------------------------------------------------------------
MergeInit ==
  /\ revision = Zero
  /\ changes = [s \in Sides |-> <<>>]
  /\ base = [s \in Sides |-> Zero] /\ head = base
  /\ plan = NoPlan

(* create_branch: a side hands over its changes since a revision.          *)
CreateBranch(side, cs) ==
  /\ plan = NoPlan
  /\ changes' = [changes EXCEPT ![side] = cs]
  /\ base' = [base EXCEPT ![side] = revision]
  /\ head' = [head EXCEPT ![side] =
       [revision EXCEPT !.session = @ + 1, ![side] = @ + 1]]
  /\ UNCHANGED <<revision, plan>>

PlanMerge ==
  /\ plan = NoPlan
  /\ plan' = Planned(changes["hardware"], changes["daw"])
  /\ UNCHANGED <<revision, changes, base, head>>

(* resolve_conflict: the first conflict of the field, in the order of the  *)
(* two loops, decides what keeping a side means; ready is a matter of how  *)
(* many resolutions there are.                                             *)
Precedes(p, q) == p[1] < q[1] \/ (p[1] = q[1] /\ p[2] <= q[2])
Resolved(conflict, choice, value) ==
  CASE choice = "keep_hardware" -> changes["hardware"][conflict[1]].after
    [] choice = "keep_daw" -> changes["daw"][conflict[2]].after
    [] OTHER -> value
Resolve(field, choice, value) ==
  /\ plan # NoPlan /\ Len(plan.resolutions) < MaxResolutions
  /\ \E p \in plan.conflicts :
       /\ FieldOf(p) = field
       /\ \A q \in plan.conflicts : FieldOf(q) = field => Precedes(p, q)
       /\ Resolved(p, choice, value) # Empty
       /\ plan' = [plan EXCEPT
            !.resolutions = Append(@, [field |-> field, value |-> Resolved(p, choice, value)]),
            !.ready = Len(plan.resolutions) + 1 = Cardinality(plan.conflicts)]
  /\ UNCHANGED <<revision, changes, base, head>>

(* extract_section of a branch of the plan only adds to its record.        *)
ExtractSection ==
  /\ plan # NoPlan /\ plan' = [plan EXCEPT !.extracted = TRUE]
  /\ UNCHANGED <<revision, changes, base, head>>

(* External: the session moves on while branches are open.                 *)
SessionMoves ==
  /\ revision.session < MaxMoves
  /\ revision' = [revision EXCEPT !.session = @ + 1]
  /\ UNCHANGED <<changes, base, head, plan>>

Answers == {"keep_hardware", "keep_daw", "merge_value", "extract_section"}
MergeNext ==
  \/ \E side \in Sides, cs \in Branch : CreateBranch(side, cs)
  \/ PlanMerge
  \/ \E field \in Fields, choice \in Answers, value \in Values \cup {Empty} :
       Resolve(field, choice, value)
  \/ ExtractSection
  \/ SessionMoves

MergeSpec == MergeInit /\ [][MergeNext]_mergeVars
-----------------------------------------------------------------------------
(* Every change of a side is in the plan, at least as the value it sets,   *)
(* or its field is in conflict: a merge drops nobody's work unseen.        *)
NothingLost ==
  plan # NoPlan =>
    \A side \in Sides : \A c \in Range(changes[side]) :
      c \in plan.automatic \/ \E p \in plan.conflicts : FieldOf(p) = c.field

(* "Import never silently overwrites the other side": no field that both   *)
(* sides changed is set automatically to a value that one of them never    *)
(* chose.                                                                  *)
NothingOverwritten ==
  plan # NoPlan =>
    \A c \in plan.automatic : \A side \in Sides :
      (\E d \in Range(changes[side]) : d.field = c.field) => c \in Range(changes[side])

(* A plan that is ready has an answer for every conflict.  Refuted: two    *)
(* answers to one conflict count for two conflicts.                        *)
ReadyMeansResolved ==
  plan # NoPlan /\ plan.ready =>
    \A p \in plan.conflicts : \E i \in DOMAIN plan.resolutions :
      plan.resolutions[i].field = FieldOf(p)
=============================================================================
