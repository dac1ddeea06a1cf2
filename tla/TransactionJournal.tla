------------------------- MODULE TransactionJournal -------------------------
(***************************************************************************)
(* TransactionJournal of src/core/bridge_core.cpp: transactions are only   *)
(* appended, found by the first entry with their id, and moved along the   *)
(* phases that valid_transition allows.  Descriptions and revisions are    *)
(* left out; an entry keeps its backups and how many diagnostics it got.   *)
(* "passed" is a history variable: the phases an entry has been in.        *)
(***************************************************************************)
EXTENDS Naturals, Sequences

CONSTANTS Ids,         \* transaction ids
          Backups,     \* backup locations a caller may hand over
          MaxEntries   \* bound: transactions begun, and diagnostics of one

ASSUME JournalAssumption == MaxEntries \in Nat

VARIABLES entries,     \* TransactionJournal::entries_
          passed       \* for each entry the phases it has been in

Phases == {"planned", "awaiting_approval", "running", "verified",
           "committed", "rolled_back", "failed"}
Ended == {"committed", "rolled_back", "failed"}

(* valid_transition: the phase that carries on from each one; every phase  *)
(* that has not ended may also fail or be rolled back, and stay.           *)
Successor == [planned |-> "awaiting_approval", awaiting_approval |-> "running",
              running |-> "verified", verified |-> "committed"]
ValidTransitionSkipping(from, to) ==
  \/ from = to
  \/ from \notin Ended /\ to \in {Successor[from], "rolled_back", "failed"}
  \/ from = "running" /\ to = "committed"
ValidTransitionReopening(from, to) ==
  \/ from = to
  \/ from \notin Ended /\ to \in {Successor[from], "rolled_back", "failed"}
  \/ from = "rolled_back" /\ to = "awaiting_approval"
ValidTransition(from, to) ==
  \/ from = to
  \/ from \notin Ended /\ to \in {Successor[from], "rolled_back", "failed"}

Matches(es, id) == {i \in 1 .. Len(es) : es[i].id = id}
(* The entry std::find_if stops at.                                        *)
FirstMatch(es, id) == CHOOSE i \in Matches(es, id) : \A j \in Matches(es, id) : i <= j

Entry(id, backups) ==
  [id |-> id, phase |-> "planned", backups |-> backups, diagnostics |-> 0]
May(es, id, next) ==
  Matches(es, id) # {} /\ ValidTransition(es[FirstMatch(es, id)].phase, next)

Init == entries = <<>> /\ passed = <<>>

Begin(id, backups) ==
  /\ Len(entries) < MaxEntries
  /\ entries' = Append(entries, Entry(id, backups))
  /\ passed' = Append(passed, {"planned"})

(* What a transition that is allowed does, with d diagnostics handed over. *)
Moved(es, id, next, d) ==
  LET i == FirstMatch(es, id)
  IN  [es EXCEPT ![i].phase = next, ![i].diagnostics = @ + d]

(* transition: false, and no change, for an unknown id or a phase that may *)
(* not follow.                                                             *)
Transition(id, next, d) ==
  /\ May(entries, id, next)
  /\ entries[FirstMatch(entries, id)].diagnostics + d <= MaxEntries
  /\ entries' = Moved(entries, id, next, d)
  /\ passed' = [passed EXCEPT ![FirstMatch(entries, id)] = @ \cup {next}]

Next ==
  \/ \E id \in Ids, backups \in Backups : Begin(id, backups)
  \/ \E id \in Ids, next \in Phases, d \in {0, 1} : Transition(id, next, d)

vars == <<entries, passed>>
Spec == Init /\ [][Next]_vars
-----------------------------------------------------------------------------
Entries == [id : Ids, phase : Phases, backups : Backups, diagnostics : 0 .. MaxEntries]

(* Every entry is a transaction and its history ends in its phase.         *)
TypeOK ==
  /\ entries \in Seq(Entries) /\ passed \in Seq(SUBSET Phases)
  /\ Len(entries) <= MaxEntries /\ Len(passed) = Len(entries)
  /\ \A i \in DOMAIN entries : {"planned", entries[i].phase} \subseteq passed[i]

(* The journal "enforces planned, approval, running, verified, committed": *)
(* nothing is committed that was not approved, run and verified, and       *)
(* nothing runs that was not put up for approval.                          *)
CommittedInOrder ==
  \A i \in DOMAIN entries :
    /\ "committed" \in passed[i] => "verified" \in passed[i]
    /\ "verified" \in passed[i] => "running" \in passed[i]
    /\ "running" \in passed[i] => "awaiting_approval" \in passed[i]

(* A transaction has one outcome, and reaching it is the last thing that   *)
(* happens to it.                                                          *)
OneOutcome ==
  \A i \in DOMAIN entries :
    \A outcome \in Ended \cap passed[i] : entries[i].phase = outcome
=============================================================================
