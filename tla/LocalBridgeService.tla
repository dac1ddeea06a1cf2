------------------------- MODULE LocalBridgeService -------------------------
(***************************************************************************)
(* LocalBridgeService of src/platform/local_service.cpp: the in-process    *)
(* service that hands out approval-gated transactions from its journal.    *)
(* The journal is private: clients only ever begin.                        *)
(***************************************************************************)
EXTENDS TransactionJournal

CONSTANT NoTransaction

VARIABLES
  localAccess,      \* platform_.local_file_access
  state,            \* status_.state
  granted           \* what it returned

serviceVars == <<localAccess, state, granted>>

States == {"stopped", "ready_without_hardware", "unavailable"}

ServiceInit ==
  /\ Init
  /\ localAccess \in BOOLEAN /\ state = "stopped"
  /\ granted = NoTransaction

Start ==
  /\ \/ localAccess /\ state' = "ready_without_hardware"
     \/ ~localAccess /\ state' = "unavailable"
  /\ UNCHANGED <<localAccess, vars, granted>>

Stop ==
  /\ state' = "stopped"
  /\ UNCHANGED <<localAccess, vars, granted>>

(* begin_transaction of a service that is not ready, or without a safe     *)
(* preflight route, returns nothing.                                       *)
Refuse ==
  /\ granted' = NoTransaction
  /\ UNCHANGED <<localAccess, state, vars>>

(* The new entry is appended, then its id is moved to approval and looked  *)
(* up: both find the first transaction begun with that id.                 *)
PrepareUnguarded(id, backups) ==
  LET es == Append(entries, Entry(id, backups))
      first == FirstMatch(es, id)
  IN  /\ Len(entries) < MaxEntries
      /\ entries' = [es EXCEPT ![Len(es)].phase = "awaiting_approval"]
      /\ passed' = Append(passed, {"planned", "awaiting_approval"})
      /\ granted' = entries'[first]
      /\ UNCHANGED <<localAccess, state>>
Prepare(id, backups) ==
  LET es == Append(entries, Entry(id, backups))
      ps == Append(passed, {"planned"})
      first == FirstMatch(es, id)
  IN  /\ Len(entries) < MaxEntries
      /\ May(es, id, "awaiting_approval")
      /\ entries' = Moved(es, id, "awaiting_approval", 1)
      /\ passed' = [ps EXCEPT ![first] = @ \cup {"awaiting_approval"}]
      /\ granted' = entries'[first]
      /\ UNCHANGED <<localAccess, state>>

BeginTransaction(id, backups, safePreflight) ==
  \/ (state = "ready_without_hardware" /\ safePreflight) /\ Prepare(id, backups)
  \/ (state # "ready_without_hardware" \/ ~safePreflight) /\ Refuse

ServiceNext ==
  \/ Start \/ Stop
  \/ \E id \in Ids, backups \in Backups, safePreflight \in BOOLEAN :
       BeginTransaction(id, backups, safePreflight)

ServiceSpec == ServiceInit /\ [][ServiceNext]_<<serviceVars, vars>>
-----------------------------------------------------------------------------
(* Whatever is handed out awaits approval, and of the transactions with    *)
(* one id it is the only one that does: nothing can be approved twice, and *)
(* nothing is handed out on a platform without file access.                *)
OneAwaitsPerId ==
  /\ granted # NoTransaction => localAccess /\ granted.phase = "awaiting_approval"
  /\ \A i, j \in DOMAIN entries :
       entries[i].phase = "awaiting_approval" /\ entries[j].phase = "awaiting_approval"
         /\ entries[i].id = entries[j].id => i = j
=============================================================================
