-------------------------- MODULE TransactionProofs --------------------------
(* The journal keeps its order and its outcomes in the hands of any client, *)
(* and the service hands out one transaction per id, for any ids, backups   *)
(* and number of entries.                                                   *)
EXTENDS LocalBridgeService, SequenceTheorems, WellFoundedInduction, TLAPS

-----------------------------------------------------------------------------
(* std::find_if stops at the first entry with the id, if there is one.      *)
LEMMA NaturalsHaveLeast ==
  ASSUME NEW T \in SUBSET Nat, T # {}
  PROVE  \E i \in T : \A j \in T : i <= j
<1> DEFINE R == {ss \in Nat \X Nat : ss[1] < ss[2]}
<1>1. IsWellFoundedOn(R, Nat)
  BY NatLessThanWellFounded DEF OpToRel
<1>2. PICK i \in T : \A j \in T : <<j, i>> \notin R
  <2> HIDE DEF R
  <2>1. QED BY <1>1, WFMin
<1>3. ASSUME NEW j \in T PROVE i <= j
  <2>1. <<j, i>> \in R <=> j < i
    OBVIOUS
  <2>2. QED BY <1>2, <2>1
<1>4. QED BY <1>3

LEMMA FirstMatchIsFirst ==
  ASSUME NEW es, Len(es) \in Nat, NEW id, Matches(es, id) # {}
  PROVE  /\ FirstMatch(es, id) \in 1 .. Len(es)
         /\ es[FirstMatch(es, id)].id = id
         /\ \A j \in 1 .. Len(es) : es[j].id = id => FirstMatch(es, id) <= j
<1>1. Matches(es, id) \in SUBSET Nat
  BY DEF Matches
<1>2. \E i \in Matches(es, id) : \A j \in Matches(es, id) : i <= j
  BY <1>1, NaturalsHaveLeast
<1>3. /\ FirstMatch(es, id) \in Matches(es, id)
      /\ \A j \in Matches(es, id) : FirstMatch(es, id) <= j
  BY <1>2 DEF FirstMatch
<1>4. QED BY <1>3 DEF Matches
-----------------------------------------------------------------------------
(* The journal by itself.                                                   *)
JournalInv == TypeOK /\ CommittedInOrder /\ OneOutcome

LEMMA BeginKeeps ==
  ASSUME JournalInv, NEW id \in Ids, NEW backups \in Backups, Begin(id, backups)
  PROVE  JournalInv'
<1> DEFINE n == Len(entries)
           e == Entry(id, backups)
<1>1. /\ entries \in Seq(Entries) /\ passed \in Seq(SUBSET Phases) /\ Len(passed) = n
      /\ n \in Nat /\ n < MaxEntries
  BY DEF JournalInv, TypeOK, Begin
<1>2. e \in Entries /\ e.phase = "planned"
  BY JournalAssumption DEF Entry, Entries, Phases
<1>3. /\ entries' \in Seq(Entries) /\ Len(entries') = n + 1
      /\ entries'[n + 1] = e /\ \A i \in 1 .. n : entries'[i] = entries[i]
  BY <1>1, <1>2, AppendProperties DEF Begin
<1>4. /\ passed' \in Seq(SUBSET Phases) /\ Len(passed') = n + 1
      /\ passed'[n + 1] = {"planned"} /\ \A i \in 1 .. n : passed'[i] = passed[i]
  BY <1>1, AppendProperties DEF Begin, Phases
<1>5. DOMAIN entries = 1 .. n /\ DOMAIN entries' = 1 .. n + 1
  BY <1>1, <1>3
<1> HIDE DEF e
<1>6. TypeOK'
  BY <1>1, <1>2, <1>3, <1>4, <1>5, JournalAssumption DEF TypeOK, JournalInv
<1>7. CommittedInOrder'
  BY <1>1, <1>4, <1>5 DEF CommittedInOrder, JournalInv
<1>8. OneOutcome'
  BY <1>1, <1>3, <1>4, <1>5 DEF OneOutcome, JournalInv, Ended
<1>9. QED BY <1>6, <1>7, <1>8 DEF JournalInv

LEMMA TransitionKeeps ==
  ASSUME JournalInv, NEW id \in Ids, NEW next \in Phases, NEW d \in {0, 1},
         Transition(id, next, d)
  PROVE  JournalInv'
<1> DEFINE n == Len(entries)
           i == FirstMatch(entries, id)
           e == [entries[i] EXCEPT !.phase = next, !.diagnostics = @ + d]
<1>1. /\ entries \in Seq(Entries) /\ passed \in Seq(SUBSET Phases) /\ Len(passed) = n
      /\ n \in Nat /\ n <= MaxEntries /\ DOMAIN entries = 1 .. n
  BY DEF JournalInv, TypeOK
<1>2. i \in 1 .. n
  BY <1>1, FirstMatchIsFirst DEF Transition, May
<1>3. /\ entries[i] \in Entries /\ passed[i] \in SUBSET Phases
      /\ {"planned", entries[i].phase} \subseteq passed[i]
  BY <1>1, <1>2 DEF JournalInv, TypeOK
<1>4. ValidTransition(entries[i].phase, next) /\ entries[i].diagnostics + d <= MaxEntries
  BY DEF Transition, May
<1>5. entries' = [entries EXCEPT ![i] = e] /\ passed' = [passed EXCEPT ![i] = @ \cup {next}]
  BY DEF Transition, Moved
<1> HIDE DEF i
<1>6. e \in Entries /\ e.phase = next
  <2>1. /\ entries[i].diagnostics \in Nat /\ d \in Nat
        /\ entries[i].diagnostics + d \in 0 .. MaxEntries
    BY <1>3, <1>4, JournalAssumption DEF Entries
  <2>2. QED BY <1>3, <2>1 DEF Entries
<1> HIDE DEF e
<1>7. /\ entries' \in Seq(Entries) /\ Len(entries') = n /\ DOMAIN entries' = 1 .. n
      /\ entries'[i] = e /\ \A j \in 1 .. n : j # i => entries'[j] = entries[j]
  BY <1>1, <1>2, <1>5, <1>6, ExceptSeq
<1>8. /\ passed' \in Seq(SUBSET Phases) /\ Len(passed') = n
      /\ passed'[i] = passed[i] \cup {next}
      /\ \A j \in 1 .. n : j # i => passed'[j] = passed[j]
  BY <1>1, <1>2, <1>3, <1>5, ExceptSeq
<1>9. TypeOK'
  BY <1>1, <1>3, <1>6, <1>7, <1>8 DEF TypeOK, JournalInv
<1>10. CommittedInOrder'
  <2>1. /\ "committed" \in passed'[i] => "verified" \in passed'[i]
        /\ "verified" \in passed'[i] => "running" \in passed'[i]
        /\ "running" \in passed'[i] => "awaiting_approval" \in passed'[i]
    <3>1. /\ "committed" \in passed[i] => "verified" \in passed[i]
          /\ "verified" \in passed[i] => "running" \in passed[i]
          /\ "running" \in passed[i] => "awaiting_approval" \in passed[i]
      BY <1>1, <1>2 DEF CommittedInOrder, JournalInv
    <3>2. /\ next = "committed" => entries[i].phase \in {"verified", "committed"}
          /\ next = "verified" => entries[i].phase \in {"running", "verified"}
          /\ next = "running" => entries[i].phase \in {"awaiting_approval", "running"}
      BY <1>3, <1>4 DEF ValidTransition, Successor, Ended, Entries, Phases
    <3>3. QED BY <1>3, <1>8, <3>1, <3>2
  <2>2. QED BY <1>1, <1>7, <1>8, <2>1 DEF CommittedInOrder, JournalInv
<1>11. OneOutcome'
  <2>1. \A outcome \in Ended \cap passed'[i] : entries'[i].phase = outcome
    <3>1. \A outcome \in Ended \cap passed[i] : entries[i].phase = outcome
      BY <1>1, <1>2 DEF OneOutcome, JournalInv
    <3>2. entries[i].phase \in Ended => next = entries[i].phase
      BY <1>4 DEF ValidTransition
    <3>3. QED BY <1>6, <1>7, <1>8, <3>1, <3>2
  <2>2. QED BY <1>1, <1>7, <1>8, <2>1 DEF OneOutcome, JournalInv
<1>12. QED BY <1>9, <1>10, <1>11 DEF JournalInv

LEMMA JournalStart == Init => JournalInv
  BY JournalAssumption DEF Init, JournalInv, TypeOK, CommittedInOrder, OneOutcome, Entries, Phases

LEMMA JournalInvHolds == Spec => []JournalInv
<1>1. JournalInv /\ [Next]_vars => JournalInv'
  <2>1. ASSUME JournalInv, UNCHANGED vars PROVE JournalInv'
    BY <2>1 DEF vars, JournalInv, TypeOK, CommittedInOrder, OneOutcome
  <2>2. ASSUME JournalInv, Next PROVE JournalInv'
    BY <2>2, BeginKeeps, TransitionKeeps DEF Next
  <2>3. QED BY <2>1, <2>2
<1>2. QED BY <1>1, JournalStart, PTL DEF Spec

(* The journal enforces planned, approval, running, verified, committed:    *)
(* no sequence of calls skips a phase of any transaction.                   *)
THEOREM OrderKept == Spec => []CommittedInOrder
  BY JournalInvHolds, PTL DEF JournalInv

(* No sequence of calls undoes or doubles the outcome of a transaction.     *)
THEOREM OutcomeFinal == Spec => []OneOutcome
  BY JournalInvHolds, PTL DEF JournalInv
-----------------------------------------------------------------------------
(* The journal inside the service, which only ever begins: an entry that    *)
(* awaits approval is the first of its id, the one that find returns.       *)
Prepared == [id : Ids, phase : {"planned", "awaiting_approval"}, backups : Backups,
             diagnostics : Nat]

ServiceInv ==
  /\ entries \in Seq(Prepared)
  /\ localAccess \in BOOLEAN
  /\ state = "ready_without_hardware" => localAccess
  /\ granted # NoTransaction => localAccess /\ granted.phase = "awaiting_approval"
  /\ \A i \in DOMAIN entries : entries[i].phase = "awaiting_approval" =>
       \A j \in 1 .. i - 1 : entries[j].id # entries[i].id

LEMMA PrepareKeeps ==
  ASSUME ServiceInv, NEW id \in Ids, NEW backups \in Backups,
         state = "ready_without_hardware", Prepare(id, backups)
  PROVE  ServiceInv'
<1> DEFINE n == Len(entries)
           es == Append(entries, Entry(id, backups))
           first == FirstMatch(es, id)
           e == [es[first] EXCEPT !.phase = "awaiting_approval", !.diagnostics = @ + 1]
<1>1. entries \in Seq(Prepared) /\ n \in Nat /\ DOMAIN entries = 1 .. n
  BY DEF ServiceInv
<1>2. Entry(id, backups) \in Prepared /\ Entry(id, backups).id = id
      /\ Entry(id, backups).phase = "planned"
  BY DEF Entry, Prepared
<1>3. /\ es \in Seq(Prepared) /\ Len(es) = n + 1 /\ DOMAIN es = 1 .. n + 1
      /\ es[n + 1] = Entry(id, backups) /\ \A i \in 1 .. n : es[i] = entries[i]
  BY <1>1, <1>2, AppendProperties
<1> HIDE DEF es
<1>4. /\ first \in 1 .. n + 1 /\ es[first].id = id
      /\ \A j \in 1 .. n + 1 : es[j].id = id => first <= j
  <2>1. Matches(es, id) # {}
    BY <1>1, <1>2, <1>3 DEF Matches
  <2>2. QED BY <1>1, <1>3, <2>1, FirstMatchIsFirst
<1>5. /\ entries' = [es EXCEPT ![first] = e] /\ granted' = entries'[first]
      /\ UNCHANGED <<localAccess, state>>
  BY DEF Prepare, Moved, es
<1> HIDE DEF first
<1>6. es[first] \in Prepared
  BY <1>3, <1>4
<1>7. e \in Prepared /\ e.id = id /\ e.phase = "awaiting_approval"
  <2>1. es[first].diagnostics + 1 \in Nat
    BY <1>6 DEF Prepared
  <2>2. QED BY <1>4, <1>6, <2>1 DEF Prepared
<1> HIDE DEF e
<1>8. /\ entries' \in Seq(Prepared) /\ Len(entries') = n + 1 /\ DOMAIN entries' = 1 .. n + 1
      /\ entries'[first] = e /\ \A j \in 1 .. n + 1 : j # first => entries'[j] = es[j]
  BY <1>1, <1>3, <1>4, <1>5, <1>7, ExceptSeq
<1>9. \A j \in 1 .. n + 1 : entries'[j].id = es[j].id
  BY <1>4, <1>7, <1>8
<1>10. ASSUME NEW i \in 1 .. n + 1, entries'[i].phase = "awaiting_approval",
              NEW j \in 1 .. i - 1
       PROVE  entries'[j].id # entries'[i].id
  <2>1. CASE i = first
    <3>1. j \in 1 .. n + 1 /\ ~(first <= j)
      BY <1>1, <2>1
    <3>2. es[j].id # id
      BY <1>4, <3>1
    <3>3. QED BY <1>4, <1>9, <2>1, <3>1, <3>2
  <2>2. CASE i # first
    <3>1. entries'[i] = es[i]
      BY <1>8, <2>2
    <3>2. i # n + 1
      BY <1>2, <1>3, <1>10, <3>1
    <3>3. i \in 1 .. n /\ j \in 1 .. n
      BY <1>1, <3>2
    <3>4. entries[j].id # entries[i].id
      BY <1>1, <1>3, <1>10, <3>1, <3>3 DEF ServiceInv
    <3>5. QED BY <1>3, <1>9, <3>3, <3>4
  <2>3. QED BY <2>1, <2>2
<1>11. granted' # NoTransaction => localAccess' /\ granted'.phase = "awaiting_approval"
  BY <1>5, <1>7, <1>8 DEF ServiceInv
<1>12. QED BY <1>5, <1>8, <1>10, <1>11 DEF ServiceInv

LEMMA ServiceInvHolds == ServiceSpec => []ServiceInv
<1>1. ServiceInit => ServiceInv
  BY DEF ServiceInit, Init, ServiceInv
<1>2. ServiceInv /\ [ServiceNext]_<<serviceVars, vars>> => ServiceInv'
  <2> SUFFICES ASSUME ServiceInv, [ServiceNext]_<<serviceVars, vars>> PROVE ServiceInv'
    OBVIOUS
  <2>1. CASE UNCHANGED <<serviceVars, vars>>
    BY <2>1 DEF serviceVars, vars, ServiceInv
  <2>2. CASE Start
    BY <2>2 DEF Start, vars, ServiceInv
  <2>3. CASE Stop
    BY <2>3 DEF Stop, vars, ServiceInv
  <2>4. ASSUME NEW id \in Ids, NEW backups \in Backups, NEW safePreflight \in BOOLEAN,
               BeginTransaction(id, backups, safePreflight)
        PROVE  ServiceInv'
    <3>1. CASE state = "ready_without_hardware" /\ Prepare(id, backups)
      BY <3>1, PrepareKeeps
    <3>2. CASE Refuse
      BY <3>2 DEF Refuse, vars, ServiceInv
    <3>3. QED BY <2>4, <3>1, <3>2 DEF BeginTransaction
  <2>5. QED BY <2>1, <2>2, <2>3, <2>4 DEF ServiceNext
<1>3. QED BY <1>1, <1>2, PTL DEF ServiceSpec

(* Whatever ids clients repeat, across stops and starts of the service, of  *)
(* the transactions with one id a single one awaits approval, and what was  *)
(* handed out does.                                                         *)
THEOREM OneApprovalPerId == ServiceSpec => []OneAwaitsPerId
<1>1. ServiceInv => OneAwaitsPerId
  <2> SUFFICES ASSUME ServiceInv,
                      NEW i \in DOMAIN entries, NEW j \in DOMAIN entries,
                      entries[i].phase = "awaiting_approval",
                      entries[j].phase = "awaiting_approval", entries[i].id = entries[j].id
               PROVE  i = j
    BY DEF OneAwaitsPerId, ServiceInv
  <2>1. i \in Nat /\ j \in Nat /\ i >= 1 /\ j >= 1
    BY DEF ServiceInv
  <2>2. ~(j \in 1 .. i - 1) /\ ~(i \in 1 .. j - 1)
    BY DEF ServiceInv
  <2>3. QED BY <2>1, <2>2
<1>2. QED BY <1>1, ServiceInvHolds, PTL
=============================================================================
