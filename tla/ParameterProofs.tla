--------------------------- MODULE ParameterProofs ---------------------------
(***************************************************************************)
(* ParameterWrite, for any number of intents, any clock, timeouts and      *)
(* number of changes of either side: an acknowledgement is true, a conflict*)
(* has a cause, and what is settled stays settled.                         *)
(*                                                                         *)
(* ParameterRelay, for any range, mappings, hands and number of turns: the *)
(* sides agree at rest to half a step of each, and move each other at most *)
(* three times.  Both rest on two facts about rounding: a relayed value is *)
(* within half a step, and one that came from the other side returns to it *)
(* unchanged (RoundTrip), because the side with the wider steps gets its   *)
(* own step back from the nearest step of the other.                       *)
(***************************************************************************)
EXTENDS ParameterWrite, ParameterRelay, TLAPS

USE WriteAssumption
-----------------------------------------------------------------------------
IntentStates ==
  [target : Targets, value : Values, phase : Phases, expected : Revisions,
   created : Clock, dispatched : Clock, deadline : Clock, ack : Observations \cup {NoAck}]

(* What both sides hold now can be read, and nothing was read in the future.*)
Present == \A side \in Targets : Snapshot(side) \in history

(* An intent in flight was planned before it was dispatched, and both lie   *)
(* behind the clock.                                                        *)
InThePast ==
  \A i \in Intents :
    /\ intents[i].phase # "blocked" => intents[i].created <= now
    /\ intents[i].phase \in {"dispatched", "acknowledged"} =>
         intents[i].created <= intents[i].dispatched

Inv == TypeOK /\ AckIsTrue /\ ConflictIsReal /\ Present /\ InThePast

LEMMA SnapshotTyped ==
  ASSUME TypeOK, NEW side \in Targets
  PROVE  Snapshot(side) \in Observations
  BY DEF TypeOK, Snapshot, Observations, Targets

(* A call changes one intent and nothing else: what it has to establish.    *)
Settles(i, state) ==
  /\ state.phase # "blocked" =>
       /\ state.deadline \in state.created + 1 .. state.created + MaxTimeout
       /\ state.created <= now
  /\ state.phase \in {"dispatched", "acknowledged"} => state.created <= state.dispatched
  /\ state.phase = "acknowledged" =>
       /\ state.ack \in history
       /\ state.ack.origin = state.target /\ state.ack.value = state.value
       /\ state.ack.at \in state.dispatched .. state.deadline - 1
       /\ state.ack.revision.session >= state.expected.session
       /\ state.ack.revision[state.target] >= state.expected[state.target]
  /\ state.phase = "conflict" =>
       \E o \in history :
         /\ o.at >= state.created
         /\ \/ o.revision # state.expected
            \/ o.origin = state.target /\ o.value # state.value

LEMMA CallKeeps ==
  ASSUME Inv, NEW i \in Intents, NEW state \in IntentStates, Settles(i, state),
         intents' = [intents EXCEPT ![i] = state], UNCHANGED envVars
  PROVE  Inv'
<1>1. /\ intents' \in [Intents -> IntentStates] /\ intents'[i] = state
      /\ \A j \in Intents \ {i} : intents'[j] = intents[j]
  BY DEF Inv, TypeOK, IntentStates
<1>2. TypeOK'
  BY <1>1 DEF Inv, TypeOK, Settles, envVars, IntentStates
<1>3. AckIsTrue'
  BY <1>1 DEF Inv, AckIsTrue, Settles, envVars, Current
<1>4. ConflictIsReal'
  BY <1>1 DEF Inv, ConflictIsReal, Settles, envVars
<1>5. Present'
  BY DEF Inv, Present, envVars, Snapshot
<1>6. InThePast'
  BY <1>1 DEF Inv, InThePast, Settles, envVars
<1>7. QED BY <1>2, <1>3, <1>4, <1>5, <1>6 DEF Inv
-----------------------------------------------------------------------------
(* One lemma per call of the interface.                                     *)
LEMMA PlanKeeps ==
  ASSUME Inv, NEW i \in Intents, NEW timeout \in Timeouts, Plan(i, timeout)
  PROVE  Inv'
<1> DEFINE state == [intents[i] EXCEPT !.phase = "planned", !.expected = revision,
                       !.created = now, !.deadline = now + timeout]
<1>1. /\ intents[i] \in IntentStates /\ now \in Clock /\ revision \in Revisions
      /\ timeout \in Nat /\ timeout # 0 /\ timeout <= MaxTimeout
      /\ now <= ClockMax - timeout
  BY DEF Inv, TypeOK, IntentStates, Plan, TimeoutAllowed
<1>2. now + timeout \in Clock /\ (now + timeout) % (ClockMax + 1) = now + timeout
  BY <1>1 DEF Clock
<1>3. state \in IntentStates
  BY <1>1, <1>2 DEF IntentStates, Phases
<1>4. intents' = [intents EXCEPT ![i] = state] /\ UNCHANGED envVars
  BY <1>2 DEF Plan
<1>5. Settles(i, state)
  <2>1. now + timeout \in now + 1 .. now + MaxTimeout
    BY <1>1 DEF Clock
  <2>2. QED BY <1>1, <2>1 DEF Settles, IntentStates, Clock
<1> HIDE DEF state
<1>6. QED BY <1>3, <1>4, <1>5, CallKeeps

(* A call that ends in a time-out asks for nothing.                         *)
LEMMA TimeOutKeeps ==
  ASSUME Inv, NEW i \in Intents, intents[i].phase \in {"planned", "dispatched"},
         SetPhase(i, "timed_out"), UNCHANGED envVars
  PROVE  Inv'
<1> DEFINE state == [intents[i] EXCEPT !.phase = "timed_out"]
<1>1. intents[i] \in IntentStates
  BY DEF Inv, TypeOK, IntentStates
<1>2. state \in IntentStates
  BY <1>1 DEF IntentStates, Phases
<1>3. Settles(i, state)
  BY <1>1 DEF Settles, IntentStates, Inv, TypeOK, InThePast
<1>4. intents' = [intents EXCEPT ![i] = state]
  BY DEF SetPhase
<1> HIDE DEF state
<1>5. QED BY <1>2, <1>3, <1>4, CallKeeps

(* A conflict needs its cause.                                              *)
LEMMA ConflictKeeps ==
  ASSUME Inv, NEW i \in Intents, intents[i].phase \in {"planned", "dispatched"},
         NEW o \in history, o.at >= intents[i].created,
         o.revision # intents[i].expected
           \/ (o.origin = intents[i].target /\ o.value # intents[i].value),
         NEW ack \in Observations \cup {NoAck},
         intents' = [intents EXCEPT ![i].ack = ack, ![i].phase = "conflict"],
         UNCHANGED envVars
  PROVE  Inv'
<1> DEFINE state == [intents[i] EXCEPT !.ack = ack, !.phase = "conflict"]
<1>1. intents[i] \in IntentStates
  BY DEF Inv, TypeOK, IntentStates
<1>2. /\ state \in IntentStates /\ state.phase = "conflict"
      /\ state.created = intents[i].created /\ state.expected = intents[i].expected
      /\ state.target = intents[i].target /\ state.value = intents[i].value
      /\ state.deadline = intents[i].deadline
  BY <1>1 DEF IntentStates, Phases
<1>3. intents' = [intents EXCEPT ![i] = state]
  OBVIOUS
<1> HIDE DEF state
<1>4. Settles(i, state)
  BY <1>2 DEF Settles, Inv, TypeOK, InThePast
<1>5. QED BY <1>2, <1>3, <1>4, CallKeeps

LEMMA BareConflictKeeps ==
  ASSUME Inv, NEW i \in Intents, intents[i].phase \in {"planned", "dispatched"},
         NEW o \in history, o.at >= intents[i].created, o.revision # intents[i].expected,
         SetPhase(i, "conflict"), UNCHANGED envVars
  PROVE  Inv'
<1>1. intents[i] \in IntentStates
  BY DEF Inv, TypeOK, IntentStates
<1>2. [intents[i] EXCEPT !.ack = intents[i].ack, !.phase = "conflict"]
        = [intents[i] EXCEPT !.phase = "conflict"]
  BY <1>1 DEF IntentStates
<1>3. intents' = [intents EXCEPT ![i].ack = intents[i].ack, ![i].phase = "conflict"]
  BY <1>2 DEF SetPhase
<1>4. intents[i].ack \in Observations \cup {NoAck}
  BY <1>1 DEF IntentStates
<1>5. QED BY <1>3, <1>4, ConflictKeeps

LEMMA DispatchKeeps ==
  ASSUME Inv, NEW i \in Intents, Dispatch(i)
  PROVE  Inv'
<1>1. intents[i] \in IntentStates /\ intents[i].phase = "planned" /\ intents[i].created <= now
      /\ now \in Clock /\ UNCHANGED envVars
  BY DEF Inv, TypeOK, IntentStates, InThePast, Dispatch
<1>2. CASE ~RevisionHolds(i) /\ SetPhase(i, "conflict")
  <2>1. Snapshot("hardware") \in history /\ Snapshot("hardware").revision = revision
        /\ Snapshot("hardware").at = now
    BY DEF Inv, Present, Targets, Snapshot
  <2>2. QED BY <1>1, <1>2, <2>1, BareConflictKeeps DEF RevisionHolds
<1>3. CASE SetPhase(i, "timed_out")
  BY <1>1, <1>3, TimeOutKeeps
<1>4. CASE intents' = [intents EXCEPT ![i].phase = "dispatched", ![i].dispatched = now]
  <2> DEFINE state == [intents[i] EXCEPT !.phase = "dispatched", !.dispatched = now]
  <2>1. state \in IntentStates
    BY <1>1 DEF IntentStates, Phases
  <2>2. Settles(i, state)
    BY <1>1 DEF Settles, IntentStates, Inv, TypeOK
  <2>3. intents' = [intents EXCEPT ![i] = state]
    BY <1>4
  <2> HIDE DEF state
  <2>4. QED BY <1>1, <2>1, <2>2, <2>3, CallKeeps
<1>5. QED BY <1>2, <1>3, <1>4 DEF Dispatch

(* A report that counts was read from the target after the dispatch.        *)
LEMMA AcknowledgeKeeps ==
  ASSUME Inv, NEW i \in Intents, NEW o \in history \cup Assumed, Acknowledge(i, o)
  PROVE  Inv'
<1>1. o \in history
  <2>1. \A a \in Assumed : ~a.observed
    BY DEF Assumed
  <2>2. QED BY <2>1 DEF Acknowledge, Relevant
<1>2. /\ intents[i] \in IntentStates /\ intents[i].phase = "dispatched"
      /\ o \in Observations /\ UNCHANGED envVars
      /\ intents[i].created <= intents[i].dispatched /\ intents[i].created <= now
      /\ intents[i].deadline \in intents[i].created + 1 .. intents[i].created + MaxTimeout
      /\ o.origin = intents[i].target /\ o.at >= intents[i].dispatched
  BY <1>1 DEF Inv, TypeOK, IntentStates, InThePast, Acknowledge, Relevant
<1>3. o.at >= intents[i].created /\ intents[i].target \in Targets
      /\ o.revision \in Revisions /\ intents[i].expected \in Revisions
  BY <1>2 DEF IntentStates, Observations, Clock
<1>4. CASE SetPhase(i, "timed_out")
  BY <1>2, <1>4, TimeOutKeeps
<1>5. CASE ~Current(i, o) /\ SetPhase(i, "conflict")
  <2>1. o.revision # intents[i].expected
    BY <1>3, <1>5 DEF Current, Revisions, Targets
  <2>2. QED BY <1>1, <1>2, <1>3, <1>5, <2>1, BareConflictKeeps
<1>6. CASE /\ InTime(i, o) /\ Current(i, o) /\ o.value = intents[i].value
           /\ intents' = [intents EXCEPT ![i].ack = o, ![i].phase = "acknowledged"]
  <2> DEFINE state == [intents[i] EXCEPT !.ack = o, !.phase = "acknowledged"]
  <2>1. /\ state \in IntentStates /\ state.phase = "acknowledged" /\ state.ack = o
        /\ state.created = intents[i].created /\ state.expected = intents[i].expected
        /\ state.target = intents[i].target /\ state.value = intents[i].value
        /\ state.deadline = intents[i].deadline /\ state.dispatched = intents[i].dispatched
    BY <1>2 DEF IntentStates, Phases
  <2>2. intents' = [intents EXCEPT ![i] = state]
    BY <1>6
  <2> HIDE DEF state
  <2>3. o.at \in intents[i].dispatched .. intents[i].deadline - 1
    BY <1>2, <1>6 DEF InTime, IntentStates, Observations, Clock
  <2>4. Settles(i, state)
    BY <1>1, <1>2, <1>6, <2>1, <2>3 DEF Settles, Current
  <2>5. QED BY <1>2, <2>1, <2>2, <2>4, CallKeeps
<1>7. CASE /\ o.value # intents[i].value
           /\ intents' = [intents EXCEPT ![i].ack = o, ![i].phase = "conflict"]
  BY <1>1, <1>2, <1>3, <1>7, ConflictKeeps
<1>8. QED BY <1>4, <1>5, <1>6, <1>7 DEF Acknowledge

LEMMA ExpireKeeps ==
  ASSUME Inv, NEW i \in Intents, Expire(i)
  PROVE  Inv'
  BY TimeOutKeeps DEF Expire
-----------------------------------------------------------------------------
(* The world goes on: what was read stays read, the clock never goes back.  *)
LEMMA WorldKeeps ==
  ASSUME Inv, UNCHANGED intents, now' \in Clock, now <= now', revision' \in Revisions,
         actual' \in [Targets -> Values], Record
  PROVE  Inv'
<1>1. history' = history \cup {Snapshot(side)' : side \in Targets}
  BY DEF Record
<1>2. \A side \in Targets : Snapshot(side)' \in Observations
  BY DEF Snapshot, Observations, Targets
<1>3. TypeOK'
  BY <1>1, <1>2 DEF Inv, TypeOK
<1>4. AckIsTrue'
  BY <1>1 DEF Inv, AckIsTrue, Current
<1>5. ConflictIsReal'
  BY <1>1 DEF Inv, ConflictIsReal
<1>6. Present'
  BY <1>1 DEF Present
<1>7. InThePast'
  <2>1. now \in Nat /\ now' \in Nat /\ \A i \in Intents : intents[i].created \in Nat
    BY DEF Inv, TypeOK, Clock
  <2>2. QED BY <2>1 DEF Inv, InThePast
<1>8. QED BY <1>3, <1>4, <1>5, <1>6, <1>7 DEF Inv

LEMMA StepKeeps ==
  ASSUME Inv, [Next]_vars
  PROVE  Inv'
<1>1. CASE UNCHANGED vars
  BY <1>1 DEF vars, envVars, Inv, TypeOK, AckIsTrue, Current, ConflictIsReal, Present, Snapshot,
              InThePast
<1>2. ASSUME Tick PROVE Inv'
  BY <1>2, WorldKeeps DEF Tick, Inv, TypeOK, Clock
<1>3. ASSUME NEW side \in Targets, NEW v \in Values, SideChanges(side, v) PROVE Inv'
  <2>1. revision' \in Revisions /\ actual' \in [Targets -> Values]
    BY <1>3 DEF SideChanges, Inv, TypeOK, Revisions, Targets
  <2>2. now' \in Clock /\ now <= now'
    BY <1>3 DEF SideChanges, Inv, TypeOK, Clock
  <2>3. QED BY <1>3, <2>1, <2>2, WorldKeeps DEF SideChanges
<1>4. ASSUME SessionChanges PROVE Inv'
  <2>1. revision' \in Revisions
    BY <1>4 DEF SessionChanges, Inv, TypeOK, Revisions
  <2>2. now' \in Clock /\ now <= now' /\ actual' \in [Targets -> Values]
    BY <1>4 DEF SessionChanges, Inv, TypeOK, Clock
  <2>3. QED BY <1>4, <2>1, <2>2, WorldKeeps DEF SessionChanges
<1>5. QED BY <1>1, <1>2, <1>3, <1>4, PlanKeeps, DispatchKeeps, ExpireKeeps, AcknowledgeKeeps
          DEF Next

LEMMA Start == Init => Inv
<1> SUFFICES ASSUME Init PROVE Inv
  OBVIOUS
<1>1. now \in Clock /\ revision \in Revisions /\ actual \in [Targets -> Values]
  BY DEF Init, Clock, Revisions
<1>2. \A side \in Targets : Snapshot(side) \in Observations
  BY <1>1 DEF Snapshot, Observations, Targets
<1>3. intents \in [Intents -> IntentStates] /\ \A i \in Intents : intents[i].phase = "blocked"
  BY <1>1 DEF Init, IntentStates, Phases, Clock
<1>4. TypeOK
  BY <1>1, <1>2, <1>3 DEF Init, TypeOK, IntentStates
<1>5. QED BY <1>3, <1>4 DEF Init, Inv, AckIsTrue, ConflictIsReal, Present, InThePast

LEMMA InvHolds == Spec => []Inv
  BY Start, StepKeeps, PTL DEF Spec

(* The deadline of every plan lies ahead of it and within the bound: the    *)
(* sum never wraps, however close to its end the clock is.                  *)
THEOREM TypeCorrect == Spec => []TypeOK
  BY InvHolds, PTL DEF Inv

(* "acknowledged" is never reported of a write the target did not show.     *)
THEOREM AcksAreTrue == Spec => []AckIsTrue
  BY InvHolds, PTL DEF Inv

(* "conflict" is never reported without a revision or a value that differs. *)
THEOREM ConflictsAreReal == Spec => []ConflictIsReal
  BY InvHolds, PTL DEF Inv

(* No late, repeated or reordered answer and no further poll changes an     *)
(* intent that is acknowledged, timed out or in conflict.                   *)
THEOREM SettledStays == Spec => SettledForever
<1>1. Inv /\ [Next]_vars
        => [\A i \in Intents : intents[i].phase \in Settled => UNCHANGED intents[i]]_vars
  <2> SUFFICES ASSUME Inv, Next, NEW j \in Intents, intents[j].phase \in Settled
               PROVE  intents'[j] = intents[j]
    BY DEF Inv
  <2>1. intents \in [Intents -> IntentStates]
    BY DEF Inv, TypeOK, IntentStates
  <2>2. ASSUME NEW i \in Intents, NEW timeout \in Timeouts, Plan(i, timeout)
        PROVE  intents'[j] = intents[j]
    BY <2>1, <2>2 DEF Plan, Settled
  <2>3. ASSUME NEW i \in Intents, Dispatch(i) PROVE intents'[j] = intents[j]
    BY <2>1, <2>3 DEF Dispatch, SetPhase, Settled
  <2>4. ASSUME NEW i \in Intents, Expire(i) PROVE intents'[j] = intents[j]
    BY <2>1, <2>4 DEF Expire, SetPhase, Settled
  <2>5. ASSUME NEW i \in Intents, NEW o \in history \cup Assumed, Acknowledge(i, o)
        PROVE  intents'[j] = intents[j]
    BY <2>1, <2>5 DEF Acknowledge, SetPhase, Settled
  <2>6. QED BY <2>2, <2>3, <2>4, <2>5 DEF Next, Tick, SideChanges, SessionChanges
<1>2. QED BY <1>1, InvHolds, PTL DEF Spec, SettledForever
-----------------------------------------------------------------------------
HIDE WriteAssumption

(* Division rounds down.                                                   *)
LEMMA DivBounds ==
  ASSUME NEW a \in Nat, NEW b \in Nat \ {0}
  PROVE  /\ a \div b \in Nat
         /\ b * (a \div b) <= a
         /\ a < b * (a \div b) + b
  OBVIOUS

(* A common factor of a comparison may be dropped.                         *)
LEMMA Cancel ==
  ASSUME NEW n \in Nat \ {0}, NEW a \in Int, NEW b \in Int
  PROVE  (n * a <= n * b => a <= b) /\ (n * a < n * b => a < b)
  OBVIOUS

(* Rounded to one of n intervals of u, a position is off by half of u at   *)
(* most, by half exactly only when it is rounded up.                       *)
LEMMA RoundToStep ==
  ASSUME NEW x \in Nat, NEW n \in Nat \ {0}, NEW u \in Nat \ {0}
  PROVE  LET k == Round(x * n, n * u)
         IN  k \in Nat /\ 2 * (k * u) <= 2 * x + u /\ 2 * x + u < 2 * (k * u) + 2 * u
<1> DEFINE k == Round(x * n, n * u)
           b == n * u
<1>1. b \in Nat \ {0} /\ x * n \in Nat
  OBVIOUS
<1> HIDE DEF b
<1>2. k = (2 * (x * n) + b) \div (2 * b)
  BY DEF Round, b
<1>3. /\ k \in Nat
      /\ (2 * b) * k <= 2 * (x * n) + b
      /\ 2 * (x * n) + b < (2 * b) * k + 2 * b
  <2>1. 2 * (x * n) + b \in Nat /\ 2 * b \in Nat \ {0}
    BY <1>1
  <2>2. QED
    BY <1>2, <2>1, DivBounds
<1> HIDE DEF k
<1>4. n * (2 * (k * u)) <= n * (2 * x + u)
  BY <1>3 DEF b
<1>5. n * (2 * x + u) < n * (2 * (k * u) + 2 * u)
  BY <1>3 DEF b
<1>6. k * u \in Nat /\ x \in Int /\ u \in Int
  BY <1>3
<1>7. 2 * (k * u) <= 2 * x + u
  <2>1. 2 * (k * u) \in Int /\ 2 * x + u \in Int
    BY <1>6
  <2>2. QED
    BY <1>4, <2>1, Cancel
<1>8. 2 * x + u < 2 * (k * u) + 2 * u
  <2>1. 2 * (k * u) + 2 * u \in Int /\ 2 * x + u \in Int
    BY <1>6
  <2>2. QED
    BY <1>5, <2>1, Cancel
<1>9. QED
  BY <1>3, <1>7, <1>8 DEF k

(* y is the multiple of u nearest to x, the upper one of two.              *)
Nearest(y, x, u) ==
  /\ \E k \in Nat : y = k * u
  /\ 2 * y <= 2 * x + u /\ 2 * x + u < 2 * y + 2 * u

(* Multiples less than one interval apart are the same.                    *)
LEMMA SameMultiple ==
  ASSUME NEW j \in Nat, NEW k \in Nat, NEW u \in Nat \ {0}, j * u < k * u + u, k * u < j * u + u
  PROVE  j = k
<1>1. u * j < u * (k + 1) /\ u * k < u * (j + 1)
  OBVIOUS
<1>2. j < k + 1 /\ k < j + 1
  BY <1>1, Cancel
<1>3. QED
  BY <1>2

(* A step is the step nearest to itself.                                   *)
LEMMA StepIsNearest ==
  ASSUME NEW u \in Nat \ {0}, NEW j \in Nat, NEW y, Nearest(y, j * u, u)
  PROVE  y = j * u
<1>1. PICK k \in Nat : y = k * u
  BY DEF Nearest
<1>2. j * u \in Nat /\ k * u \in Nat
  OBVIOUS
<1>3. k * u < j * u + u /\ j * u < k * u + u
  BY <1>1, <1>2 DEF Nearest
<1>4. QED
  BY <1>1, <1>3, SameMultiple

(* A step of the wider intervals comes back from the nearest step of the   *)
(* narrower ones.                                                          *)
LEMMA ReturnsToStep ==
  ASSUME NEW u \in Nat \ {0}, NEW v \in Nat \ {0}, u <= v, NEW j \in Nat,
         NEW y, NEW z, Nearest(y, j * v, u), Nearest(z, y, v)
  PROVE  z = j * v
<1>1. CASE u = v
  BY <1>1, StepIsNearest
<1>2. CASE u < v
  <2>1. PICK k \in Nat : z = k * v
    BY DEF Nearest
  <2>2. j * v \in Nat /\ k * v \in Nat /\ y \in Nat
    BY DEF Nearest
  <2>3. k * v < j * v + v /\ j * v < k * v + v
    BY <1>2, <2>1, <2>2 DEF Nearest
  <2>4. QED
    BY <2>1, <2>3, SameMultiple
<1>3. QED
  BY <1>1, <1>2

(* The distance of an endpoint's steps, and the mappings that may relay.   *)
Interval(m, side) == Grid \div (m.steps[side] - 1)
Qualifies(m) == m \in Mappings /\ Valid(m)

(* A valid mapping that is stepped has steps, and they divide the range.   *)
LEMMA Intervals ==
  ASSUME NEW m, Qualifies(m), m.curve = "stepped", NEW side \in Sides
  PROVE  /\ m.steps[side] - 1 \in Nat \ {0} /\ Interval(m, side) \in Nat \ {0}
         /\ (m.steps[side] - 1) * Interval(m, side) = Grid
<1> DEFINE n == m.steps[side] - 1
<1>1. n \in Nat \ {0} /\ Grid % n = 0 /\ Grid \in Nat \ {0}
  BY GridAssumption DEF Qualifies, Valid, Sides
<1> HIDE DEF n
<1>2. Grid \div n \in Nat /\ n * (Grid \div n) = Grid
  BY <1>1
<1>3. Grid \div n # 0
  BY <1>1, <1>2
<1>4. QED
  BY <1>1, <1>2, <1>3 DEF n, Interval

(* Snap is the nearest step of an endpoint.                                *)
LEMMA SnapIsNearest ==
  ASSUME NEW m, Qualifies(m), m.curve = "stepped", NEW side \in Sides, NEW x \in Nat
  PROVE  Snap(m, side, x) \in Nat /\ Nearest(Snap(m, side, x), x, Interval(m, side))
<1> DEFINE n == m.steps[side] - 1
           u == Interval(m, side)
           k == Round(x * n, Grid)
<1>1. n \in Nat \ {0} /\ u \in Nat \ {0} /\ n * u = Grid
  BY Intervals
<1>2. Snap(m, side, x) = k * u
  <2>1. n > 0
    <3> HIDE DEF n
    <3> QED
      BY <1>1
  <2>2. QED
    BY <2>1, Zenon DEF Snap, Interval
<1> HIDE DEF n, u
<1>3. k \in Nat /\ 2 * (k * u) <= 2 * x + u /\ 2 * x + u < 2 * (k * u) + 2 * u
  BY <1>1, RoundToStep
<1>4. QED
  BY <1>1, <1>2, <1>3 DEF Nearest, u

(* What was relayed once returns to itself by way of the other side.       *)
LEMMA RoundTrip ==
  ASSUME NEW m, Qualifies(m), NEW side \in Sides, NEW x \in Nat
  PROVE  /\ Relayed(m, side, x) \in Nat
         /\ Relayed(m, side, Relayed(m, Other(side), Relayed(m, side, x))) = Relayed(m, side, x)
<1> DEFINE s == side
           t == Other(side)
<1>1. t \in Sides /\ Other(t) = s
  BY DEF Sides, Other
<1>2. CASE m.curve # "stepped"
  BY <1>2 DEF Relayed, Snap
<1>3. CASE m.curve = "stepped"
  <2> DEFINE u == Interval(m, s)
             v == Interval(m, t)
             w == Snap(m, s, x)
             y == Snap(m, t, w)
  <2>1. u \in Nat \ {0} /\ v \in Nat \ {0}
    BY <1>1, <1>3, Intervals
  <2>2. w \in Nat /\ Nearest(w, x, u)
    BY <1>1, <1>3, SnapIsNearest
  <2>3. y \in Nat /\ Nearest(y, w, v)
    BY <1>1, <1>3, <2>2, SnapIsNearest
  <2>4. PICK j \in Nat : w = j * u
    BY <2>2 DEF Nearest
  <2>5. PICK k \in Nat : y = k * v
    BY <2>3 DEF Nearest
  <2> DEFINE w1 == Snap(m, s, y)
             y1 == Snap(m, t, w1)
  <2>6. Relayed(m, s, x) = y
    BY DEF Relayed
  <2>7. Snap(m, t, y) = y
    BY <1>1, <1>3, <2>1, <2>3, <2>5, SnapIsNearest, StepIsNearest
  <2>8. Relayed(m, t, y) = w1
    BY <1>1, <2>7 DEF Relayed
  <2>9. w1 \in Nat /\ Nearest(w1, y, u)
    BY <1>1, <1>3, <2>3, SnapIsNearest
  <2>10. PICK i \in Nat : w1 = i * u
    BY <2>9 DEF Nearest
  <2>11. Snap(m, s, w1) = w1
    BY <1>1, <1>3, <2>1, <2>9, <2>10, SnapIsNearest, StepIsNearest
  <2>12. Relayed(m, s, w1) = y1
    BY <2>11 DEF Relayed
  <2>13. y1 \in Nat /\ Nearest(y1, w1, v)
    BY <1>1, <1>3, <2>9, SnapIsNearest
  <2> HIDE DEF u, v, w, y, w1, y1
  <2>14. CASE v <= u
    <3>1. w1 = w
      BY <2>1, <2>3, <2>4, <2>9, <2>14, ReturnsToStep
    <3>2. QED
      BY <2>3, <2>6, <2>8, <2>12, <3>1 DEF y, y1
  <2>15. CASE u <= v
    <3>1. y1 = y
      BY <2>1, <2>5, <2>9, <2>13, <2>15, ReturnsToStep
    <3>2. QED
      BY <2>3, <2>6, <2>8, <2>12, <3>1
  <2>16. QED
    BY <2>1, <2>14, <2>15
<1>4. QED
  BY <1>2, <1>3

-----------------------------------------------------------------------------
RelayPhases == Open \cup {"blocked", "conflict", "acknowledged", "timed_out"}
RelayTypes ==
  /\ mapping \in Mappings
  /\ position \in [Sides -> Nat]
  /\ fresh \subseteq Sides
  /\ write \in [phase : RelayPhases, target : Sides, value : Nat, current : BOOLEAN]
  /\ turns \in Nat /\ hops \in Nat

(* A write that is under way or done carries what its source holds, unless *)
(* the source has changed and says so; and once it is done its target      *)
(* holds that, or says so.                                                 *)
Carries ==
  LET s == Other(write.target) IN
  write.phase \in Open \cup {"acknowledged"} =>
    /\ Qualifies(mapping)
    /\ \E z \in Nat : write.value = Relayed(mapping, s, z)
    /\ s \in fresh \/ write.value = Relayed(mapping, s, position[s])
    /\ write.phase = "acknowledged" =>
         write.target \in fresh \/ position[write.target] = write.value

(* How often the sides may still move: a value that came from the other    *)
(* side returns to it unchanged.                                           *)
Came(side) == \E z \in Nat : position[side] = Relayed(mapping, Other(side), z)
Met(side) == position[Other(side)] = Relayed(mapping, side, position[side])
Sent(side) == write.phase \in Open /\ write.target = Other(side)
Left(n) == hops + n <= 3
Quiet ==
  /\ Left(0)
  /\ write.phase \notin Open =>
       \/ fresh = {} \/ Left(2)
       \/ \E side \in Sides : fresh = {side} /\ (Met(side) \/ (Left(1) /\ Came(side)))
  /\ \A side \in Sides : Sent(side) =>
       /\ side \in fresh => hops = 0
       /\ side \notin fresh =>
            \/ Left(2)
            \/ Other(side) \notin fresh /\ (Met(side) \/ (Left(1) /\ Came(side)))

(* The invariant of the relay.                                             *)
RelayInv == RelayTypes /\ Carries /\ Quiet

(* There are two sides, each the other of the other.                       *)
LEMMA TwoSides ==
  ASSUME NEW side \in Sides
  PROVE  /\ Other(side) \in Sides /\ Other(Other(side)) = side /\ Other(side) # side
         /\ \A other \in Sides : other = side \/ other = Other(side)
BY DEF Sides, Other

(* A plan takes a value off its side and into a write, or is refused.      *)
LEMMA PlanRelayKeeps ==
  ASSUME RelayInv, NEW side \in Sides, PlanRelay(side)
  PROVE  RelayInv'
<1> DEFINE accepted == Valid(mapping) /\ side \in Sources(mapping) /\ position[side] <= Grid
<1>1. /\ side \in fresh /\ write.phase \notin Open /\ fresh' = fresh \ {side}
      /\ UNCHANGED <<mapping, position, turns, hops>>
  BY DEF PlanRelay
<1>2. position[side] \in Nat
  BY DEF RelayInv, RelayTypes
<1>3. \/ /\ accepted
         /\ write' = [phase |-> "planned", target |-> Other(side), current |-> TRUE,
                      value |-> Relayed(mapping, side, position[side])]
      \/ write' = [phase |-> "blocked", target |-> Other(side), current |-> TRUE, value |-> 0]
  BY DEF PlanRelay
<1>4. /\ Other(side) \in Sides /\ Other(Other(side)) = side /\ Other(side) # side
      /\ \A other \in Sides : other = side \/ other = Other(side)
  BY TwoSides
<1>5. CASE /\ accepted
           /\ write' = [phase |-> "planned", target |-> Other(side), current |-> TRUE,
                        value |-> Relayed(mapping, side, position[side])]
  <2>1. Qualifies(mapping)
    BY <1>5 DEF RelayInv, RelayTypes, Qualifies
  <2>2. Relayed(mapping, side, position[side]) \in Nat
    BY <1>2, <2>1, RoundTrip
  <2>3. RelayTypes'
    BY <1>1, <1>4, <1>5, <2>2 DEF RelayInv, RelayTypes, RelayPhases, Open
  <2>4. Carries'
    BY <1>1, <1>2, <1>4, <1>5, <2>1 DEF Carries, Open, Qualifies
  <2>5. Quiet'
    BY <1>1, <1>4, <1>5 DEF RelayInv, Quiet, Left, Sent, Met, Came, Open
  <2>6. QED
    BY <2>3, <2>4, <2>5 DEF RelayInv
<1>6. CASE write' = [phase |-> "blocked", target |-> Other(side), current |-> TRUE, value |-> 0]
  <2>1. RelayTypes'
    BY <1>1, <1>4, <1>6 DEF RelayInv, RelayTypes, RelayPhases, Open
  <2>2. Carries'
    BY <1>6 DEF Carries, Open
  <2>3. Quiet'
    BY <1>1, <1>4, <1>6 DEF RelayInv, Quiet, Left, Sent, Met, Came, Open
  <2>4. QED
    BY <2>1, <2>2, <2>3 DEF RelayInv
<1>7. QED
  BY <1>3, <1>5, <1>6

(* A write that goes on or is given up moves no side.                      *)
LEMMA PhaseKeeps ==
  ASSUME RelayInv, NEW phase \in {"dispatched", "conflict", "timed_out"}, write.phase \in Open,
         write' = [write EXCEPT !.phase = phase],
         UNCHANGED <<mapping, position, fresh, turns, hops>>
  PROVE  RelayInv'
<1>1. /\ write'.phase = phase /\ write'.target = write.target /\ write'.value = write.value
      /\ RelayTypes'
  BY DEF RelayInv, RelayTypes, RelayPhases, Open
<1>2. Carries'
  BY <1>1 DEF RelayInv, Carries, Qualifies, Open
<1>3. write.target \in Sides
  BY DEF RelayInv, RelayTypes
<1>4. /\ Other(write.target) \in Sides /\ Other(Other(write.target)) = write.target
      /\ \A other \in Sides : other = write.target \/ other = Other(write.target)
  BY <1>3, TwoSides
<1>5. Quiet'
  BY <1>1, <1>4 DEF RelayInv, RelayTypes, Quiet, Left, Sent, Met, Came, Open
<1>6. QED
  BY <1>1, <1>2, <1>5 DEF RelayInv

(* A turn starts the count anew, and its side says so.                     *)
LEMMA TurnKeeps ==
  ASSUME RelayInv, NEW side \in Sides, NEW x \in Hands, Turn(side, x)
  PROVE  RelayInv'
<1>1. /\ position' = [position EXCEPT ![side] = x] /\ fresh' = fresh \cup {side}
      /\ hops' = 0 /\ turns' = turns + 1 /\ mapping' = mapping
  BY DEF Turn, Moves
<1>2. x \in Nat
  BY GridAssumption
<1>3. /\ write'.phase = write.phase /\ write'.target = write.target /\ write'.value = write.value
      /\ write' \in [phase : RelayPhases, target : Sides, value : Nat, current : BOOLEAN]
  BY DEF RelayInv, RelayTypes, Turn
<1>4. RelayTypes'
  BY <1>1, <1>2, <1>3 DEF RelayInv, RelayTypes
<1>5. Carries'
  BY <1>1, <1>3 DEF RelayInv, RelayTypes, Carries, Qualifies, Open
<1>6. Quiet'
  BY <1>1 DEF Quiet, Left
<1>7. QED
  BY <1>4, <1>5, <1>6 DEF RelayInv

(* An arrival moves the target to a value that came from its source.       *)
LEMMA ArriveKeeps ==
  ASSUME RelayInv, NEW intime \in BOOLEAN, Arrive(intime)
  PROVE  RelayInv'
<1>0. PICK t \in Sides, v \in Nat : t = write.target /\ v = write.value
  BY DEF RelayInv, RelayTypes
<1> DEFINE s == Other(t)
<1>1. position \in [Sides -> Nat] /\ hops \in Nat
  BY DEF RelayInv, RelayTypes
<1>2. s \in Sides /\ Other(s) = t /\ s # t /\ \A other \in Sides : other = s \/ other = t
  BY TwoSides
<1>3. /\ write.phase = "dispatched" /\ mapping' = mapping /\ turns' = turns
      /\ position' = [position EXCEPT ![t] = v]
      /\ fresh' = IF position[t] = v THEN fresh ELSE fresh \cup {t}
      /\ hops' = IF position' = position THEN hops ELSE hops + 1
  BY <1>0 DEF Arrive, Moves
<1>4. PICK phase \in {"acknowledged", "timed_out"} : write' = [write EXCEPT !.phase = phase]
  BY DEF Arrive
<1>5. /\ write'.phase = phase /\ write'.target = t /\ write'.value = v
      /\ write' \in [phase : RelayPhases, target : Sides, value : Nat, current : BOOLEAN]
  BY <1>0, <1>4 DEF RelayInv, RelayTypes, RelayPhases
<1>6. /\ position'[t] = v /\ position'[s] = position[s]
      /\ position' = position <=> position[t] = v
  BY <1>1, <1>2, <1>3
<1>7. RelayTypes'
  BY <1>1, <1>3, <1>5 DEF RelayInv, RelayTypes
<1>8. /\ Qualifies(mapping)
      /\ \E z \in Nat : v = Relayed(mapping, s, z)
      /\ s \in fresh \/ v = Relayed(mapping, s, position[s])
  BY <1>0, <1>3 DEF RelayInv, Carries, Open
<1> HIDE DEF s
<1>9. Carries'
  BY <1>2, <1>3, <1>5, <1>6, <1>8 DEF Carries, Qualifies, s
<1>10. Quiet'
  <2> USE DEF Left, Open
  <2>1. s \in fresh => hops = 0
    BY <1>0, <1>2, <1>3 DEF RelayInv, Quiet, Sent
  <2>2. s \notin fresh => Left(2) \/ (t \notin fresh /\ (Met(s) \/ (Left(1) /\ Came(s))))
    BY <1>0, <1>2, <1>3 DEF RelayInv, Quiet, Sent
  <2>3. CASE position[t] = v
    <3>1. fresh' = fresh /\ hops' = hops
      BY <1>3, <1>6, <2>3
    <3>2. Left(0)
      BY DEF RelayInv, Quiet
    <3>3. fresh \subseteq Sides
      BY DEF RelayInv, RelayTypes
    <3>4. Left(2) \/ fresh = {}
      BY <1>1, <1>2, <2>1, <2>2, <3>3
    <3>5. QED
      BY <1>5, <3>1, <3>2, <3>4 DEF Quiet, Sent
  <2>4. CASE position[t] # v
    <3>1. fresh' = fresh \cup {t} /\ hops' = hops + 1
      BY <1>3, <1>6, <2>4
    <3>2. Left(0)' /\ fresh \subseteq Sides
      BY <1>1, <1>2, <1>8, <2>1, <2>2, <2>4, <3>1 DEF RelayInv, RelayTypes, Met
    <3>3. CASE Left(2) /\ s \notin fresh
      <4>1. Left(1)' /\ fresh' = {t}
        BY <1>1, <1>2, <3>1, <3>2, <3>3
      <4>2. Came(t)'
        BY <1>3, <1>6, <1>8 DEF Came, s
      <4>3. QED
        BY <1>1, <1>5, <3>2, <4>1, <4>2 DEF Quiet, Sent
    <3>4. CASE s \in fresh
      BY <1>1, <1>5, <2>1, <3>1, <3>2, <3>4 DEF Quiet, Sent
    <3>5. CASE Left(1) /\ Came(s) /\ s \notin fresh
      <4>1. PICK z \in Nat : position[s] = Relayed(mapping, t, z)
        BY <1>2, <3>5 DEF Came
      <4>2. /\ Other(t) = s /\ v = Relayed(mapping, s, position[s])
            /\ Relayed(mapping, t, Relayed(mapping, s, position[s])) = position[s]
        <5>1. Other(t) = s
          BY DEF s
        <5>2. Relayed(mapping, t, Relayed(mapping, Other(t), Relayed(mapping, t, z)))
                = Relayed(mapping, t, z)
          BY <1>8, RoundTrip
        <5>3. QED
          BY <1>8, <3>5, <4>1, <5>1, <5>2
      <4>3. Met(t)' /\ fresh' = {t}
        BY <1>1, <1>2, <1>3, <1>6, <3>1, <3>2, <3>5, <4>2, TwoSides DEF Met, s
      <4>4. QED
        BY <1>1, <1>5, <3>2, <4>3 DEF Quiet, Sent
    <3>6. QED
      BY <1>8, <2>2, <2>4, <3>3, <3>4, <3>5, <1>2 DEF Met
  <2>5. QED
    BY <2>3, <2>4
<1>11. QED
  BY <1>7, <1>9, <1>10 DEF RelayInv

(* At first nothing is fresh or under way.                                 *)
LEMMA RelayStarts == RelayInit => RelayInv
  BY GridAssumption DEF RelayInit, RelayInv, RelayTypes, Carries, Quiet, Left, Sent, Sides,
                        RelayPhases, Open

(* The invariant holds of every state.                                     *)
THEOREM RelayInvariance == RelaySpec => []RelayInv
<1>1. RelayInv /\ [RelayNext]_relayVars => RelayInv'
  <2> SUFFICES ASSUME RelayInv, [RelayNext]_relayVars PROVE RelayInv'
    OBVIOUS
  <2>1. CASE DispatchRelay
    <3>1. PICK phase \in {"dispatched", "conflict"} : write' = [write EXCEPT !.phase = phase]
      BY <2>1 DEF DispatchRelay
    <3>2. QED
      BY <2>1, <3>1, PhaseKeeps DEF DispatchRelay, Open
  <2>2. CASE Lost
    BY <2>2, PhaseKeeps DEF Lost
  <2>3. CASE UNCHANGED relayVars
    BY <2>3 DEF relayVars, RelayInv, RelayTypes, Carries, Qualifies, Quiet, Left, Sent, Met, Came
  <2>4. QED
    BY <2>1, <2>2, <2>3, PlanRelayKeeps, ArriveKeeps, TurnKeeps DEF RelayNext
<1>2. QED
  BY <1>1, RelayStarts, PTL DEF RelaySpec

(* After a turn the two sides move each other at most three times, whatever*)
(* their steps, whatever else was under way and wherever writes are lost.  *)
THEOREM EchoesEnd == RelaySpec => []EchoesDieOut
<1>1. RelayInv => EchoesDieOut
  BY DEF RelayInv, RelayTypes, Quiet, Left, EchoesDieOut
<1>2. QED
  BY <1>1, RelayInvariance, PTL

(* A relayed value is off by half a step of each side at most.             *)
LEMMA RelayedIsNear ==
  ASSUME NEW m, Qualifies(m), NEW side \in Sides, NEW x \in Nat
  PROVE  IF m.curve = "stepped"
         THEN LET n == m.steps[side] - 1
                  k == m.steps[Other(side)] - 1
              IN  2 * n * k * Apart(x, Relayed(m, side, x)) <= Grid * (n + k)
         ELSE Relayed(m, side, x) = x
<1> DEFINE n == m.steps[side] - 1
           k == m.steps[Other(side)] - 1
           u == Interval(m, side)
           v == Interval(m, Other(side))
           w == Snap(m, side, x)
           y == Snap(m, Other(side), w)
<1>1. CASE m.curve # "stepped"
  BY <1>1 DEF Relayed, Snap
<1>2. CASE m.curve = "stepped"
  <2>0. Other(side) \in Sides
    BY TwoSides
  <2>1. /\ n \in Nat \ {0} /\ u \in Nat \ {0} /\ n * u = Grid
        /\ k \in Nat \ {0} /\ v \in Nat \ {0} /\ k * v = Grid
    BY <1>2, <2>0, Intervals
  <2>2. w \in Nat /\ 2 * w <= 2 * x + u /\ 2 * x + u < 2 * w + 2 * u
    BY <1>2, SnapIsNearest DEF Nearest
  <2>3. y \in Nat /\ 2 * y <= 2 * w + v /\ 2 * w + v < 2 * y + 2 * v
    BY <1>2, <2>0, <2>2, SnapIsNearest DEF Nearest
  <2>4. Relayed(m, side, x) = y
    BY DEF Relayed
  <2> HIDE DEF n, k, u, v, w, y
  <2>5. Apart(x, y) \in Nat /\ 2 * Apart(x, y) <= u + v
    BY <2>1, <2>2, <2>3 DEF Apart
  <2>6. (n * k) * (2 * Apart(x, y)) <= (n * k) * (u + v)
    <3> DEFINE a == Apart(x, y)
               nk == n * k
    <3>1. nk \in Nat /\ a \in Nat /\ 2 * a <= u + v
      BY <2>1, <2>5
    <3> HIDE DEF a, nk
    <3>2. nk * (2 * a) <= nk * (u + v)
      BY <2>1, <3>1
    <3>3. QED
      BY <3>2 DEF a, nk
  <2>7. (n * k) * (u + v) = Grid * (n + k)
    BY <2>1
  <2>8. 2 * n * k * Apart(x, y) <= Grid * (n + k)
    BY <2>1, <2>5, <2>6, <2>7
  <2>9. QED
    BY <1>2, <2>4, <2>8 DEF n, k
<1>3. QED
  BY <1>1, <1>2

(* When all changes were relayed and the last write was acknowledged the   *)
(* two sides agree to half a step of each.                                 *)
THEOREM RestAgrees == RelaySpec => []SidesAgreeAtRest
<1>1. RelayInv => SidesAgreeAtRest
  <2> SUFFICES ASSUME RelayInv, fresh = {}, write.phase = "acknowledged" PROVE SidesAgreeAtRest
    BY DEF SidesAgreeAtRest
  <2>1. PICK t \in Sides : t = write.target
    BY DEF RelayInv, RelayTypes
  <2> DEFINE s == Other(t)
  <2>2. s \in Sides /\ position[s] \in Nat /\ position[t] \in Nat
    BY TwoSides DEF RelayInv, RelayTypes
  <2>3. Qualifies(mapping) /\ position[t] = Relayed(mapping, s, position[s])
    BY <2>1 DEF RelayInv, Carries, Open
  <2> DEFINE h == mapping.steps["hardware"] - 1
             d == mapping.steps["daw"] - 1
             apart == Apart(position["hardware"], position["daw"])
  <2>4. CASE mapping.curve # "stepped"
    <3>1. position[t] = position[s]
      BY <2>2, <2>3, <2>4, RelayedIsNear
    <3>2. QED
      BY <2>2, <2>4, <3>1 DEF SidesAgreeAtRest, Apart, Sides, Other
  <2>5. CASE mapping.curve = "stepped"
    <3>1. h \in Nat /\ d \in Nat
      BY <2>3, <2>5, Intervals DEF Sides
    <3>2. apart \in Nat /\ apart = Apart(position["daw"], position["hardware"])
      BY DEF Apart, RelayInv, RelayTypes, Sides
    <3>3. \/ 2 * h * d * apart <= Grid * (h + d)
          \/ 2 * d * h * apart <= Grid * (d + h)
      <4>1. CASE s = "hardware"
        <5>1. t = "daw" /\ Other(s) = "daw"
          BY <4>1 DEF Other, Sides
        <5>2. QED
          BY <2>2, <2>3, <2>5, <4>1, <5>1, RelayedIsNear
      <4>2. CASE s = "daw"
        <5>1. t = "hardware" /\ Other(s) = "hardware"
          BY <4>2 DEF Other, Sides
        <5>2. QED
          BY <2>2, <2>3, <2>5, <3>2, <4>2, <5>1, RelayedIsNear
      <4>3. QED
        BY <2>2, <4>1, <4>2 DEF Sides
    <3> HIDE DEF h, d, apart
    <3>4. 2 * h * d * apart <= Grid * (h + d)
      BY <3>1, <3>2, <3>3, GridAssumption
    <3>5. QED
      BY <2>5, <3>4 DEF SidesAgreeAtRest, Sides, h, d, apart
  <2>6. QED
    BY <2>4, <2>5
<1>2. QED
  BY <1>1, RelayInvariance, PTL
=============================================================================
