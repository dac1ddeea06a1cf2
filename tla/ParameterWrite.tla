--------------------------- MODULE ParameterWrite ---------------------------
(***************************************************************************)
(* The acknowledged-write lifecycle of src/core/state_sync.cpp: plan,      *)
(* dispatch, acknowledge and expire, for several intents at once, against  *)
(* a hardware side and a DAW side that change on their own.                *)
(*                                                                         *)
(* The adapters that carry a write and read a target back are not in the   *)
(* repository; they are the external part of the model.  "history" holds   *)
(* every state either side has been in, with the time and the revision it  *)
(* had: a read-back delivers some member of it, so observations may be     *)
(* lost, repeated, late and out of order.                                  *)
(***************************************************************************)
EXTENDS Naturals

CONSTANTS Intents,      \* write intents
          Values,       \* parameter values
          Timeouts,     \* acknowledgement timeouts asked for; 0 is refused
          ClockMax,     \* largest representable time (2^64 - 1 us)
          MaxTimeout,   \* 60 s in the code
          MaxRevision   \* bound: changes of each revision counter

ASSUME WriteAssumption ==
  /\ ClockMax \in Nat /\ MaxTimeout \in Nat /\ MaxRevision \in Nat
  /\ Timeouts \subseteq Nat
  /\ Values # {}

VARIABLES
  intents,   \* Intents -> ParameterWriteIntent
  now,       \* monotonic clock, microseconds
  revision,  \* RevisionVector of the canonical session
  actual,    \* what each side really holds
  history    \* every state a side was in: [origin, value, revision, at]

vars == <<intents, now, revision, actual, history>>
envVars == <<now, revision, actual, history>>

Targets == {"hardware", "daw"}                           \* WriteTarget
Phases == {"blocked", "planned", "dispatched", "acknowledged",
           "timed_out", "conflict"}  \* WritePhase; "rejected" is never set
Settled == {"acknowledged", "timed_out", "conflict"}
Revisions == [session : 0 .. MaxRevision, hardware : 0 .. MaxRevision,
              daw : 0 .. MaxRevision]
Clock == 0 .. ClockMax
Observations == [origin : Targets, value : Values, revision : Revisions,
                 at : Clock, observed : BOOLEAN]
NoAck == [origin |-> "bridge"]

Snapshot(side) ==
  [origin |-> side, value |-> actual[side], revision |-> revision, at |-> now,
   observed |-> TRUE]
-----------------------------------------------------------------------------
Init ==
  /\ now = 0
  /\ revision = [session |-> 0, hardware |-> 0, daw |-> 0]
  /\ actual \in [Targets -> Values]
  /\ history = {Snapshot(side) : side \in Targets}
  /\ intents \in [Intents ->
       {[target |-> t, value |-> v, phase |-> "blocked", expected |-> revision,
         created |-> 0, dispatched |-> 0, deadline |-> 0, ack |-> NoAck] :
          t \in Targets, v \in Values}]

TimeoutUnguarded(at, timeout) == timeout # 0 /\ timeout <= MaxTimeout
TimeoutAllowed(at, timeout) ==
  /\ timeout # 0 /\ timeout <= MaxTimeout
  /\ at <= ClockMax - timeout

(* plan_parameter_write with a writable, qualified target.  A refused plan *)
(* stays "blocked" and is not looked at again.                             *)
Plan(i, timeout) ==
  /\ intents[i].phase = "blocked"
  /\ TimeoutAllowed(now, timeout)
  /\ intents' = [intents EXCEPT
       ![i].phase = "planned", ![i].expected = revision, ![i].created = now,
       ![i].deadline = (now + timeout) % (ClockMax + 1)]
  /\ UNCHANGED envVars

RevisionHolds(i) == intents[i].expected = revision
InPlanWindow(i) == now >= intents[i].created /\ now < intents[i].deadline

SetPhase(i, phase) == intents' = [intents EXCEPT ![i].phase = phase]

(* dispatch_parameter_write; only in the last case does the adapter send.  *)
Dispatch(i) ==
  /\ intents[i].phase = "planned"
  /\ \/ ~RevisionHolds(i) /\ SetPhase(i, "conflict")
     \/ RevisionHolds(i) /\ ~InPlanWindow(i) /\ SetPhase(i, "timed_out")
     \/ /\ RevisionHolds(i) /\ InPlanWindow(i)
        /\ intents' = [intents EXCEPT ![i].phase = "dispatched", ![i].dispatched = now]
  /\ UNCHANGED envVars

(* observation_is_current_for_target                                       *)
CurrentStrictly(i, o) ==
  /\ o.revision.session >= intents[i].expected.session
  /\ o.revision[intents[i].target] > intents[i].expected[intents[i].target]
Current(i, o) ==
  /\ o.revision.session >= intents[i].expected.session
  /\ o.revision[intents[i].target] >= intents[i].expected[intents[i].target]

(* acknowledge_parameter_write.  A report about the other side, one nobody *)
(* observed, or one from before the dispatch only leaves a diagnostic.      *)
RelevantUnobserved(i, o) ==
  o.origin = intents[i].target /\ o.at >= intents[i].dispatched
Relevant(i, o) ==
  /\ o.origin = intents[i].target
  /\ o.observed
  /\ o.at >= intents[i].dispatched
InTime(i, o) == o.at < intents[i].deadline

Acknowledge(i, o) ==
  /\ intents[i].phase = "dispatched"
  /\ Relevant(i, o)
  /\ \/ ~InTime(i, o) /\ SetPhase(i, "timed_out")
     \/ InTime(i, o) /\ ~Current(i, o) /\ SetPhase(i, "conflict")
     \/ /\ InTime(i, o) /\ Current(i, o)
        /\ intents' = [intents EXCEPT
             ![i].ack = o,
             ![i].phase = IF o.value = intents[i].value THEN "acknowledged" ELSE "conflict"]
  /\ UNCHANGED envVars

(* expire_parameter_write                                                  *)
ExpireConflicts(i) ==
  /\ intents[i].phase \in {"planned", "dispatched", "conflict"}
  /\ now >= intents[i].deadline
  /\ SetPhase(i, "timed_out") /\ UNCHANGED envVars
Expire(i) ==
  /\ intents[i].phase \in {"planned", "dispatched"}
  /\ now >= intents[i].deadline
  /\ SetPhase(i, "timed_out")
  /\ UNCHANGED envVars
-----------------------------------------------------------------------------
(* External: time, and the two sides.  A side that changes gets a new      *)
(* revision; both old and new state can be read at the current time.       *)
Record == history' = history \cup {Snapshot(side)' : side \in Targets}

Tick ==
  /\ now < ClockMax
  /\ now' = now + 1
  /\ UNCHANGED <<intents, revision, actual>>
  /\ Record

(* A dispatched write arrives, or somebody turns the knob.                 *)
SideChanges(side, v) ==
  /\ revision[side] < MaxRevision
  /\ actual' = [actual EXCEPT ![side] = v]
  /\ revision' = [revision EXCEPT ![side] = @ + 1]
  /\ UNCHANGED <<intents, now>>
  /\ Record

SessionChanges ==
  /\ revision.session < MaxRevision
  /\ revision' = [revision EXCEPT !.session = @ + 1]
  /\ UNCHANGED <<intents, now, actual>>
  /\ Record

(* Reports an adapter may pass in: real read-backs, and values assumed but *)
(* not read, which carry less evidence than "observed".                    *)
Assumed == [origin : Targets, value : Values, revision : {revision}, at : {now},
            observed : {FALSE}]

Next ==
  \/ \E i \in Intents, t \in Timeouts : Plan(i, t)
  \/ \E i \in Intents : Dispatch(i) \/ Expire(i)
  \/ \E i \in Intents, o \in history \cup Assumed : Acknowledge(i, o)
  \/ \E side \in Targets, v \in Values : SideChanges(side, v)
  \/ Tick \/ SessionChanges

Spec == Init /\ [][Next]_vars
-----------------------------------------------------------------------------
(* Types; and the deadline of a plan lies ahead of it, by no more than the *)
(* bounded timeout: the sum never wraps around the clock.                  *)
TypeOK ==
  /\ now \in Clock /\ revision \in Revisions
  /\ actual \in [Targets -> Values]
  /\ history \subseteq Observations
  /\ intents \in [Intents ->
       [target : Targets, value : Values, phase : Phases, expected : Revisions,
        created : Clock, dispatched : Clock, deadline : Clock,
        ack : Observations \cup {NoAck}]]
  /\ \A i \in Intents : intents[i].phase # "blocked" =>
       intents[i].deadline \in intents[i].created + 1 .. intents[i].created + MaxTimeout

(* "Acknowledged" means the target itself really held the requested value  *)
(* after the dispatch, before the deadline, at a revision no older than    *)
(* the plan's, however observations were delayed, repeated or reordered.   *)
AckIsTrue ==
  \A i \in Intents : intents[i].phase = "acknowledged" =>
    /\ intents[i].ack \in history
    /\ intents[i].ack.origin = intents[i].target
    /\ intents[i].ack.value = intents[i].value
    /\ intents[i].ack.at \in intents[i].dispatched .. intents[i].deadline - 1
    /\ Current(i, intents[i].ack)

(* A conflict is never raised out of nothing: since the plan was made the  *)
(* revision was seen to differ, or the target to hold another value.       *)
ConflictIsReal ==
  \A i \in Intents : intents[i].phase = "conflict" =>
    \E o \in history :
      /\ o.at >= intents[i].created
      /\ \/ o.revision # intents[i].expected
         \/ o.origin = intents[i].target /\ o.value # intents[i].value

(* A settled intent stays as it is: a late, repeated or reordered answer   *)
(* never revives it and no second poll re-times it.                        *)
SettledForever ==
  [][\A i \in Intents : intents[i].phase \in Settled => UNCHANGED intents[i]]_vars
=============================================================================
