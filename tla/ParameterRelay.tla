---------------------------- MODULE ParameterRelay ----------------------------
(***************************************************************************)
(* The relay of one parameter between a hardware and a DAW endpoint        *)
(* (src/core/parameter_sync.cpp): an observed value is normalised, brought *)
(* to the steps of the other side and written there, where it is observed  *)
(* again and relayed back.                                                 *)
(*                                                                         *)
(* Values are positions on the endpoint's range, 0 .. Grid, so that the    *)
(* two ranges need no units; a position beyond Grid is outside the range.  *)
(* The write itself is the life cycle of ParameterWrite, of which only the *)
(* outcomes matter here.  The loop around the relay is the adapter's and   *)
(* external: a side reports a value that changed, and one write of a       *)
(* parameter is awaited before the next is planned.  Arithmetic is exact   *)
(* here: errors of doubles, and ties they break, are left out.             *)
(***************************************************************************)
EXTENDS Integers

CONSTANTS Grid,      \* positions 0 .. Grid; each step count - 1 divides it
          Mappings,  \* the mapping in use is one of these
          Hands,     \* positions the musician may turn a side to
          MaxTurns   \* bound: how often a side is turned

ASSUME GridAssumption ==
    /\ Grid \in Nat \ {0} /\ MaxTurns \in Nat /\ Hands \subseteq Nat
    /\ \A m \in Mappings, side \in {"hardware", "daw"} :
          /\ m.steps[side] \in Nat
          /\ m.steps[side] > 1 => Grid % (m.steps[side] - 1) = 0

VARIABLES mapping,   \* QualifiedParameterMapping
          position,  \* side -> the value it holds
          fresh,     \* sides with a change not relayed yet
          write,     \* the last write planned
          turns,     \* how often a side was turned
          hops       \* writes that moved a side since the last turn

relayVars == <<mapping, position, fresh, write, turns, hops>>

Sides == {"hardware", "daw"}
Other(side) == IF side = "hardware" THEN "daw" ELSE "hardware"
Open == {"planned", "dispatched"}

RelayInit ==
    /\ mapping \in Mappings
    /\ position = [side \in Sides |-> 0]
    /\ fresh = {} /\ turns = 0 /\ hops = 0
    /\ write = [phase |-> "blocked", target |-> "daw", value |-> 0, current |-> TRUE]

\* Which sides a mapping reads, and the other one writes.
Sources(m) == CASE m.direction = "hardware_to_daw" -> {"hardware"}
                [] m.direction = "daw_to_hardware" -> {"daw"}
                [] m.direction = "bidirectional" -> Sides

(* validate_parameter_mapping: no error, and qualified evidence.           *)
Valid(m) ==
    /\ m.curve = "stepped" => \A side \in Sides : m.steps[side] >= 2
    /\ \A side \in Sources(m) : side \in m.readable /\ Other(side) \in m.writable
    /\ m.acknowledged /\ m.bounded /\ m.qualified

RoundDown(a, b) == a \div b  \* mutant: truncated
\* a / b rounded to the nearest, halves up: std::round on a value >= 0.
Round(a, b) == (2 * a + b) \div (2 * b)

SnapOff(m, side, x) ==  \* mutant: as many intervals as steps
    LET n == m.steps[side]
    IN IF m.curve = "stepped" /\ n > 1
       THEN LET y == Round(x * n, Grid) * (Grid \div n) IN IF y > Grid THEN Grid ELSE y
       ELSE x

\* The nearest position that is a step of an endpoint.
Snap(m, side, x) ==
    LET n == m.steps[side] - 1
    IN IF m.curve = "stepped" /\ n > 0 THEN Round(x * n, Grid) * (Grid \div n) ELSE x

(* normalize_value on the source, then denormalize_value on the target.    *)
Relayed(m, side, x) == Snap(m, Other(side), Snap(m, side, x))

(* plan_parameter_relay of a reported value: refused for an invalid        *)
(* mapping, a side the direction does not read and a value outside the     *)
(* range, which is not clamped.                                            *)
PlanRelay(side) ==
    /\ side \in fresh
    /\ write.phase \notin Open
    /\ fresh' = fresh \ {side}
    /\ LET accepted == /\ Valid(mapping) /\ side \in Sources(mapping)
                       /\ position[side] <= Grid
       IN write' = [phase |-> IF accepted THEN "planned" ELSE "blocked",
                    target |-> Other(side), current |-> TRUE,
                    value |-> IF accepted THEN Relayed(mapping, side, position[side]) ELSE 0]
    /\ UNCHANGED <<mapping, position, turns, hops>>

(* dispatch_parameter_write: not on a revision that has moved.             *)
DispatchRelay ==
    /\ write.phase = "planned"
    /\ write' = [write EXCEPT !.phase = IF write.current THEN "dispatched" ELSE "conflict"]
    /\ UNCHANGED <<mapping, position, fresh, turns, hops>>

\* A side takes a position and reports it if it is another one.
Moves(side, x) ==
    /\ position' = [position EXCEPT ![side] = x]
    /\ fresh' = IF position[side] = x THEN fresh ELSE fresh \cup {side}

(* The target takes the value and is read back in time, or too late.       *)
Arrive(intime) ==
    /\ write.phase = "dispatched"
    /\ Moves(write.target, write.value)
    /\ hops' = IF position' = position THEN hops ELSE hops + 1
    /\ write' = [write EXCEPT !.phase = IF intime THEN "acknowledged" ELSE "timed_out"]
    /\ UNCHANGED <<mapping, turns>>

(* The write is lost, or its deadline passes before it is sent.            *)
Lost ==
    /\ write.phase \in Open
    /\ write' = [write EXCEPT !.phase = "timed_out"]
    /\ UNCHANGED <<mapping, position, fresh, turns, hops>>

(* The musician turns a side, also while a write is on its way.            *)
Turn(side, x) ==
    /\ turns < MaxTurns /\ turns' = turns + 1
    /\ x # position[side]
    /\ Moves(side, x)
    /\ write' = [write EXCEPT !.current = FALSE]
    /\ hops' = 0
    /\ UNCHANGED mapping

RelayNext ==
    \/ \E side \in Sides : PlanRelay(side)
    \/ DispatchRelay \/ Lost
    \/ \E intime \in BOOLEAN : Arrive(intime)
    \/ \E side \in Sides, x \in Hands : Turn(side, x)

RelaySpec == RelayInit /\ [][RelayNext]_relayVars
-----------------------------------------------------------------------------
Apart(a, b) == IF a > b THEN a - b ELSE b - a

(* Once every change was relayed and the last write was acknowledged, the  *)
(* two sides agree to half a step of each, whatever turns, lost or late    *)
(* writes and echoes came before.                                          *)
SidesAgreeAtRest ==
    LET apart == Apart(position["hardware"], position["daw"])
        n == [side \in Sides |-> mapping.steps[side] - 1]
    IN fresh = {} /\ write.phase = "acknowledged" =>
          IF mapping.curve = "stepped"
          THEN 2 * n["hardware"] * n["daw"] * apart <= Grid * (n["hardware"] + n["daw"])
          ELSE apart = 0

(* A value that comes back does not start another round for ever: two      *)
(* sides with different steps move each other at most three times.         *)
EchoesDieOut == hops <= 3
=============================================================================
