--------------------------- MODULE MCParameterWrite ---------------------------
(* One behaviour is either of the write life cycle or of the relay of one    *)
(* parameter: "owner" says which, and the other half keeps its initial state.*)
EXTENDS ParameterWrite, ParameterRelay, TLC

VARIABLE owner

\* Values are only compared for equality, so permuting them is a symmetry.
ValueSymmetry == Permutations(Values)

StepCounts == {2, 3, 4, 5, 7}
Directions == {"hardware_to_daw", "daw_to_hardware", "bidirectional"}
Good(h, d, direction) ==
    [steps |-> [side \in Sides |-> IF side = "hardware" THEN h ELSE d],
     direction |-> direction, curve |-> "stepped", readable |-> Sides, writable |-> Sides,
     acknowledged |-> TRUE, bounded |-> TRUE, qualified |-> TRUE]
MCMappings ==
    {Good(h, d, direction) : h \in StepCounts, d \in StepCounts, direction \in Directions}
      \cup {[Good(3, 4, direction) EXCEPT !.curve = "linear"] : direction \in Directions}
      \cup {Good(3, 1, "bidirectional"),
            [Good(3, 4, "bidirectional") EXCEPT !.qualified = FALSE],
            [Good(3, 4, "bidirectional") EXCEPT !.writable = {"daw"}],
            [Good(3, 4, "hardware_to_daw") EXCEPT !.writable = {"daw"}]}
MCHands == {0, 1, 3, 5, 6, 11, 12, 13}

WriteAtRest ==
    \A i \in Intents, side \in Targets :
        intents[i].target = "daw" /\ actual[side] = intents[i].value
MCInit ==
    /\ Init /\ RelayInit /\ owner \in {"write", "relay"}
    /\ owner = "write" => mapping = Good(2, 2, "bidirectional")
    /\ owner = "relay" => WriteAtRest
MCNext ==
    \/ owner = "write" /\ Next /\ UNCHANGED <<owner, relayVars>>
    \/ owner = "relay" /\ RelayNext /\ UNCHANGED <<owner, vars>>
MCSpec == MCInit /\ [][MCNext]_<<owner, vars, relayVars>>
=============================================================================
