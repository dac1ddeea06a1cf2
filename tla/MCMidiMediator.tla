--------------------------- MODULE MCMidiMediator ---------------------------
(***************************************************************************)
(* Three scenarios over MidiMediator, one per behaviour: two notes between *)
(* both endpoints, for echoes and queues; one note from one endpoint, for  *)
(* the rate budget; every kind of message under changing authorities.      *)
(***************************************************************************)
EXTENDS MidiMediator

VARIABLE scenario

Message(kind, data) == [kind |-> kind, data |-> data]
Policy(t, c, sources) == [transport |-> t, clock |-> c, sources |-> sources]
Default == Policy("daw", "daw", Endpoints)

Scenarios ==
  [echo |-> [messages |-> {Message("channel", 1), Message("channel", 2)},
             policies |-> {Default}, forwards |-> 3, times |-> 2],
   rate |-> [messages |-> {Message("channel", 1)},
             policies |-> {Policy("daw", "daw", {"hardware"})}, forwards |-> 4, times |-> 3],
   transport |-> [messages |-> {Message(k, 0) : k \in {"start", "continue", "stop", "clock", "invalid"}}
                                 \cup {Message("position", 3)},
                  policies |-> {Default, Policy("hardware", "daw", {"hardware"})},
                  forwards |-> 2, times |-> 1]]

AllMessages == UNION {Scenarios[s].messages : s \in DOMAIN Scenarios}
AllPolicies == UNION {Scenarios[s].policies : s \in DOMAIN Scenarios}

MCInit == Init /\ scenario \in DOMAIN Scenarios /\ policy \in Scenarios[scenario].policies
MCNext ==
  /\ UNCHANGED scenario
  /\ \/ \E source \in Endpoints, message \in Scenarios[scenario].messages :
          \E at \in clock[source] .. Scenarios[scenario].times :
            Route(source, message, at) /\ Len(forwards') <= Scenarios[scenario].forwards
     \/ \E target \in Endpoints : Pop(target)
     \/ \E p \in Scenarios[scenario].policies : SetPolicy(p)
     \/ Reset
MCSpec == MCInit /\ [][MCNext]_<<vars, scenario>>
=============================================================================
